-------------------------------- MODULE Pool --------------------------------
(***************************************************************************)
(* database/db.go: the pools of SQLite connections behind every statement. *)
(* A user is a goroutine that runs a statement: it takes a connection from *)
(* the pool of writers or of readers, prepares it if nobody has before,    *)
(* uses it, and hands it to a goroutine that puts it back.                 *)
(***************************************************************************)
CONSTANTS Users,    \* goroutines that run statements
          Conns,    \* the connections of both pools
          Writers,  \* those of writePool
          NoConn

ASSUME WritersAssumption == Writers \subseteq Conns
ASSUME NoConnAssumption == NoConn \notin Conns

VARIABLES
  idle,      \* connections in their pools
  returning, \* connections that a goroutine of Release* is putting back
  prepared,  \* keys of DB.connPools
  ready,     \* history: connections on which every preparation query ran
  phase,     \* per user: "none", "read" or "write" in the Take of that pool,
             \* "prepare", "use"
  held       \* per user: the connection it has

poolVars == <<idle, returning, prepared, ready, phase, held>>

PoolOf(w) == IF w = "write" THEN Writers ELSE Conns \ Writers

PoolTypes ==
  /\ idle \subseteq Conns
  /\ returning \subseteq Conns
  /\ prepared \subseteq Conns
  /\ ready \subseteq Conns
  /\ phase \in [Users -> {"none", "read", "write", "prepare", "use"}]
  /\ held \in [Users -> Conns \cup {NoConn}]

\* NewDB and Open.
PoolInit ==
  /\ idle = Conns
  /\ returning = {}
  /\ prepared = {}
  /\ ready = {}
  /\ phase = [u \in Users |-> "none"]
  /\ held = [u \in Users |-> NoConn]

\* AcquireReader or AcquireWriter, up to pool.Take.
Acquire(u, w) ==
  /\ phase[u] = "none"
  /\ phase' = [phase EXCEPT ![u] = w]
  /\ UNCHANGED <<idle, returning, prepared, ready, held>>

\* pool.Take returns a connection.
Take(u) ==
  /\ phase[u] \in {"read", "write"}
  /\ \E c \in idle \cap PoolOf(phase[u]) :
       /\ idle' = idle \ {c}
       /\ held' = [held EXCEPT ![u] = c]
  /\ phase' = [phase EXCEPT ![u] = "prepare"]
  /\ UNCHANGED <<returning, prepared, ready>>

\* pool.Take returns an error: the context of the caller is done.
TakeFails(u) ==
  /\ phase[u] \in {"read", "write"}
  /\ phase' = [phase EXCEPT ![u] = "none"]
  /\ UNCHANGED <<idle, returning, prepared, ready, held>>

\* prepare: nothing to do for a connection of connPools; the queries of
\* prepareConnQueries all succeed on another.
Prepare(u) ==
  /\ phase[u] = "prepare"
  /\ prepared' = prepared \cup {held[u]}
  /\ ready' = IF held[u] \in prepared THEN ready ELSE ready \cup {held[u]}
  /\ phase' = [phase EXCEPT ![u] = "use"]
  /\ UNCHANGED <<idle, returning, held>>

\* A mutant: a connection is recorded before its queries are run.
PrepareRecordsMutant(u) == prepared \cup {held[u]}

\* connPools after a query of prepare has failed.
PrepareRecords(u) == prepared

\* A mutant: the connection is not put back.
PutMutant(u) == idle

\* pool.Put(conn)
Put(u) == idle \cup {held[u]}

\* prepare fails, and acquire puts the connection back.
PrepareFails(u) ==
  /\ phase[u] = "prepare"
  /\ held[u] \notin prepared
  /\ idle' = Put(u)
  /\ held' = [held EXCEPT ![u] = NoConn]
  /\ phase' = [phase EXCEPT ![u] = "none"]
  /\ prepared' = PrepareRecords(u)
  /\ UNCHANGED <<returning, ready>>

\* The deferred ReleaseReader or ReleaseWriter: go pool.Put(conn).
Release(u) ==
  /\ phase[u] = "use"
  /\ returning' = returning \cup {held[u]}
  /\ held' = [held EXCEPT ![u] = NoConn]
  /\ phase' = [phase EXCEPT ![u] = "none"]
  /\ UNCHANGED <<idle, prepared, ready>>

\* That goroutine runs.
PutBack(c) ==
  /\ c \in returning
  /\ returning' = returning \ {c}
  /\ idle' = idle \cup {c}
  /\ UNCHANGED <<prepared, ready, phase, held>>

\* The process ends, and a new one opens its pools.
Reopen ==
  /\ idle' = Conns
  /\ returning' = {}
  /\ prepared' = {}
  /\ ready' = {}
  /\ phase' = [u \in Users |-> "none"]
  /\ held' = [u \in Users |-> NoConn]

PoolNext ==
  \/ \E u \in Users : \/ \E w \in {"read", "write"} : Acquire(u, w)
                      \/ Take(u) \/ TakeFails(u)
                      \/ Prepare(u) \/ PrepareFails(u)
                      \/ Release(u)
  \/ \E c \in Conns : PutBack(c)
  \/ Reopen

PoolSpec == PoolInit /\ [][PoolNext]_poolVars

-----------------------------------------------------------------------------
Holders(c) == {u \in Users : held[u] = c}

\* Every connection is in one place: in its pool, on its way back, or with
\* one user.  So none is used by two goroutines at once, none is put back
\* twice, and none is lost on an error path (db.go:128-136, 149-158).
ConnInOnePlace ==
  \A c \in Conns :
    \/ c \in idle /\ c \notin returning /\ Holders(c) = {}
    \/ c \notin idle /\ c \in returning /\ Holders(c) = {}
    \/ c \notin idle \cup returning /\ \E u \in Users : Holders(c) = {u}

\* No statement runs on a connection whose preparation failed or was never
\* finished, by this user or an earlier one (db.go:93-119).
PreparedBeforeUse ==
  \A u \in Users : phase[u] = "use" => held[u] \in ready
=============================================================================
