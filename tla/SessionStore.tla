---------------------------- MODULE SessionStore ----------------------------
(***************************************************************************)
(* session/sqlitestore/store.go: sessions in a table of SQLite, looked up  *)
(* and saved by concurrent requests and deleted by a periodic Cleanup.     *)
(* Every statement goes through the pools of Pool: what a request read is  *)
(* stale by the time its own statement gets a connection, and each         *)
(* statement may fail on its own.  Times are in milliseconds, as stored.   *)
(*                                                                         *)
(* A request handler is the application's; it may regenerate and           *)
(* invalidate its session (session/sessions.go) and save it any number of  *)
(* times, also after a Save that returned an error.                        *)
(***************************************************************************)
EXTENDS Integers, Pool

CONSTANTS Requests,    \* goroutines of request handlers
          Cleaner,     \* the goroutine of PeriodicallyCleanup
          NoID,        \* the empty session id
          Timeouts,    \* values of AbsoluteTimeout, one per run of the server
          MaxID,       \* bound: session ids generated
          MaxTime,     \* bound: of the clock
          MaxRestarts  \* bound: restarts of the server

ASSUME UsersAssumption ==
  Cleaner \notin Requests /\ Users = Requests \cup {Cleaner}
ASSUME TimeoutsAssumption == Timeouts \subseteq Nat
ASSUME NoIDAssumption == NoID \notin Nat
ASSUME BoundsAssumption ==
  MaxID \in Nat /\ MaxTime \in Nat /\ MaxRestarts \in Nat

Ids == 1..MaxID

VARIABLES
  now,
  timeout,  \* SqliteStore.AbsoluteTimeout
  rows,     \* ids in sessions_session
  created,  \* their creation_time
  expires,  \* their expiration_time
  issued,   \* ids that Save put in a cookie
  nextID,   \* the next id to generate
  session,  \* per request: the ID, IsNew and MaxAge < 0 of its Session
  stamp,    \* per user: the time.Now() its statement carries, else 0
  pc,       \* per user: what it is doing; a statement by its name
  restarts,
  gone,     \* history: ids of rows that were deleted
  lost,     \* history: ids of regenerated sessions whose insertion failed
  limit     \* history: creation plus the timeout in force then, per id

tableVars == <<rows, created, expires, gone, lost, limit>>
storeVars == <<now, timeout, tableVars, issued, nextID, session, stamp, pc,
               restarts>>
vars == <<poolVars, storeVars>>

Sessions == [id : Ids \cup {NoID}, isNew : BOOLEAN, invalid : BOOLEAN]

Fresh == [id |-> NoID, isNew |-> TRUE, invalid |-> FALSE]

RequestPC == {"idle", "select", "handler", "delete", "insert", "update"}
CleanerPC == {"idle", "expired", "next", "old", "stopped"}

TableTypes ==
  /\ now \in Nat /\ restarts \in Nat
  /\ timeout \in Timeouts
  /\ rows \subseteq Ids /\ gone \subseteq Ids /\ lost \subseteq Ids
  /\ issued \subseteq Ids
  /\ created \in [Ids -> Nat] /\ expires \in [Ids -> Nat]
  /\ limit \in [Ids -> Nat]
  /\ nextID \in 1..(MaxID + 1)
  /\ session \in [Requests -> Sessions]
  /\ stamp \in [Users -> Nat]
  /\ pc \in [Users -> RequestPC \cup CleanerPC]
  /\ pc[Cleaner] \in CleanerPC

StoreTypeOK == PoolTypes /\ TableTypes

Init ==
  /\ PoolInit
  /\ now = 0 /\ restarts = 0
  /\ timeout \in Timeouts
  /\ rows = {} /\ gone = {} /\ lost = {} /\ issued = {}
  /\ created = [i \in Ids |-> 0] /\ expires = [i \in Ids |-> 0]
  /\ limit = [i \in Ids |-> 0]
  /\ nextID = 1
  /\ session = [r \in Requests |-> Fresh]
  /\ stamp = [u \in Users |-> 0]
  /\ pc = [u \in Users |-> "idle"]

Goto(u, p) == pc' = [pc EXCEPT ![u] = p]

-----------------------------------------------------------------------------
(* New *)

\* New without a cookie, or with one that does not decode.
NewSession(r) ==
  /\ pc[r] = "idle"
  /\ Goto(r, "handler")
  /\ session' = [session EXCEPT ![r] = Fresh]
  /\ UNCHANGED <<poolVars, now, timeout, tableVars, issued, nextID, stamp,
                 restarts>>

\* New with the id of a cookie, up to the statement of GetSession.  Lookup
\* of session/store.go does the same with an id it is given.
New(r) ==
  /\ pc[r] = "idle"
  /\ \E i \in issued : session' = [session EXCEPT ![r] = [Fresh EXCEPT !.id = i]]
  /\ Goto(r, "select")
  /\ Acquire(r, "read")
  /\ UNCHANGED <<now, timeout, tableVars, issued, nextID, stamp, restarts>>

\* A mutant: the timeout in force decides, not the stored expiration.
AcceptsMutant(i) == i \in rows /\ created[i] + timeout >= now

\* GetSession finds a row, and it has not expired.
Accepts(i) == i \in rows /\ expires[i] >= now

\* GetSession returns, and New with it.  The data of the row may fail to
\* decode (the keys have changed); the id is kept in every case.
GotSession(r) ==
  /\ pc[r] = "select" /\ phase[r] = "use"
  /\ \E decodes \in BOOLEAN :
       session' = [session EXCEPT ![r].isNew = ~(Accepts(session[r].id) /\ decodes)]
  /\ Goto(r, "handler")
  /\ Release(r)
  /\ UNCHANGED <<now, timeout, tableVars, issued, nextID, stamp, restarts>>

-----------------------------------------------------------------------------
(* The handler *)

\* session.Regenerate
Regenerate(r) ==
  /\ pc[r] = "handler"
  /\ session' = [session EXCEPT ![r].id = NoID]
  /\ UNCHANGED <<poolVars, now, timeout, tableVars, issued, nextID, stamp, pc,
                 restarts>>

\* session.Invalidate
Invalidate(r) ==
  /\ pc[r] = "handler"
  /\ session' = [session EXCEPT ![r].invalid = TRUE]
  /\ UNCHANGED <<poolVars, now, timeout, tableVars, issued, nextID, stamp, pc,
                 restarts>>

\* The handler returns.
EndRequest(r) ==
  /\ pc[r] = "handler"
  /\ Goto(r, "idle")
  /\ session' = [session EXCEPT ![r] = Fresh]
  /\ UNCHANGED <<poolVars, now, timeout, tableVars, issued, nextID, stamp,
                 restarts>>

-----------------------------------------------------------------------------
(* Save *)

NeedsInsert(r) == session[r].id = NoID \/ session[r].isNew

\* Save of a session with MaxAge < 0, up to the statement.
SaveDeletes(r) ==
  /\ pc[r] = "handler" /\ session[r].invalid
  /\ Goto(r, "delete")
  /\ Acquire(r, "write")
  /\ UNCHANGED <<now, timeout, tableVars, issued, nextID, session, stamp,
                 restarts>>

\* Save of a new or regenerated one: IsNew stays as it is, so the next Save
\* of the request may insert again.
SaveInserts(r) ==
  /\ pc[r] = "handler" /\ ~session[r].invalid /\ NeedsInsert(r)
  /\ nextID <= MaxID
  /\ session' = [session EXCEPT ![r].id = nextID]
  /\ nextID' = nextID + 1
  /\ stamp' = [stamp EXCEPT ![r] = now]
  /\ Goto(r, "insert")
  /\ Acquire(r, "write")
  /\ UNCHANGED <<now, timeout, tableVars, issued, restarts>>

\* The ids lost when the insertion of id i fails.  IsNew of a regenerated
\* session is FALSE, so its next Save will take i for the id of a row.
LostBy(r, i) == IF session[r].isNew THEN lost ELSE lost \cup {i}

\* Save of a new or regenerated one whose values cannot be encoded: the id is
\* assigned all the same.
SaveFailsToEncode(r) ==
  /\ pc[r] = "handler" /\ ~session[r].invalid /\ NeedsInsert(r)
  /\ nextID <= MaxID
  /\ session' = [session EXCEPT ![r].id = nextID]
  /\ nextID' = nextID + 1
  /\ lost' = LostBy(r, nextID)
  /\ UNCHANGED <<poolVars, now, timeout, rows, created, expires, gone, limit,
                 issued, stamp, pc, restarts>>

SaveUpdates(r) ==
  /\ pc[r] = "handler" /\ ~session[r].invalid /\ ~NeedsInsert(r)
  /\ Goto(r, "update")
  /\ Acquire(r, "write")
  /\ UNCHANGED <<now, timeout, tableVars, issued, nextID, session, stamp,
                 restarts>>

\* DeleteSession: no row is not an error.
DeletedSession(r) ==
  /\ pc[r] = "delete" /\ phase[r] = "use"
  /\ rows' = rows \ {session[r].id}
  /\ gone' = gone \cup (rows \cap {session[r].id})
  /\ Goto(r, "handler")
  /\ Release(r)
  /\ UNCHANGED <<now, timeout, created, expires, lost, limit, issued, nextID,
                 session, stamp, restarts>>

\* The end of Save: the cookie, unless the id cannot be encoded.
SetsCookie(r) == issued' \in {issued, issued \cup {session[r].id}}

\* AddSession of the record of createdSession, and the cookie.
AddedSession(r) ==
  LET i == session[r].id
      e == stamp[r] + timeout
  IN /\ pc[r] = "insert" /\ phase[r] = "use"
     /\ rows' = rows \cup {i}
     /\ created' = [created EXCEPT ![i] = stamp[r]]
     /\ expires' = [expires EXCEPT ![i] = e]
     /\ limit' = [limit EXCEPT ![i] = e]
     /\ SetsCookie(r)
     /\ Goto(r, "handler")
     /\ Release(r)
     /\ stamp' = [stamp EXCEPT ![r] = 0]
     /\ UNCHANGED <<now, timeout, gone, lost, nextID, session, restarts>>

\* A mutant: the update inserts a row that is missing.
UpdatedRowsMutant(r) == rows \cup {session[r].id}

\* The rows after the update statement, which matches an existing one only.
UpdatedRows(r) == rows

\* A mutant: each save starts the timeout again.
UpdatedExpiryMutant(r) == now + timeout

\* A mutant: the update writes the zero ExpirationTime of modifiedSession,
\* which is before 1970.
UpdatedExpiryZeroMutant(r) == -1

\* The expiration_time after it: newUpdate does not name that column.
UpdatedExpiry(r) == expires[session[r].id]

\* UpdateSession, and the cookie: no row is not an error.
UpdatedSession(r) ==
  /\ pc[r] = "update" /\ phase[r] = "use"
  /\ rows' = UpdatedRows(r)
  /\ expires' = [expires EXCEPT ![session[r].id] = UpdatedExpiry(r)]
  /\ SetsCookie(r)
  /\ Goto(r, "handler")
  /\ Release(r)
  /\ UNCHANGED <<now, timeout, created, gone, lost, limit, nextID, session,
                 stamp, restarts>>

-----------------------------------------------------------------------------
(* Cleanup *)

\* The ticker fires: Cleanup, up to its first statement, then its second.
CleanupStarts ==
  /\ \/ pc[Cleaner] = "idle" /\ Goto(Cleaner, "expired")
     \/ pc[Cleaner] = "next" /\ Goto(Cleaner, "old")
  /\ stamp' = [stamp EXCEPT ![Cleaner] = now]
  /\ Acquire(Cleaner, "write")
  /\ UNCHANGED <<now, timeout, tableVars, issued, nextID, session, restarts>>

Deletes(s, p) ==
  /\ rows' = rows \ s
  /\ gone' = gone \cup s
  /\ Goto(Cleaner, p)
  /\ Release(Cleaner)
  /\ stamp' = [stamp EXCEPT ![Cleaner] = 0]
  /\ UNCHANGED <<now, timeout, created, expires, lost, limit, issued, nextID,
                 session, restarts>>

DeletedExpiredSessions ==
  /\ pc[Cleaner] = "expired" /\ phase[Cleaner] = "use"
  /\ Deletes({i \in rows : expires[i] < stamp[Cleaner]}, "next")

\* A mutant: the second statement repeats the condition of the first.
PastTimeoutMutant(i) == expires[i] < stamp[Cleaner]

\* The condition of delete-sessions-past-creation-timeout.sql.
PastTimeout(i) == created[i] + timeout < stamp[Cleaner]

DeletedOldCreatedSessions ==
  /\ pc[Cleaner] = "old" /\ phase[Cleaner] = "use"
  /\ Deletes({i \in rows : PastTimeout(i)}, "idle")

-----------------------------------------------------------------------------
(* Steps of any user *)

Takes(u) == Take(u) /\ UNCHANGED storeVars
Prepares(u) == Prepare(u) /\ UNCHANGED storeVars
PutsBack(c) == PutBack(c) /\ UNCHANGED storeVars

\* A mutant: Save sets the cookie before it looks at the error of AddSession.
IssuedOnErrorMutant(u) ==
  IF pc[u] = "insert" THEN issued \cup {session[u].id} ELSE issued

\* The cookies after a statement that failed.
IssuedOnError(u) == issued

\* The statement of u returns an error: New treats it as no row (store.go:
\* 109-113), Save returns it to the handler and leaves the Session as it is,
\* with the id it assigned (142-166), and Repeat stops the cleaner for good
\* (handling/time.go:68-70).
Returns(u) ==
  /\ Goto(u, IF u = Cleaner THEN "stopped" ELSE "handler")
  /\ lost' = IF pc[u] = "insert" THEN LostBy(u, session[u].id) ELSE lost
  /\ issued' = IssuedOnError(u)
  /\ stamp' = [stamp EXCEPT ![u] = 0]
  /\ UNCHANGED <<now, timeout, rows, created, expires, gone, limit, nextID,
                 session, restarts>>

AcquireFails(u) == TakeFails(u) /\ Returns(u)
Fails(u) == (PrepareFails(u) \/ Release(u)) /\ Returns(u)

Tick ==
  /\ now < MaxTime
  /\ now' = now + 1
  /\ UNCHANGED <<poolVars, timeout, tableVars, issued, nextID, session, stamp,
                 pc, restarts>>

\* The server stops at any point and starts again, with another timeout.
Restart ==
  /\ restarts < MaxRestarts
  /\ restarts' = restarts + 1
  /\ Reopen
  /\ timeout' \in Timeouts
  /\ pc' = [u \in Users |-> "idle"]
  /\ session' = [r \in Requests |-> Fresh]
  /\ stamp' = [u \in Users |-> 0]
  /\ UNCHANGED <<now, tableVars, issued, nextID>>

Statement(r) ==
  GotSession(r) \/ DeletedSession(r) \/ AddedSession(r) \/ UpdatedSession(r)

CleanerStatement == DeletedExpiredSessions \/ DeletedOldCreatedSessions

Request(r) ==
  \/ NewSession(r) \/ New(r)
  \/ Regenerate(r) \/ Invalidate(r) \/ EndRequest(r)
  \/ SaveDeletes(r) \/ SaveInserts(r) \/ SaveFailsToEncode(r) \/ SaveUpdates(r)
  \/ Statement(r)

Next ==
  \/ \E r \in Requests : Request(r)
  \/ CleanupStarts \/ CleanerStatement
  \/ \E u \in Users : Takes(u) \/ AcquireFails(u) \/ Prepares(u) \/ Fails(u)
  \/ \E c \in Conns : PutsBack(c)
  \/ Tick \/ Restart

Spec == Init /\ [][Next]_vars

\* A goroutine that has a connection goes on, the ticker fires, and the
\* pool, a channel, serves those who wait in Take in turn.
Fairness ==
  /\ \A r \in Requests : WF_vars(Prepares(r) \/ Statement(r) \/ Fails(r))
  /\ WF_vars(Prepares(Cleaner) \/ CleanerStatement \/ Fails(Cleaner))
  /\ WF_vars(CleanupStarts)
  /\ SF_vars(Takes(Cleaner))
  /\ \A c \in Conns : WF_vars(PutsBack(c))

FairSpec == Spec /\ Fairness

-----------------------------------------------------------------------------
\* A row that was deleted never comes back: a request that loaded a session
\* before another one logged it out, or before Cleanup deleted it, and
\* saves it afterwards, does not revive it (store.go:157-165).
NoResurrection == rows \cap gone = {}

\* A cookie names a session that was stored: an insertion that fails, at
\* any point of taking a connection and using it, leaves no cookie behind,
\* and a Save that is tried again inserts under another id (store.go:149-158);
\* but for the ids lost when a regenerated session could not be inserted, and
\* those never come to name a session.
CookieHasRow ==
  /\ issued \subseteq rows \cup gone \cup lost
  /\ lost \cap (rows \cup gone) = {}

\* store.go:21: "SqliteStore stores sessions", and 133-134: Save "properly
\* enforces session cookie handling": the session of a cookie was stored.
CookieIsStored == issued \subseteq rows \cup gone

\* New accepts a session no longer than the timeout in force when it was
\* created, however often it was saved since and with whatever timeout the
\* server was restarted (store.go:111-115, 183-185).
AbsoluteTimeout ==
  [][\A r \in Requests :
       pc[r] = "select" /\ pc'[r] = "handler" /\ ~session'[r].isNew
         => now <= limit[session[r].id]]_vars

\* Cleanup reaches every session past its expiration, or past the timeout
\* of a server restarted with a shorter one, also one whose insertion came
\* late, unless an error has stopped it (store.go:263-287).
CleanupReaches ==
  \A i \in Ids :
    /\ (i \in rows /\ expires[i] < now)
         ~> (i \notin rows \/ pc[Cleaner] = "stopped")
    /\ (i \in rows /\ created[i] + timeout < now)
         ~> (\/ i \notin rows \/ pc[Cleaner] = "stopped"
             \/ created[i] + timeout >= now)
=============================================================================
