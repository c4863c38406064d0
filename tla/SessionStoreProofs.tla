------------------------- MODULE SessionStoreProofs -------------------------
(***************************************************************************)
(* Proofs about Pool and SessionStore for any number of connections,       *)
(* requests, restarts and timeouts.                                        *)
(***************************************************************************)
EXTENDS SessionStore, TLAPS

(***************************************************************************)
(* The pools.  ConnInOnePlace in a form that a step preserves: the three   *)
(* places are disjoint and cover the connections.  A user holds one        *)
(* exactly in the phases after Take, and connPools names only connections  *)
(* on which the queries ran.                                               *)
(***************************************************************************)
PlaceInv ==
  /\ idle \cap returning = {}
  /\ \A u \in Users : held[u] \notin idle \cup returning
  /\ \A u, v \in Users : held[u] = held[v] /\ held[u] # NoConn => u = v
  /\ \A c \in Conns : c \in idle \cup returning \/ \E u \in Users : held[u] = c

ReadyInv ==
  /\ \A u \in Users : phase[u] \in {"prepare", "use"} <=> held[u] # NoConn
  /\ prepared \subseteq ready
  /\ PreparedBeforeUse

PoolInv == PoolTypes /\ PlaceInv /\ ReadyInv

\* Every step of a pool keeps PoolInv: one action at a time, since each
\* moves one connection between two of the places.
LEMMA PoolStep == PoolInv /\ [PoolNext]_poolVars => PoolInv'
<1> SUFFICES ASSUME PoolInv, [PoolNext]_poolVars PROVE PoolInv'
  OBVIOUS
<1> USE NoConnAssumption, WritersAssumption
<1>1. ASSUME NEW u \in Users, NEW w \in {"read", "write"}, Acquire(u, w)
      PROVE PoolInv'
  BY <1>1 DEF Acquire, PoolInv, PoolTypes, PlaceInv, ReadyInv, PreparedBeforeUse
<1>2. ASSUME NEW u \in Users, Take(u) PROVE PoolInv'
  BY <1>2 DEF Take, PoolOf, PoolInv, PoolTypes, PlaceInv, ReadyInv, PreparedBeforeUse
<1>3. ASSUME NEW u \in Users, TakeFails(u) PROVE PoolInv'
  BY <1>3 DEF TakeFails, PoolInv, PoolTypes, PlaceInv, ReadyInv, PreparedBeforeUse
<1>4. ASSUME NEW u \in Users, Prepare(u) PROVE PoolInv'
  BY <1>4 DEF Prepare, PoolInv, PoolTypes, PlaceInv, ReadyInv, PreparedBeforeUse
<1>5. ASSUME NEW u \in Users, PrepareFails(u) PROVE PoolInv'
  BY <1>5 DEF PrepareFails, Put, PrepareRecords, PoolInv, PoolTypes, PlaceInv,
              ReadyInv, PreparedBeforeUse
<1>6. ASSUME NEW u \in Users, Release(u) PROVE PoolInv'
  BY <1>6 DEF Release, PoolInv, PoolTypes, PlaceInv, ReadyInv, PreparedBeforeUse
<1>7. ASSUME NEW c \in Conns, PutBack(c) PROVE PoolInv'
  BY <1>7 DEF PutBack, PoolInv, PoolTypes, PlaceInv, ReadyInv, PreparedBeforeUse
<1>8. CASE Reopen
  BY <1>8 DEF Reopen, PoolInv, PoolTypes, PlaceInv, ReadyInv, PreparedBeforeUse
<1>9. CASE UNCHANGED poolVars
  BY <1>9 DEF poolVars, PoolInv, PoolTypes, PlaceInv, ReadyInv, PreparedBeforeUse
<1> QED
  BY <1>1, <1>2, <1>3, <1>4, <1>5, <1>6, <1>7, <1>8, <1>9 DEF PoolNext

\* PoolInv holds of the pools on their own.
LEMMA PoolInvariant == PoolSpec => []PoolInv
<1>1. PoolInit => PoolInv
  BY NoConnAssumption DEF PoolInit, PoolInv, PoolTypes, PlaceInv, ReadyInv,
                          PreparedBeforeUse
<1> QED
  BY <1>1, PoolStep, PTL DEF PoolSpec

\* PlaceInv says what ConnInOnePlace says.
LEMMA PlacesAreOne == PoolInv => ConnInOnePlace
<1> SUFFICES ASSUME PoolInv, NEW c \in Conns
             PROVE  \/ c \in idle /\ c \notin returning /\ Holders(c) = {}
                    \/ c \notin idle /\ c \in returning /\ Holders(c) = {}
                    \/ c \notin idle \cup returning /\ \E u \in Users : Holders(c) = {u}
  BY DEF ConnInOnePlace
<1>1. CASE c \in idle \cup returning
  BY <1>1 DEF PoolInv, PlaceInv, Holders
<1>2. CASE c \notin idle \cup returning
  <2>1. PICK u \in Users : held[u] = c
    BY <1>2 DEF PoolInv, PlaceInv
  <2>2. Holders(c) = {u}
    BY <2>1, NoConnAssumption DEF PoolInv, PlaceInv, Holders
  <2> QED
    BY <1>2, <2>2
<1> QED
  BY <1>1, <1>2

\* The session store uses its pools as Pool says: every step of a request,
\* of the cleaner or of a restart takes at most one step of the pools, so
\* no statement runs outside Acquire and Release (store.go:203-261).
THEOREM StoreUsesPool == Spec => PoolSpec
<1>1. Init => PoolInit
  BY DEF Init
<1>2. [Next]_vars => [PoolNext]_poolVars
  <2> SUFFICES ASSUME [Next]_vars PROVE [PoolNext]_poolVars
    OBVIOUS
  <2> USE UsersAssumption
  <2>1. ASSUME NEW r \in Requests, Request(r) PROVE [PoolNext]_poolVars
    BY <2>1 DEF Request, NewSession, New, Regenerate, Invalidate, EndRequest,
                SaveDeletes, SaveInserts, SaveFailsToEncode, SaveUpdates,
                Statement, GotSession, DeletedSession, AddedSession,
                UpdatedSession, PoolNext
  <2>2. CASE CleanupStarts \/ CleanerStatement
    BY <2>2 DEF CleanupStarts, CleanerStatement, DeletedExpiredSessions,
                DeletedOldCreatedSessions, Deletes, PoolNext
  <2>3. ASSUME NEW u \in Users, Takes(u) \/ AcquireFails(u) \/ Prepares(u) \/ Fails(u)
        PROVE [PoolNext]_poolVars
    BY <2>3 DEF Takes, AcquireFails, Prepares, Fails, PoolNext
  <2>4. ASSUME NEW c \in Conns, PutsBack(c) PROVE [PoolNext]_poolVars
    BY <2>4 DEF PutsBack, PoolNext
  <2>5. CASE Tick \/ Restart
    BY <2>5 DEF Tick, Restart, PoolNext
  <2>6. CASE UNCHANGED vars
    BY <2>6 DEF vars
  <2> QED
    BY <2>1, <2>2, <2>3, <2>4, <2>5, <2>6 DEF Next
<1> QED
  BY <1>1, <1>2, PTL DEF Spec, PoolSpec

\* No connection is lost, shared or put back twice, whatever statements of
\* requests and cleaner fail, and whenever (db.go:122-158).
THEOREM ConnsInOnePlace == Spec => []ConnInOnePlace
  BY StoreUsesPool, PoolInvariant, PlacesAreOne, PTL

\* No statement runs on a connection that is not prepared (db.go:88-120).
THEOREM PreparedFirst == Spec => []PreparedBeforeUse
<1>1. PoolInv => PreparedBeforeUse
  BY DEF PoolInv, ReadyInv
<1> QED
  BY <1>1, StoreUsesPool, PoolInvariant, PTL

-----------------------------------------------------------------------------
(***************************************************************************)
(* The table.  An id that a request carries for one that it has loaded or  *)
(* regenerated is that of a row, present or deleted, or was lost when its  *)
(* insertion failed.  While the request inserts it, the id is generated,   *)
(* in no row, not lost, and inserted by no other request.  After a failed  *)
(* insertion a session that is new keeps an id in no row, and its IsNew.   *)
(***************************************************************************)
CarriedInv ==
  \A r \in Requests :
    LET i == session[r].id IN
    /\ i # NoID /\ pc[r] # "insert" /\ ~session[r].isNew
         => i \in rows \cup gone \cup lost
    /\ pc[r] = "insert" => /\ i \in Ids /\ i < nextID
                           /\ i \notin rows \cup gone \cup lost
    /\ pc[r] \in {"select", "update"} => i # NoID
    /\ pc[r] = "select" => session[r].isNew
    /\ pc[r] = "update" => ~session[r].isNew

InsertInv ==
  \A r, s \in Requests :
    pc[r] = "insert" /\ pc[s] = "insert" /\ session[r].id = session[s].id => r = s

RowInv ==
  /\ \A i \in rows \cup gone \cup lost : i < nextID
  /\ \A i \in rows : expires[i] = limit[i]

RestInv == CarriedInv /\ InsertInv /\ RowInv /\ NoResurrection /\ CookieHasRow

StoreInv == TableTypes /\ RestInv

\* What the handler and the store do to a Session gives a Session.
LEMMA SessionEdits ==
  /\ Fresh \in Sessions
  /\ \A s \in Sessions :
       /\ \A i \in Ids \cup {NoID} : [s EXCEPT !.id = i] \in Sessions
       /\ \A b \in BOOLEAN : [s EXCEPT !.isNew = b] \in Sessions
       /\ [s EXCEPT !.invalid = TRUE] \in Sessions
  BY DEF Sessions, Fresh

\* The inductive invariant holds initially.
LEMMA StoreInit == Init => StoreInv
  BY UsersAssumption, BoundsAssumption, TimeoutsAssumption, NoIDAssumption
  DEF Init, StoreInv, RestInv, TableTypes, RequestPC, CleanerPC, CarriedInv, InsertInv, RowInv,
      NoResurrection, CookieHasRow, Fresh, Sessions, Ids

\* Every step keeps the types of the table and of the requests.
LEMMA TypeStep == TableTypes /\ CarriedInv /\ [Next]_vars => TableTypes'
<1> SUFFICES ASSUME TableTypes, CarriedInv, [Next]_vars PROVE TableTypes'
  OBVIOUS
<1> USE UsersAssumption, BoundsAssumption, TimeoutsAssumption, NoIDAssumption,
        SessionEdits
    DEF TableTypes, CarriedInv, Ids, Goto, tableVars, RequestPC, CleanerPC
<1>1. ASSUME NEW r \in Requests, NewSession(r) PROVE TableTypes'
  BY <1>1 DEF NewSession
<1>2. ASSUME NEW r \in Requests, New(r) PROVE TableTypes'
  <2>1. PICK i \in issued :
          session' = [session EXCEPT ![r] = [Fresh EXCEPT !.id = i]]
    BY <1>2 DEF New
  <2>2. session' \in [Requests -> Sessions]
    BY <2>1
  <2> QED
    BY <1>2, <2>2 DEF New
<1>3. ASSUME NEW r \in Requests, GotSession(r) PROVE TableTypes'
  <2>1. PICK d \in BOOLEAN :
          session' = [session EXCEPT
                        ![r].isNew = ~(Accepts(session[r].id) /\ d)]
    BY <1>3 DEF GotSession
  <2>2. session' \in [Requests -> Sessions]
    BY <2>1
  <2> QED
    BY <1>3, <2>2 DEF GotSession
<1>4. ASSUME NEW r \in Requests, Regenerate(r) PROVE TableTypes'
  BY <1>4 DEF Regenerate
<1>5. ASSUME NEW r \in Requests, Invalidate(r) PROVE TableTypes'
  BY <1>5 DEF Invalidate
<1>6. ASSUME NEW r \in Requests, EndRequest(r) PROVE TableTypes'
  BY <1>6 DEF EndRequest
<1>7. ASSUME NEW r \in Requests, SaveDeletes(r) PROVE TableTypes'
  BY <1>7 DEF SaveDeletes
<1>8. ASSUME NEW r \in Requests, SaveInserts(r) PROVE TableTypes'
  <2>1. nextID \in Ids /\ nextID' \in 1..(MaxID + 1)
    BY <1>8 DEF SaveInserts
  <2>2. session' \in [Requests -> Sessions]
    BY <1>8, <2>1 DEF SaveInserts
  <2> QED
    BY <1>8, <2>1, <2>2 DEF SaveInserts
<1>9. ASSUME NEW r \in Requests, SaveUpdates(r) PROVE TableTypes'
  BY <1>9 DEF SaveUpdates
<1>10. ASSUME NEW r \in Requests, DeletedSession(r) PROVE TableTypes'
  BY <1>10 DEF DeletedSession
<1>11. ASSUME NEW r \in Requests, AddedSession(r) PROVE TableTypes'
  <2>1. session[r].id \in Ids /\ stamp[r] \in Nat /\ stamp[r] + timeout \in Nat
    BY <1>11 DEF AddedSession
  <2>2. rows' \subseteq Ids /\ issued' \subseteq Ids
    BY <1>11, <2>1 DEF AddedSession, SetsCookie
  <2>3. created' \in [Ids -> Nat] /\ expires' \in [Ids -> Nat] /\ limit' \in [Ids -> Nat]
    BY <1>11, <2>1 DEF AddedSession
  <2> QED
    BY <1>11, <2>2, <2>3 DEF AddedSession
<1>12. ASSUME NEW r \in Requests, UpdatedSession(r) PROVE TableTypes'
  <2>1. session[r].id \in Ids
    BY <1>12 DEF UpdatedSession, Sessions
  <2> QED
    BY <1>12, <2>1 DEF UpdatedSession, UpdatedRows, UpdatedExpiry, SetsCookie
<1>13. CASE CleanupStarts
  BY <1>13 DEF CleanupStarts
<1>14. CASE CleanerStatement
  <2>1. PICK d \in SUBSET rows, p \in {"next", "idle"} : Deletes(d, p)
    BY <1>14 DEF CleanerStatement, DeletedExpiredSessions,
                DeletedOldCreatedSessions
  <2> QED
    BY <2>1 DEF Deletes, CleanerPC
<1>15. ASSUME NEW u \in Users, Returns(u) PROVE TableTypes'
  <2>1. pc[u] = "insert" => session[u].id \in Ids
    BY <1>15
  <2>2. lost' \subseteq Ids
    BY <1>15, <2>1 DEF Returns, LostBy
  <2> QED
    BY <1>15, <2>2 DEF Returns, IssuedOnError
<1>16. CASE UNCHANGED storeVars
  BY <1>16 DEF storeVars
<1>17. CASE Tick
  <2>1. now' \in Nat
    BY <1>17 DEF Tick
  <2>2. UNCHANGED <<timeout, rows, created, expires, gone, lost, limit,
                    issued, nextID, session, stamp, pc, restarts>>
    BY <1>17 DEF Tick
  <2> QED
    BY <2>1, <2>2
<1>18. CASE Restart
  <2>1. restarts' \in Nat /\ timeout' \in Timeouts /\ Fresh \in Sessions
    BY <1>18 DEF Restart, Fresh, Sessions
  <2>2. /\ pc' = [u \in Users |-> "idle"]
        /\ session' = [r \in Requests |-> Fresh]
        /\ stamp' = [u \in Users |-> 0]
        /\ UNCHANGED <<now, rows, created, expires, gone, lost, limit, issued, nextID>>
    BY <1>18 DEF Restart, tableVars
  <2>3. "idle" \in RequestPC \cup CleanerPC /\ "idle" \in CleanerPC /\ Cleaner \in Users
    BY DEF RequestPC, CleanerPC
  <2>4. pc' \in [Users -> RequestPC \cup CleanerPC] /\ pc'[Cleaner] \in CleanerPC
    BY ONLY <2>2, <2>3
  <2>5. session' \in [Requests -> Sessions] /\ stamp' \in [Users -> Nat]
    BY ONLY <2>1, <2>2
  <2> QED
    BY <2>1, <2>2, <2>4, <2>5
<1>19. ASSUME NEW r \in Requests, SaveFailsToEncode(r) PROVE TableTypes'
  <2>1. nextID \in Ids /\ nextID' \in 1..(MaxID + 1)
    BY <1>19 DEF SaveFailsToEncode
  <2>2. session' \in [Requests -> Sessions] /\ lost' \subseteq Ids
    BY <1>19, <2>1 DEF SaveFailsToEncode, LostBy
  <2> QED
    BY <1>19, <2>1, <2>2 DEF SaveFailsToEncode
<1> QED
  BY <1>1, <1>2, <1>3, <1>4, <1>5, <1>6, <1>7, <1>8, <1>9, <1>10,
     <1>11, <1>12, <1>13, <1>14, <1>15, <1>16, <1>17, <1>18, <1>19
  DEF Next, Request, Statement, Takes, Prepares, PutsBack, AcquireFails,
      Fails, vars

\* Every step keeps the rest of the invariant.  AddedSession needs that the
\* id is in no row and with no other inserting request, UpdatedSession that
\* the id it sends was stored, and both follow from what the request
\* carried before.
LEMMA StoreStep == StoreInv /\ [Next]_vars => RestInv'
<1> SUFFICES ASSUME StoreInv, [Next]_vars PROVE RestInv'
  OBVIOUS
<1> USE UsersAssumption, BoundsAssumption, TimeoutsAssumption, NoIDAssumption
    DEF StoreInv, RestInv, TableTypes, CarriedInv, InsertInv, RowInv,
        NoResurrection, CookieHasRow, Ids, Sessions, Goto, tableVars
<1>1. ASSUME NEW r \in Requests, NewSession(r) PROVE RestInv'
  BY <1>1 DEF NewSession, Fresh
<1>2. ASSUME NEW r \in Requests, New(r) PROVE RestInv'
  BY <1>2 DEF New, Fresh
<1>3. ASSUME NEW r \in Requests, GotSession(r) PROVE RestInv'
  <2>1. session[r].id \in rows \/ session'[r].isNew
    BY <1>3 DEF GotSession, Accepts
  <2>2. session'[r].id = session[r].id /\ pc'[r] = "handler"
    BY <1>3 DEF GotSession
  <2>3. \A s \in Requests \ {r} : session'[s] = session[s] /\ pc'[s] = pc[s]
    BY <1>3 DEF GotSession
  <2>4. UNCHANGED <<rows, gone, lost, issued, expires, limit, nextID>>
    BY <1>3 DEF GotSession
  <2>5. CarriedInv'
    BY <2>1, <2>2, <2>3, <2>4
  <2>6. InsertInv'
    <3> SUFFICES ASSUME NEW s \in Requests, NEW t \in Requests,
                        pc'[s] = "insert", pc'[t] = "insert",
                        session'[s].id = session'[t].id
                 PROVE  s = t
      OBVIOUS
    <3>1. s # r /\ t # r
      BY <2>2
    <3> QED
      BY <2>3, <3>1
  <2>7. RowInv' /\ NoResurrection' /\ CookieHasRow'
    BY <2>4
  <2> QED
    BY <2>5, <2>6, <2>7
<1>4. ASSUME NEW r \in Requests, Regenerate(r) PROVE RestInv'
  BY <1>4 DEF Regenerate
<1>5. ASSUME NEW r \in Requests, Invalidate(r) PROVE RestInv'
  <2>1. /\ \A s \in Requests : session'[s].id = session[s].id
                              /\ session'[s].isNew = session[s].isNew
        /\ UNCHANGED <<rows, created, expires, gone, lost, limit, issued, nextID, pc>>
    BY <1>5 DEF Invalidate, tableVars
  <2>2. CarriedInv'
    BY ONLY <2>1, CarriedInv DEF CarriedInv
  <2>3. InsertInv'
    BY ONLY <2>1, InsertInv DEF InsertInv
  <2> QED
    BY <2>1, <2>2, <2>3
<1>6. ASSUME NEW r \in Requests, EndRequest(r) PROVE RestInv'
  BY <1>6 DEF EndRequest, Fresh
<1>7. ASSUME NEW r \in Requests, SaveDeletes(r) PROVE RestInv'
  BY <1>7 DEF SaveDeletes
<1>8. ASSUME NEW r \in Requests, SaveInserts(r) PROVE RestInv'
  <2>1. /\ nextID \in Ids /\ nextID < nextID'
        /\ nextID \notin rows \cup gone \cup lost
    BY <1>8 DEF SaveInserts
  <2>2. session'[r].id = nextID /\ pc'[r] = "insert"
    BY <1>8 DEF SaveInserts
  <2>3. \A s \in Requests \ {r} : session'[s] = session[s] /\ pc'[s] = pc[s]
    BY <1>8 DEF SaveInserts
  <2>4. /\ UNCHANGED <<rows, gone, lost, issued, expires, limit>>
        /\ nextID' = nextID + 1
    BY <1>8 DEF SaveInserts
  <2>5. CarriedInv'
    <3> SUFFICES ASSUME NEW s \in Requests
                 PROVE  LET i == session'[s].id IN
                        /\ i # NoID /\ pc'[s] # "insert" /\ ~session'[s].isNew
                             => i \in rows' \cup gone' \cup lost'
                        /\ pc'[s] = "insert" =>
                             /\ i \in Ids /\ i < nextID'
                             /\ i \notin rows' \cup gone' \cup lost'
                        /\ pc'[s] \in {"select", "update"} => i # NoID
                        /\ pc'[s] = "select" => session'[s].isNew
                        /\ pc'[s] = "update" => ~session'[s].isNew
      OBVIOUS
    <3>1. CASE s = r
      BY <2>1, <2>2, <2>4, <3>1
    <3>2. CASE s # r
      <4>1. session'[s] = session[s] /\ pc'[s] = pc[s]
        BY <2>3, <3>2
      <4>2. \A i \in Ids : i < nextID => i < nextID'
        BY <2>4
      <4> QED
        BY <2>4, <4>1, <4>2
    <3> QED
      BY <3>1, <3>2
  <2>6. InsertInv'
    <3>1. \A s \in Requests : pc[s] = "insert" => session[s].id # nextID
      OBVIOUS
    <3>2. ASSUME NEW s \in Requests, NEW t \in Requests,
                 pc'[s] = "insert", pc'[t] = "insert",
                 session'[s].id = session'[t].id
          PROVE s = t
      <4>1. CASE s # r /\ t # r
        BY <2>3, <3>2, <4>1
      <4>2. CASE s = r \/ t = r
        BY <2>2, <2>3, <3>1, <3>2, <4>2
      <4> QED
        BY <4>1, <4>2
    <3> QED
      BY <3>2
  <2>7. RowInv' /\ NoResurrection' /\ CookieHasRow'
    BY <2>1, <2>4
  <2> QED
    BY <2>5, <2>6, <2>7
<1>9. ASSUME NEW r \in Requests, SaveUpdates(r) PROVE RestInv'
  BY <1>9 DEF SaveUpdates, NeedsInsert
<1>10. ASSUME NEW r \in Requests, DeletedSession(r) PROVE RestInv'
  BY <1>10 DEF DeletedSession
<1>11. ASSUME NEW r \in Requests, AddedSession(r) PROVE RestInv'
  <2> DEFINE i == session[r].id
  <2>1. i \in Ids /\ i < nextID /\ i \notin rows \cup gone \cup lost
    BY <1>11 DEF AddedSession
  <2>2. rows' = rows \cup {i} /\ UNCHANGED <<gone, lost, nextID, session>>
    BY <1>11 DEF AddedSession
  <2>3. issued' \subseteq issued \cup {i}
    BY <1>11 DEF AddedSession, SetsCookie
  <2>4. pc'[r] = "handler" /\ \A s \in Requests \ {r} : pc'[s] = pc[s]
    BY <1>11 DEF AddedSession
  <2>5. CarriedInv'
    <3> SUFFICES ASSUME NEW s \in Requests
                 PROVE  LET k == session[s].id IN
                        /\ k # NoID /\ pc'[s] # "insert" /\ ~session[s].isNew
                             => k \in rows' \cup gone \cup lost
                        /\ pc'[s] = "insert" =>
                             /\ k \in Ids /\ k < nextID
                             /\ k \notin rows' \cup gone \cup lost
                        /\ pc'[s] \in {"select", "update"} => k # NoID
                        /\ pc'[s] = "select" => session[s].isNew
                        /\ pc'[s] = "update" => ~session[s].isNew
      BY <2>2
    <3>1. CASE s = r
      BY <2>2, <2>4, <3>1
    <3>2. CASE s # r
      <4>1. pc'[s] = pc[s] /\ pc[r] = "insert"
        BY <1>11, <2>4, <3>2 DEF AddedSession
      <4>2. pc[s] = "insert" => session[s].id # i
        BY ONLY <3>2, <4>1, InsertInv DEF InsertInv
      <4> QED
        BY ONLY <2>2, <4>1, <4>2, CarriedInv DEF CarriedInv
    <3> QED
      BY <3>1, <3>2
  <2>6. InsertInv'
    <3>1. \A s \in Requests : pc'[s] = "insert" => pc[s] = "insert" /\ session'[s] = session[s]
      BY <2>2, <2>4
    <3> QED
      BY ONLY <3>1, InsertInv DEF InsertInv
  <2>7. RowInv'
    <3>1. expires'[i] = limit'[i]
      BY <1>11, <2>1 DEF AddedSession
    <3>2. \A j \in rows : j # i /\ expires'[j] = expires[j]
                          /\ limit'[j] = limit[j]
      BY <1>11, <2>1 DEF AddedSession
    <3> QED
      BY <2>1, <2>2, <3>1, <3>2
  <2>8. NoResurrection'
    BY <2>1, <2>2
  <2>9. CookieHasRow'
    <3>1. issued' \subseteq rows' \cup gone' \cup lost'
      BY <2>2, <2>3
    <3>2. lost' \cap (rows' \cup gone') = {}
      BY <2>1, <2>2
    <3> QED
      BY <3>1, <3>2
  <2> QED
    BY <2>5, <2>6, <2>7, <2>8, <2>9
<1>12. ASSUME NEW r \in Requests, UpdatedSession(r) PROVE RestInv'
  BY <1>12 DEF UpdatedSession, UpdatedRows, UpdatedExpiry, SetsCookie
<1>13. CASE CleanupStarts
  <2>1. /\ \A s \in Requests : pc'[s] = pc[s]
        /\ UNCHANGED <<session, rows, gone, lost, expires, limit, issued, nextID>>
    BY <1>13 DEF CleanupStarts, tableVars
  <2>2. CarriedInv' /\ InsertInv'
    BY ONLY <2>1, CarriedInv, InsertInv DEF CarriedInv, InsertInv
  <2> QED
    BY <2>1, <2>2
<1>14. CASE CleanerStatement
  <2>1. PICK d \in SUBSET rows, p \in {"next", "idle"} : Deletes(d, p)
    BY <1>14 DEF CleanerStatement, DeletedExpiredSessions,
                DeletedOldCreatedSessions
  <2>2. \A s \in Requests : pc'[s] = pc[s]
    BY <2>1 DEF Deletes
  <2>3. rows' \cup gone' = rows \cup gone /\ rows' \subseteq rows
    BY <2>1 DEF Deletes
  <2> QED
    BY <2>1, <2>2, <2>3 DEF Deletes
<1>15. ASSUME NEW u \in Users, Returns(u) PROVE RestInv'
  <2>1. /\ UNCHANGED <<rows, gone, expires, limit, nextID, session>>
        /\ issued' = issued
    BY <1>15 DEF Returns, IssuedOnError
  <2>2. /\ pc'[u] \in {"handler", "stopped"}
        /\ \A s \in Users \ {u} : pc'[s] = pc[s]
    BY <1>15 DEF Returns
  <2>3. CASE pc[u] # "insert"
    <3>1. lost' = lost
      BY <1>15, <2>3 DEF Returns
    <3>2. CarriedInv'
      BY <2>1, <2>2, <2>3, <3>1
    <3>3. InsertInv'
      <4>1. \A s \in Requests : pc'[s] = "insert" => pc[s] = "insert" /\ session'[s] = session[s]
        BY <2>1, <2>2
      <4> QED
        BY ONLY <4>1, InsertInv DEF InsertInv
    <3>4. RowInv' /\ NoResurrection' /\ CookieHasRow'
      BY <2>1, <3>1
    <3> QED
      BY <3>2, <3>3, <3>4
  <2>4. CASE pc[u] = "insert"
    <3> DEFINE i == session[u].id
    <3>1. u \in Requests
      BY <2>4 DEF CleanerPC
    <3>2. i \in Ids /\ i < nextID /\ i \notin rows \cup gone \cup lost
      BY <2>4, <3>1
    <3>3. lost' = IF session[u].isNew THEN lost ELSE lost \cup {i}
      BY <1>15, <2>4 DEF Returns, LostBy
    <3>4. \A s \in Requests \ {u} : pc[s] = "insert" => session[s].id # i
      BY <2>4, <3>1
    <3>5. CarriedInv'
      BY <2>1, <2>2, <3>1, <3>2, <3>3, <3>4
    <3>6. InsertInv'
      <4>1. \A s \in Requests : pc'[s] = "insert" => pc[s] = "insert" /\ session'[s] = session[s]
        BY <2>1, <2>2
      <4> QED
        BY ONLY <4>1, InsertInv DEF InsertInv
    <3>7. RowInv' /\ NoResurrection' /\ CookieHasRow'
      BY <2>1, <3>2, <3>3
    <3> QED
      BY <3>5, <3>6, <3>7
  <2> QED
    BY <2>3, <2>4
<1>16. CASE UNCHANGED storeVars
  BY <1>16 DEF storeVars
<1>17. CASE Tick
  BY <1>17 DEF Tick
<1>18. CASE Restart
  BY <1>18 DEF Restart, Fresh
<1>19. ASSUME NEW r \in Requests, SaveFailsToEncode(r) PROVE RestInv'
  <2>1. /\ nextID \in Ids /\ nextID' = nextID + 1
        /\ nextID \notin rows \cup gone \cup lost
    BY <1>19 DEF SaveFailsToEncode
  <2>2. /\ UNCHANGED <<rows, gone, issued, expires, limit, pc>>
        /\ lost' = IF session[r].isNew THEN lost ELSE lost \cup {nextID}
    BY <1>19 DEF SaveFailsToEncode, LostBy
  <2>3. /\ session'[r].id = nextID /\ session'[r].isNew = session[r].isNew
        /\ pc[r] = "handler"
        /\ \A s \in Requests \ {r} : session'[s] = session[s]
    BY <1>19 DEF SaveFailsToEncode
  <2>4. CarriedInv'
    <3> SUFFICES ASSUME NEW s \in Requests
                 PROVE  LET i == session'[s].id IN
                        /\ i # NoID /\ pc'[s] # "insert" /\ ~session'[s].isNew
                             => i \in rows' \cup gone' \cup lost'
                        /\ pc'[s] = "insert" =>
                             /\ i \in Ids /\ i < nextID'
                             /\ i \notin rows' \cup gone' \cup lost'
                        /\ pc'[s] \in {"select", "update"} => i # NoID
                        /\ pc'[s] = "select" => session'[s].isNew
                        /\ pc'[s] = "update" => ~session'[s].isNew
      OBVIOUS
    <3>1. CASE s = r
      BY <2>2, <2>3, <3>1
    <3>2. CASE s # r
      <4>1. session'[s] = session[s] /\ pc'[s] = pc[s]
        BY <2>2, <2>3, <3>2
      <4>2. \A i \in Ids : i < nextID => i < nextID' /\ i # nextID
        BY <2>1
      <4> QED
        BY <2>2, <4>1, <4>2
    <3> QED
      BY <3>1, <3>2
  <2>5. InsertInv'
    <3> SUFFICES ASSUME NEW s \in Requests, NEW t \in Requests,
                        pc'[s] = "insert", pc'[t] = "insert",
                        session'[s].id = session'[t].id
                 PROVE  s = t
      OBVIOUS
    <3>1. s # r /\ t # r
      BY <2>2, <2>3
    <3>2. /\ pc[s] = "insert" /\ pc[t] = "insert"
          /\ session[s].id = session[t].id
      BY <2>2, <2>3, <3>1
    <3> QED
      BY ONLY <3>2, InsertInv DEF InsertInv
  <2>6. RowInv' /\ NoResurrection' /\ CookieHasRow'
    BY <2>1, <2>2
  <2> QED
    BY <2>4, <2>5, <2>6
<1> QED
  BY <1>1, <1>2, <1>3, <1>4, <1>5, <1>6, <1>7, <1>8, <1>9, <1>10,
     <1>11, <1>12, <1>13, <1>14, <1>15, <1>16, <1>17, <1>18, <1>19
  DEF Next, Request, Statement, Takes, Prepares, PutsBack, AcquireFails,
      Fails, vars

\* Together: the invariant of the store.
LEMMA StoreInvariant == Spec => []StoreInv
<1>1. StoreInv /\ [Next]_vars => StoreInv'
  BY TypeStep, StoreStep DEF StoreInv, RestInv
<1> QED
  BY <1>1, StoreInit, PTL DEF Spec

\* Every variable of the pools and of the store keeps its type.
THEOREM StoreTypeCorrect == Spec => []StoreTypeOK
<1>1. PoolInv /\ StoreInv => StoreTypeOK
  BY DEF PoolInv, StoreInv, StoreTypeOK
<1> QED
  BY <1>1, StoreUsesPool, PoolInvariant, StoreInvariant, PTL

\* Save never revives a session that a logout or Cleanup deleted
\* (store.go:157-165).
THEOREM NothingRevived == Spec => []NoResurrection
<1>1. StoreInv => NoResurrection
  BY DEF StoreInv, RestInv
<1> QED
  BY <1>1, StoreInvariant, PTL

\* Save sends the id of a session only after it was stored, or when the
\* insertion of a regenerated session has failed, and then no session ever
\* gets that id (store.go:149-173).
THEOREM CookiesHaveRows == Spec => []CookieHasRow
<1>1. StoreInv => CookieHasRow
  BY DEF StoreInv, RestInv
<1> QED
  BY <1>1, StoreInvariant, PTL

\* New accepts no session past the timeout it was created with, over any
\* number of saves and restarts (store.go:111-115, 183-185).
THEOREM TimeoutIsAbsolute == Spec => AbsoluteTimeout
<1> DEFINE P(r) == pc[r] = "select" /\ pc'[r] = "handler" /\ ~session'[r].isNew
                     => now <= limit[session[r].id]
<1>1. StoreInv /\ [Next]_vars => \A r \in Requests : P(r)
  <2> SUFFICES ASSUME StoreInv, [Next]_vars, NEW r \in Requests,
                      pc[r] = "select", pc'[r] = "handler", ~session'[r].isNew
               PROVE  now <= limit[session[r].id]
    OBVIOUS
  <2>1. GotSession(r)
    <3> USE UsersAssumption DEF StoreInv, RestInv, TableTypes, CarriedInv, Goto
    <3>1. ASSUME NEW q \in Requests, Request(q) PROVE GotSession(r)
      <4>1. q = r
        BY <3>1 DEF Request, NewSession, New, Regenerate, Invalidate,
                    EndRequest, SaveDeletes, SaveInserts, SaveFailsToEncode, SaveUpdates,
                    Statement, GotSession, DeletedSession, AddedSession,
                    UpdatedSession
      <4> QED
        BY <3>1, <4>1 DEF Request, NewSession, New, Regenerate, Invalidate,
                    EndRequest, SaveDeletes, SaveInserts, SaveFailsToEncode, SaveUpdates,
                    Statement, DeletedSession, AddedSession, UpdatedSession
    <3>2. ~CleanupStarts /\ ~CleanerStatement
      BY DEF CleanupStarts, CleanerStatement, DeletedExpiredSessions,
             DeletedOldCreatedSessions, Deletes
    <3>3. ASSUME NEW u \in Users PROVE ~Returns(u)
      BY <3>3 DEF Returns
    <3>4. ~UNCHANGED storeVars /\ ~Tick /\ ~Restart
      BY DEF storeVars, Tick, Restart
    <3> QED
      BY <3>1, <3>2, <3>3, <3>4
      DEF Next, Takes, Prepares, PutsBack, AcquireFails, Fails, vars
  <2>2. session[r].id \in rows /\ expires[session[r].id] >= now
    BY <2>1 DEF GotSession, Accepts, StoreInv, TableTypes, Sessions
  <2> QED
    BY <2>2 DEF StoreInv, RestInv, RowInv, TableTypes, Ids
<1> QED
  BY <1>1, StoreInvariant, PTL DEF Spec, AbsoluteTimeout

=============================================================================
