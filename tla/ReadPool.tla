------------------------------ MODULE ReadPool ------------------------------
(* The connections for reading, Store.reader() of store_impl.go: database/sql   *)
(* hands out at most MaxOpenConns, and a query waits for one until its context  *)
(* ends.  Some queries ask for a second connection for every row while their    *)
(* own rows are open: ListNotificationRules and ListEnabledNotificationRules    *)
(* (notifications.go), GetChecksDue and GetDiscoveredChecksDue                  *)
(* (health_checks.go).  The engine and the jobs run such queries with the       *)
(* context of the process, requests with one that ends with the client.         *)
EXTENDS Integers, FiniteSets

CONSTANTS
    NestedJobs,      \* goroutines of the process with nested queries
    NestedRequests,  \* requests with nested queries, any number of them
    Plain,           \* goroutines whose queries need one connection
    Conns,           \* 4 in the code
    MaxRows          \* bound on the rows of a query

Nested == NestedJobs \cup NestedRequests
Readers == Nested \cup Plain

(* The goroutines of the process that nest are two, the engine and the loop of  *)
(* the health job, and the connections are four.  Nothing bounds the requests.  *)
ASSUME PoolAssumption ==
    /\ Conns \in Nat /\ MaxRows \in Nat
    /\ IsFiniteSet(Readers)
    /\ Plain \cap Nested = {} /\ NestedJobs \cap NestedRequests = {}
    /\ Cardinality(NestedJobs) < Conns

VARIABLES
    free,    \* connections in the pool
    reads,   \* "idle", "waiting", "open" rows, "waiting inner", "inner" open
    rowsLeft

poolVars == <<free, reads, rowsLeft>>

PoolInit ==
    /\ free = Conns
    /\ reads = [r \in Readers |-> "idle"]
    /\ rowsLeft = [r \in Readers |-> 0]

Becomes(r, state) == reads' = [reads EXCEPT ![r] = state]
Held(state) ==
    IF state \in {"open", "waiting inner"} THEN 1 ELSE IF state = "inner" THEN 2 ELSE 0

Ask(r) ==
    /\ reads[r] = "idle"
    /\ Becomes(r, "waiting")
    /\ UNCHANGED <<free, rowsLeft>>

Open(r) ==
    /\ reads[r] = "waiting" /\ free > 0
    /\ free' = free - 1
    /\ Becomes(r, "open")
    /\ \E n \in 0 .. MaxRows : rowsLeft' = [rowsLeft EXCEPT ![r] = n]

NextRow(r) ==
    /\ reads[r] = "open" /\ rowsLeft[r] > 0
    /\ rowsLeft' = [rowsLeft EXCEPT ![r] = @ - 1]
    /\ Becomes(r, IF r \in Nested THEN "waiting inner" ELSE "open")
    /\ UNCHANGED free

OpenInner(r) ==
    /\ reads[r] = "waiting inner" /\ free > 0
    /\ free' = free - 1
    /\ Becomes(r, "inner")
    /\ UNCHANGED rowsLeft

CloseInner(r) ==
    /\ reads[r] = "inner"
    /\ free' = free + 1
    /\ Becomes(r, "open")
    /\ UNCHANGED rowsLeft

(* Faulty: the connection of a query without rows is not given back. *)
CloseRowsAndKeep(r) ==
    /\ reads[r] = "open" /\ rowsLeft[r] = 0
    /\ Becomes(r, "idle")
    /\ UNCHANGED <<free, rowsLeft>>

(* The connection returns to the pool with the last row. *)
CloseRows(r) ==
    /\ reads[r] = "open" /\ rowsLeft[r] = 0
    /\ free' = free + 1
    /\ Becomes(r, "idle")
    /\ UNCHANGED rowsLeft

(* Faulty: only the inner rows are closed. *)
ReturnedInner(state) == IF Held(state) > 0 THEN 1 ELSE 0

(* An inner query fails, or the client is gone: the deferred Close gives back   *)
(* what the query holds.                                                        *)
Returned(state) == Held(state)

Abort(r) ==
    /\ \/ reads[r] = "inner"
       \/ r \notin NestedJobs /\ reads[r] # "idle"
    /\ free' = free + Returned(reads[r])
    /\ Becomes(r, "idle")
    /\ rowsLeft' = [rowsLeft EXCEPT ![r] = 0]

ReadStep(r) ==
    Open(r) \/ NextRow(r) \/ OpenInner(r) \/ CloseInner(r) \/ CloseRows(r)

PoolNext == \E r \in Readers : Ask(r) \/ ReadStep(r) \/ Abort(r)

(* A goroutine goes on, and database/sql gives a connection that comes back to  *)
(* one of those that wait, so a reader that could be served again and again is. *)
(* No client has to leave.                                                      *)
PoolFairness == \A r \in Readers : SF_poolVars(ReadStep(r))

PoolSpec == PoolInit /\ [][PoolNext]_poolVars

-----------------------------------------------------------------------------
PoolTypeOK ==
    /\ free \in 0 .. Conns
    /\ reads \in [Readers -> {"idle", "waiting", "open", "waiting inner", "inner"}]
    /\ rowsLeft \in [Readers -> 0 .. MaxRows]

Holders == {r \in Readers : reads[r] \in {"open", "waiting inner", "inner"}}

(* As many nested queries at once as there are connections can all wait for     *)
(* each other, but not those of the process alone: when the pool is empty and   *)
(* everybody who holds a connection waits for another, a request is among them, *)
(* and the circle ends when its client leaves.                                  *)
CircleTakesRequest ==
    free = 0 => \E r \in Holders : reads[r] # "waiting inner" \/ r \in NestedRequests

(* Every query comes to an end, unless there is a client that waits for ever.   *)
ClientsLeave == \A q \in NestedRequests : []<>(reads[q] # "waiting inner")
ReadsFinish == ClientsLeave => \A r \in Readers : (reads[r] # "idle") ~> (reads[r] = "idle")
=============================================================================
