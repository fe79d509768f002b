--------------------------- MODULE DriverRegistry ---------------------------
(***************************************************************************)
(* The database connections of dbchat: the rows and secrets that           *)
(* ConnectionStoreLive keeps in sqlite, the drivers DriverRegistryLive     *)
(* opens from them, the schema cache beside it, and the connection.* and   *)
(* schema.* handlers that use all three.                                   *)
(*                                                                         *)
(* Every handler call is an operation with a program counter; each await   *)
(* of the code separates two actions.  A row, a secret and a driver are    *)
(* named by the operation that wrote or opened them, so two are equal only *)
(* if they are the same one.                                               *)
(***************************************************************************)
EXTENDS Naturals, FiniteSets

CONSTANTS
  Conns,       \* connection ids
  Ops,         \* handler calls
  Kinds,       \* what the calls may be, out of AllKinds
  Interrupts,  \* may the client of a call go away in the middle of it?
  First,       \* whoever wrote the rows the server starts with
  NoOp, NoConn

AllKinds == {"use", "list", "refresh", "disconnect", "update", "delete", "create", "test"}

ASSUME ConstantsAssumption ==
  /\ Kinds \subseteq AllKinds
  /\ Interrupts \in BOOLEAN
  /\ First \notin Ops
  /\ NoOp \notin Ops \cup {First}
  /\ NoConn \notin Conns

VARIABLES
  row, secret,  \* [Conns -> Ops \cup {First, NoOp}]: who wrote them, NoOp: no row
  used,         \* connection ids that were given out
  lock,         \* the holder of Semaphore.make(1), NoOp when it is free
  open,         \* the map of open drivers
  failures,     \* connections whose last attempt to open failed
  cache,        \* SchemaCache: the call whose introspection is kept
  live,         \* drivers whose pool exists
  builtRow, builtSecret,  \* what a driver was made from
  pc, kind, conn,  \* where a call stands, what it is, its connection
  handle,       \* the driver a call works on
  kept,         \* the secret an update has read
  raced         \* history: see ReadRow and Invalidate

storeVars == <<row, secret, used>>
poolVars  == <<open, failures, live, builtRow, builtSecret>>
callVars  == <<kind, conn, kept>>
vars == <<storeVars, poolVars, callVars, lock, cache, pc, handle, raced>>

\* Where a call holds the lock.
Opening == {"row", "secret", "ping"}
Locked  == Opening \cup {"locked", "closing"}
\* Where an update, a delete or a create is in the store.
Storing == {"read", "write", "write2"}
Ended   == {"done", "failed", "cut", "cutPing", "cutClose"}
Points  == {"idle", "want", "using", "testing"} \cup Locked \cup Storing \cup Ended

Writers == Ops \cup {First, NoOp}

TypeOK ==
  /\ row \in [Conns -> Writers]
  /\ secret \in [Conns -> Writers]
  /\ used \subseteq Conns
  /\ lock \in Ops \cup {NoOp}
  /\ open \in [Conns -> Ops \cup {NoOp}]
  /\ failures \subseteq Conns
  /\ cache \in [Conns -> Ops \cup {NoOp}]
  /\ live \subseteq Ops
  /\ builtRow \in [Ops -> Writers]
  /\ builtSecret \in [Ops -> Writers]
  /\ pc \in [Ops -> Points]
  /\ kind \in [Ops -> AllKinds \cup {"none"}]
  /\ conn \in [Ops -> Conns \cup {NoConn}]
  /\ handle \in [Ops -> Ops \cup {NoOp}]
  /\ kept \in [Ops -> Writers]
  /\ raced \subseteq Ops
  /\ \A o \in Ops :
       /\ pc[o] = "idle" <=> conn[o] = NoConn
       /\ pc[o] \in {"using", "closing", "cutClose"} => handle[o] # NoOp

Init ==
  /\ used \in SUBSET Conns
  /\ row = [k \in Conns |-> IF k \in used THEN First ELSE NoOp]
  /\ secret = row
  /\ lock = NoOp
  /\ open = [k \in Conns |-> NoOp]
  /\ failures = {}
  /\ cache = [k \in Conns |-> NoOp]
  /\ live = {}
  /\ builtRow = [o \in Ops |-> NoOp]
  /\ builtSecret = [o \in Ops |-> NoOp]
  /\ pc = [o \in Ops |-> "idle"]
  /\ kind = [o \in Ops |-> "none"]
  /\ conn = [o \in Ops |-> NoConn]
  /\ handle = [o \in Ops |-> NoOp]
  /\ kept = [o \in Ops |-> NoOp]
  /\ raced = {}

-----------------------------------------------------------------------------
(* Helpers *)

Exists(k)   == row[k] # NoOp
Releases(o) == kind[o] \in {"disconnect", "update", "delete"}
Loads(o)    == kind[o] \in {"list", "refresh"}

\* A create of k, or an update or a delete that has released the driver, is not through.
Changing(k) == \E u \in Ops : conn[u] = k /\ pc[u] \in Storing

Step(o, from, to) ==
  /\ pc[o] = from
  /\ pc' = [pc EXCEPT ![o] = to]

\* Leaving the critical section.
Unlock(o, to) ==
  /\ lock' = NoOp
  /\ pc' = [pc EXCEPT ![o] = to]

\* The entry of the schema cache goes; calls that are introspecting with the
\* driver that is closed will store their result after this.
Invalidate(k, driver) ==
  /\ cache' = [cache EXCEPT ![k] = NoOp]
  /\ raced' = raced \cup {o \in Ops : pc[o] = "using" /\ handle[o] = driver}

-----------------------------------------------------------------------------
(* A call starts *)

\* connection.disconnect and connection.update need the row; a create, a test
\* and a cached schema.list never come near the lock.
Enter(o, k, to) ==
  /\ Step(o, "idle", to)
  /\ conn' = [conn EXCEPT ![o] = k]
  /\ UNCHANGED <<lock, poolVars, secret, row, handle, kept, raced>>

StartAcquire(o, k) ==
  /\ kind' = [kind EXCEPT ![o] = "use"]
  /\ Enter(o, k, "want")
  /\ UNCHANGED <<used, cache>>

StartList(o, k) ==
  /\ kind' = [kind EXCEPT ![o] = "list"]
  /\ Enter(o, k, IF cache[k] = NoOp THEN "want" ELSE "done")
  /\ UNCHANGED <<used, cache>>

StartRefresh(o, k) ==
  /\ kind' = [kind EXCEPT ![o] = "refresh"]
  /\ Enter(o, k, "want")
  /\ cache' = [cache EXCEPT ![k] = NoOp]
  /\ UNCHANGED used

StartDisconnect(o, k) ==
  /\ kind' = [kind EXCEPT ![o] = "disconnect"]
  /\ Enter(o, k, IF Exists(k) THEN "want" ELSE "failed")
  /\ UNCHANGED <<used, cache>>

\* Mutant: an update or a delete leaves the driver open.
ChangeAtOnce(o, k) ==
  /\ \E what \in {"update", "delete"} : kind' = [kind EXCEPT ![o] = what]
  /\ Enter(o, k, "read")
  /\ UNCHANGED <<used, cache>>

StartChange(o, k) ==
  /\ \E what \in {"update", "delete"} : kind' = [kind EXCEPT ![o] = what]
  /\ Enter(o, k, "want")
  /\ UNCHANGED <<used, cache>>

\* newId is fresh; validation comes first and leaves nothing behind.
StartCreate(o, k) ==
  /\ k \notin used
  /\ kind' = [kind EXCEPT ![o] = "create"]
  /\ Enter(o, k, "write")
  /\ used' = used \cup {k}
  /\ UNCHANGED cache

\* connection.test opens a driver of its own.
StartTest(o, k) ==
  /\ kind' = [kind EXCEPT ![o] = "test"]
  /\ Step(o, "idle", "testing")
  /\ conn' = [conn EXCEPT ![o] = k]
  /\ live' = live \cup {o}
  /\ UNCHANGED <<storeVars, lock, open, failures, builtRow, builtSecret, cache,
                 handle, kept, raced>>

Start(o, k) ==
  /\ \/ StartAcquire(o, k) \/ StartList(o, k)   \/ StartRefresh(o, k)
     \/ StartChange(o, k)  \/ StartCreate(o, k) \/ StartDisconnect(o, k)
     \/ StartTest(o, k)
  /\ kind'[o] \in Kinds

FinishTest(o) ==
  /\ Step(o, "testing", "done")
  /\ live' = live \ {o}
  /\ UNCHANGED <<storeVars, callVars, lock, open, failures, builtRow, builtSecret,
                 cache, handle, raced>>

-----------------------------------------------------------------------------
(* acquire *)

\* Mutant: no lock.
LockIsFree == TRUE

Free == lock = NoOp

TakeLock(o) ==
  /\ Step(o, "want", "locked")
  /\ Free
  /\ lock' = o
  /\ UNCHANGED <<storeVars, callVars, poolVars, cache, handle, raced>>

\* A driver that is open is handed out, otherwise openDriver runs.
Look(o) ==
  LET k == conn[o] IN
  /\ pc[o] = "locked"
  /\ ~ Releases(o)
  /\ \/ /\ open[k] # NoOp
        /\ Unlock(o, "using")
        /\ handle' = [handle EXCEPT ![o] = open[k]]
     \/ /\ open[k] = NoOp
        /\ Step(o, "locked", "row")
        /\ UNCHANGED <<lock, handle>>
  /\ UNCHANGED <<storeVars, callVars, poolVars, cache, raced>>

\* tapError: whatever made openDriver fail is kept for connection.status.
OpenFails(o) ==
  /\ Unlock(o, "failed")
  /\ failures' = failures \cup {conn[o]}
  /\ UNCHANGED <<storeVars, callVars, open, builtRow, builtSecret, cache, handle, raced>>

\* store.get.  The history remembers openings that begin while the row or the
\* secret is about to change.
ReadRow(o) ==
  LET k == conn[o] IN
  \/ /\ Step(o, "row", "secret")
     /\ Exists(k)
     /\ builtRow' = [builtRow EXCEPT ![o] = row[k]]
     /\ raced' = IF Changing(k) THEN raced \cup {o} ELSE raced
     /\ UNCHANGED <<storeVars, callVars, lock, open, failures, live, builtSecret,
                    cache, handle>>
  \/ /\ pc[o] = "row"
     /\ ~ Exists(k)
     /\ OpenFails(o)
     /\ UNCHANGED live

\* store.getSecret, then the pool is made, or cannot be made.
ReadSecret(o) ==
  \/ /\ Step(o, "secret", "ping")
     /\ builtSecret' = [builtSecret EXCEPT ![o] = secret[conn[o]]]
     /\ live' = live \cup {o}
     /\ UNCHANGED <<storeVars, callVars, lock, open, failures, builtRow, cache,
                    handle, raced>>
  \/ /\ pc[o] = "secret"
     /\ OpenFails(o)
     /\ UNCHANGED live

\* Mutant: the pool of a ping that failed stays open.
PingFailsOpen(o) ==
  /\ pc[o] = "ping"
  /\ OpenFails(o)
  /\ UNCHANGED live

PingFails(o) ==
  /\ pc[o] = "ping"
  /\ OpenFails(o)
  /\ live' = live \ {o}

\* Mutant: an earlier failure is not forgotten.
PingedStillFailed(o) ==
  LET k == conn[o] IN
  /\ pc[o] = "ping"
  /\ Unlock(o, "using")
  /\ open' = [open EXCEPT ![k] = o]
  /\ handle' = [handle EXCEPT ![o] = o]
  /\ UNCHANGED <<storeVars, callVars, failures, live, builtRow, builtSecret, cache, raced>>

Pinged(o) ==
  LET k == conn[o] IN
  /\ pc[o] = "ping"
  /\ Unlock(o, "using")
  /\ open' = [open EXCEPT ![k] = o]
  /\ failures' = failures \ {k}
  /\ handle' = [handle EXCEPT ![o] = o]
  /\ UNCHANGED <<storeVars, callVars, live, builtRow, builtSecret, cache, raced>>

\* The query, the ping or the introspection on the driver comes back, or fails;
\* an introspection that succeeded goes to the cache.
UseDone(o) ==
  /\ \/ /\ Step(o, "using", "done")
        /\ cache' = IF Loads(o) THEN [cache EXCEPT ![conn[o]] = o] ELSE cache
     \/ /\ Step(o, "using", "failed")
        /\ UNCHANGED cache
  /\ UNCHANGED <<storeVars, callVars, poolVars, lock, handle, raced>>

-----------------------------------------------------------------------------
(* release, and what update and delete do to the store afterwards *)

AfterRelease(o) == IF kind[o] = "disconnect" THEN "done" ELSE "read"

CloseEntry(o) ==
  LET d == open[conn[o]] IN
  /\ Step(o, "locked", "closing")
  /\ Releases(o)
  /\ d # NoOp
  /\ handle' = [handle EXCEPT ![o] = d]
  /\ open' = [open EXCEPT ![conn[o]] = NoOp]
  /\ UNCHANGED <<storeVars, callVars, failures, live, builtRow, builtSecret, lock,
                 cache, raced>>

NothingOpen(o) ==
  LET k == conn[o] IN
  /\ pc[o] = "locked"
  /\ Releases(o)
  /\ open[k] = NoOp
  /\ Invalidate(k, NoOp)
  /\ Unlock(o, AfterRelease(o))
  /\ UNCHANGED <<storeVars, callVars, poolVars, handle>>

\* Mutant: a release leaves the schema cache alone.
ClosedOnly(o) ==
  /\ pc[o] = "closing"
  /\ live' = live \ {handle[o]}
  /\ Unlock(o, AfterRelease(o))
  /\ UNCHANGED <<storeVars, callVars, open, failures, builtRow, builtSecret, handle,
                 cache, raced>>

\* pool.end waits until every client is back in the pool; other drivers close at once.
Closed(o) ==
  /\ pc[o] = "closing"
  /\ live' = live \ {handle[o]}
  /\ Invalidate(conn[o], handle[o])
  /\ Unlock(o, AfterRelease(o))
  /\ UNCHANGED <<storeVars, callVars, open, failures, builtRow, builtSecret, handle>>

\* update and remove look for the row; an update also reads the secret, which it
\* keeps when the input has none, and validates the result.
ReadStored(o) ==
  LET k == conn[o] IN
  /\ \/ Step(o, "read", "write") /\ Exists(k)
     \/ Step(o, "read", "failed") /\ (~ Exists(k) \/ kind[o] = "update")
  /\ kept' = [kept EXCEPT ![o] = secret[k]]
  /\ UNCHANGED <<storeVars, kind, conn, poolVars, lock, cache, handle, raced>>

\* UPDATE connections, INSERT INTO connections, or DELETE FROM connection_secrets.
FirstWrite(o) ==
  LET k == conn[o] IN
  /\ Step(o, "write", "write2")
  /\ row' = [row EXCEPT ![k] =
               IF kind[o] = "create" \/ (kind[o] = "update" /\ Exists(k)) THEN o ELSE @]
  /\ secret' = [secret EXCEPT ![k] = IF kind[o] = "delete" THEN NoOp ELSE @]
  /\ UNCHANGED <<used, callVars, poolVars, lock, cache, handle, raced>>

\* The secret of the input, the one kept, or none; or DELETE FROM connections,
\* which takes a secret along.  A secret without its row violates the foreign key.
SecondWrite(o) ==
  LET k == conn[o] IN
  /\ \/ /\ Step(o, "write2", "done")
        /\ kind[o] = "delete"
        /\ row' = [row EXCEPT ![k] = NoOp]
        /\ secret' = [secret EXCEPT ![k] = NoOp]
     \/ /\ Step(o, "write2", "done")
        /\ kind[o] # "delete"
        /\ Exists(k)
        /\ \E s \in {o, kept[o], NoOp} : secret' = [secret EXCEPT ![k] = s]
        /\ UNCHANGED row
     \/ /\ Step(o, "write2", "failed")
        /\ kind[o] # "delete"
        /\ ~ Exists(k)
        /\ UNCHANGED <<row, secret>>
  /\ UNCHANGED <<used, callVars, poolVars, lock, cache, handle, raced>>

-----------------------------------------------------------------------------
(* The client goes away *)

\* The fiber of the call is interrupted.  withPermits gives the lock back; a pool
\* that is being pinged has nobody to close it, a close goes on by itself.
CutPoint(o) ==
  IF pc[o] = "ping" THEN "cutPing" ELSE IF pc[o] = "closing" THEN "cutClose" ELSE "cut"

\* Mutant: the lock is not given back.
InterruptKeepsLock(o) ==
  /\ Interrupts
  /\ pc[o] \notin {"idle", "testing"} \cup Ended
  /\ pc' = [pc EXCEPT ![o] = CutPoint(o)]
  /\ UNCHANGED <<storeVars, callVars, poolVars, lock, cache, handle, raced>>

Interrupt(o) ==
  /\ Interrupts
  /\ pc[o] \notin {"idle", "testing"} \cup Ended
  /\ pc' = [pc EXCEPT ![o] = CutPoint(o)]
  /\ lock' = IF lock = o THEN NoOp ELSE lock
  /\ UNCHANGED <<storeVars, callVars, poolVars, cache, handle, raced>>

ClosedByItself(o) ==
  /\ Step(o, "cutClose", "cut")
  /\ live' = live \ {handle[o]}
  /\ UNCHANGED <<storeVars, callVars, open, failures, builtRow, builtSecret, lock,
                 cache, handle, raced>>

-----------------------------------------------------------------------------
Proceed(o) ==
  \/ TakeLock(o)    \/ Look(o)       \/ ReadRow(o)    \/ ReadSecret(o)
  \/ PingFails(o)   \/ Pinged(o)     \/ UseDone(o)    \/ FinishTest(o)
  \/ CloseEntry(o)  \/ NothingOpen(o) \/ ReadStored(o) \/ FirstWrite(o)
  \/ SecondWrite(o) \/ ClosedByItself(o)

Next ==
  \E o \in Ops : \/ \E k \in Conns : Start(o, k)
                 \/ Proceed(o)
                 \/ Closed(o)
                 \/ Interrupt(o)

Spec == Init /\ [][Next]_vars

\* Calls proceed, and a query, a ping and a connection attempt come back.  A pool
\* has to close only once nobody uses its driver any more.
Unused(d) == \A o \in Ops : pc[o] = "using" => handle[o] # d

Fairness ==
  \A o \in Ops : /\ WF_vars(Proceed(o))
                 /\ WF_vars(pc[o] = "closing" /\ Unused(handle[o]) /\ Closed(o))

FairSpec == Spec /\ Fairness

-----------------------------------------------------------------------------
(* Properties *)

\* connection.status never lies: a connection shown as connected has a driver
\* whose pool exists and carries no error of an earlier attempt, whatever opens,
\* failures and releases overlap.
StatusIsTrue ==
  \A k \in Conns : open[k] # NoOp => open[k] \in live /\ k \notin failures

\* "One live driver per connection": every pool that exists is the open driver
\* of its connection, is just being opened, tested or closed, or was abandoned by
\* a call that was interrupted during its first ping.
PoolsAccountedFor ==
  \A d \in live :
    \/ open[conn[d]] = d
    \/ pc[d] \in {"ping", "testing", "cutPing"}
    \/ \E r \in Ops : pc[r] \in {"closing", "cutClose"} /\ handle[r] = d

\* A driver in the map was made from the row and the secret that are stored now,
\* unless it was opened in the middle of a create, an update or a delete.
StaleOnlyIfRaced ==
  \A k \in Conns : open[k] # NoOp /\ open[k] \notin raced =>
    builtRow[open[k]] = row[k] /\ builtSecret[open[k]] = secret[k]

\* A cached schema was read through the driver that is open now, unless a release
\* of the connection overtook the introspection, is still closing the driver, or was
\* interrupted while it did.
CacheFollowsDriver ==
  \A k \in Conns : cache[k] # NoOp /\ cache[k] \notin raced =>
    \/ handle[cache[k]] = open[k]
    \/ \E r \in Ops : conn[r] = k /\ handle[r] = handle[cache[k]]
                      /\ pc[r] \in {"closing", "cutClose", "cut"}

\* No call waits for ever on the one lock all connections share.
CallsEnd == \A o \in Ops : pc[o] # "idle" ~> pc[o] \in Ended

=============================================================================
