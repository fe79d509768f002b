------------------------ MODULE DriverRegistryProofs ------------------------
(***************************************************************************)
(* Theorems about DriverRegistry for every set of connections and calls:   *)
(* type correctness, the inductive invariant IInv, and the safety          *)
(* properties that follow from it.                                         *)
(***************************************************************************)
EXTENDS DriverRegistry, TLAPS

LEMMA InitType == Init => TypeOK
  BY ConstantsAssumption DEF Init, TypeOK, Writers, Points, AllKinds, Locked, Opening, Storing, Ended

\* What a call does when it starts keeps the types.
LEMMA StartType ==
  ASSUME TypeOK, NEW o \in Ops, NEW k \in Conns, Start(o, k)
  PROVE  TypeOK'
  <1> USE ConstantsAssumption
      DEF TypeOK, Enter, Step, Writers, Points, AllKinds, Locked, Opening, Storing, Ended,
          storeVars, poolVars
  <1>1. CASE StartAcquire(o, k)
    BY <1>1 DEF StartAcquire
  <1>2. CASE StartList(o, k)
    BY <1>2 DEF StartList
  <1>3. CASE StartRefresh(o, k)
    BY <1>3 DEF StartRefresh
  <1>4. CASE StartChange(o, k)
    BY <1>4 DEF StartChange
  <1>5. CASE StartCreate(o, k)
    BY <1>5 DEF StartCreate
  <1>6. CASE StartDisconnect(o, k)
    BY <1>6 DEF StartDisconnect
  <1>7. CASE StartTest(o, k)
    BY <1>7 DEF StartTest
  <1>. QED
    BY <1>1, <1>2, <1>3, <1>4, <1>5, <1>6, <1>7 DEF Start

\* So does every step of a call.
LEMMA ProceedType ==
  ASSUME TypeOK, NEW o \in Ops, Proceed(o) \/ Closed(o) \/ Interrupt(o)
  PROVE  TypeOK'
  <1> USE ConstantsAssumption
      DEF TypeOK, Step, Unlock, OpenFails, Writers, Points, Locked, Opening, Storing, Ended,
          storeVars, poolVars, callVars
  <1>1. CASE TakeLock(o)
    BY <1>1 DEF TakeLock
  <1>2. CASE Look(o)
    BY <1>2 DEF Look
  <1>3. CASE ReadRow(o)
    BY <1>3 DEF ReadRow
  <1>4. CASE ReadSecret(o)
    BY <1>4 DEF ReadSecret
  <1>5. CASE PingFails(o)
    BY <1>5 DEF PingFails
  <1>6. CASE Pinged(o)
    BY <1>6 DEF Pinged
  <1>7. CASE UseDone(o)
    BY <1>7 DEF UseDone
  <1>8. CASE FinishTest(o)
    BY <1>8 DEF FinishTest
  <1>9. CASE CloseEntry(o)
    BY <1>9 DEF CloseEntry
  <1>10. CASE NothingOpen(o)
    BY <1>10 DEF NothingOpen, Invalidate, AfterRelease
  <1>11. CASE ReadStored(o)
    BY <1>11 DEF ReadStored
  <1>12. CASE FirstWrite(o)
    BY <1>12 DEF FirstWrite
  <1>13. CASE SecondWrite(o)
    BY <1>13 DEF SecondWrite
  <1>14. CASE ClosedByItself(o)
    BY <1>14 DEF ClosedByItself
  <1>15. CASE Closed(o)
    BY <1>15 DEF Closed, Invalidate, AfterRelease
  <1>16. CASE Interrupt(o)
    BY <1>16 DEF Interrupt, CutPoint
  <1>. QED
    BY <1>1, <1>2, <1>3, <1>4, <1>5, <1>6, <1>7, <1>8, <1>9, <1>10, <1>11, <1>12, <1>13,
       <1>14, <1>15, <1>16 DEF Proceed

LEMMA NextType ==
  ASSUME TypeOK, [Next]_vars
  PROVE  TypeOK'
  <1>1. CASE UNCHANGED vars
    BY <1>1 DEF vars, storeVars, poolVars, callVars, TypeOK
  <1>. QED
    BY <1>1, StartType, ProceedType DEF Next

\* Every value stays in its set, a call under way has a connection, and a call
\* that uses or closes a driver has one.
THEOREM TypeCorrect == Spec => []TypeOK
  <1>1. TypeOK /\ [Next]_vars => TypeOK'
    BY NextType
  <1>. QED
    BY <1>1, InitType, PTL DEF Spec

-----------------------------------------------------------------------------
(* The inductive invariant behind the safety properties *)

Served == {"using", "done", "failed", "cut"}

\* The semaphore: a call is in the critical section exactly while it holds the lock.
LockInv == \A o \in Ops : pc[o] \in Locked <=> lock = o

\* A driver that is handed out was pinged, and belongs to the connection.
HandleInv ==
  \A o \in Ops : handle[o] # NoOp =>
    pc[handle[o]] \in Served /\ pc[o] # "idle" /\ conn[handle[o]] = conn[o]

\* The same of the drivers in the map, whose connection has no failure.
OpenInv ==
  \A k \in Conns : open[k] # NoOp =>
    /\ open[k] \in live /\ k \notin failures /\ k \in used
    /\ pc[open[k]] \in Served /\ conn[open[k]] = k

\* Inside openDriver, and after open.delete, the map has no driver.
EmptyInv ==
  /\ \A o \in Ops : pc[o] \in Opening \cup {"closing"} => open[conn[o]] = NoOp
  /\ \A o \in Ops, k \in Conns : pc[o] \in {"closing", "cutClose"} => open[k] # handle[o]

LiveInv ==
  /\ PoolsAccountedFor
  /\ \A o \in Ops : (o \in live => pc[o] # "idle") /\ (pc[o] = "ping" => o \in live)

\* Rows, drivers and openings only of connections that were created.
UsedInv ==
  /\ \A k \in Conns : row[k] # NoOp => k \in used
  /\ \A o \in Ops : pc[o] \in {"secret", "ping"} \/ kind[o] = "create" => conn[o] \in used

\* An opening has read what is stored, or ran into a change.
ReadInv ==
  /\ \A o \in Ops : pc[o] \in {"secret", "ping"} /\ o \notin raced => builtRow[o] = row[conn[o]]
  /\ \A o \in Ops : pc[o] = "ping" /\ o \notin raced => builtSecret[o] = secret[conn[o]]
  /\ \A k \in Conns : Changing(k) =>
       /\ open[k] \in raced \cup {NoOp}
       /\ \A o \in Ops : pc[o] \in {"secret", "ping"} /\ conn[o] = k => o \in raced

\* What CacheFollowsDriver says of a cached schema holds of it from the moment its
\* introspection starts.
Follows(o, k) ==
  \/ handle[o] = open[k]
  \/ \E r \in Ops : conn[r] = k /\ handle[r] = handle[o]
                    /\ pc[r] \in {"closing", "cutClose", "cut"}

UseInv ==
  /\ \A o \in Ops : pc[o] = "using" /\ o \notin raced => Follows(o, conn[o])
  /\ \A k \in Conns : cache[k] # NoOp => handle[cache[k]] # NoOp

IInv ==
  /\ LockInv /\ HandleInv /\ OpenInv /\ EmptyInv /\ LiveInv /\ UsedInv /\ ReadInv
  /\ UseInv /\ StaleOnlyIfRaced /\ CacheFollowsDriver

-----------------------------------------------------------------------------
(* IInv is inductive, one lemma for each of its parts *)

LEMMA InitInv == Init => IInv
  BY ConstantsAssumption
  DEF Init, IInv, LockInv, HandleInv, OpenInv, EmptyInv, LiveInv, UsedInv, ReadInv, UseInv,
      PoolsAccountedFor, StaleOnlyIfRaced, CacheFollowsDriver, Locked, Opening, Storing, Changing

\* Only TakeLock takes the lock, and whoever leaves the critical section gives it back.
LEMMA LockStep ==
  ASSUME TypeOK, IInv, [Next]_vars
  PROVE  LockInv'
  <1> USE ConstantsAssumption
      DEF TypeOK, IInv, LockInv, Step, Unlock, OpenFails, Locked, Opening, Storing, Ended
  <1>1. ASSUME NEW o \in Ops, NEW k \in Conns, Start(o, k)
        PROVE  LockInv'
    BY <1>1 DEF Start, Enter, StartAcquire, StartList, StartRefresh, StartChange, StartCreate,
                StartDisconnect, StartTest
  <1>2. ASSUME NEW o \in Ops, TakeLock(o) \/ Look(o) \/ ReadRow(o) \/ ReadSecret(o)
        PROVE  LockInv'
    BY <1>2 DEF TakeLock, Free, Look, ReadRow, ReadSecret
  <1>3. ASSUME NEW o \in Ops, PingFails(o) \/ Pinged(o) \/ UseDone(o) \/ FinishTest(o)
        PROVE  LockInv'
    BY <1>3 DEF PingFails, Pinged, UseDone, FinishTest
  <1>4. ASSUME NEW o \in Ops, CloseEntry(o) \/ NothingOpen(o) \/ Closed(o) \/ ClosedByItself(o)
        PROVE  LockInv'
    BY <1>4 DEF CloseEntry, NothingOpen, Closed, ClosedByItself, AfterRelease
  <1>5. ASSUME NEW o \in Ops, ReadStored(o) \/ FirstWrite(o) \/ SecondWrite(o)
        PROVE  LockInv'
    BY <1>5 DEF ReadStored, FirstWrite, SecondWrite
  <1>6. ASSUME NEW o \in Ops, Interrupt(o)
        PROVE  LockInv'
    BY <1>6 DEF Interrupt, CutPoint
  <1>7. CASE UNCHANGED vars
    BY <1>7 DEF vars
  <1>. QED
    BY <1>1, <1>2, <1>3, <1>4, <1>5, <1>6, <1>7 DEF Next, Proceed

\* A call is handed a driver that was pinged, and no call of its own goes back behind that.
LEMMA HandleStep ==
  ASSUME TypeOK, IInv, [Next]_vars
  PROVE  HandleInv'
  <1> USE ConstantsAssumption
      DEF TypeOK, IInv, Step, Unlock, storeVars, poolVars, callVars, Locked, Opening, Storing, Ended,
          HandleInv, OpenInv, Served
  <1>1. ASSUME NEW o \in Ops, NEW k \in Conns, Start(o, k)
        PROVE  HandleInv'
    BY <1>1 DEF Start, Enter, Exists, StartAcquire, StartList, StartRefresh, StartChange,
                StartCreate, StartDisconnect, StartTest
  <1>2. ASSUME NEW o \in Ops, TakeLock(o) \/ Look(o) \/ ReadRow(o) \/ ReadSecret(o)
        PROVE  HandleInv'
    BY <1>2 DEF TakeLock, Free, Look, Exists, ReadRow, ReadSecret, OpenFails
  <1>3. ASSUME NEW o \in Ops, PingFails(o) \/ Pinged(o) \/ UseDone(o) \/ FinishTest(o)
        PROVE  HandleInv'
    BY <1>3 DEF PingFails, Pinged, UseDone, FinishTest, OpenFails
  <1>4. ASSUME NEW o \in Ops, CloseEntry(o) \/ NothingOpen(o) \/ Closed(o) \/ ClosedByItself(o)
        PROVE  HandleInv'
    BY <1>4 DEF CloseEntry, NothingOpen, Closed, ClosedByItself, Invalidate, AfterRelease
  <1>5. ASSUME NEW o \in Ops, ReadStored(o) \/ FirstWrite(o) \/ SecondWrite(o)
        PROVE  HandleInv'
    BY <1>5 DEF ReadStored, FirstWrite, SecondWrite, Exists
  <1>6. ASSUME NEW o \in Ops, Interrupt(o)
        PROVE  HandleInv'
    BY <1>6 DEF Interrupt, CutPoint
  <1>7. CASE UNCHANGED vars
    BY <1>7 DEF vars
  <1>. QED
    BY <1>1, <1>2, <1>3, <1>4, <1>5, <1>6, <1>7 DEF Next, Proceed

\* An opening puts a live, pinged driver into an empty place of the map and clears the
\* failure; a driver is closed only after it left the map.
LEMMA OpenStep ==
  ASSUME TypeOK, IInv, [Next]_vars
  PROVE  OpenInv'
  <1> USE ConstantsAssumption
      DEF TypeOK, IInv, Step, Unlock, storeVars, poolVars, callVars, Locked, Opening, Storing, Ended,
          LockInv, OpenInv, EmptyInv, LiveInv, UsedInv, HandleInv, Served
  <1>1. ASSUME NEW o \in Ops, NEW k \in Conns, Start(o, k)
        PROVE  OpenInv'
    BY <1>1 DEF Start, Enter, Exists, StartAcquire, StartList, StartRefresh, StartChange,
                StartCreate, StartDisconnect, StartTest
  <1>2. ASSUME NEW o \in Ops, TakeLock(o) \/ Look(o) \/ ReadRow(o) \/ ReadSecret(o)
        PROVE  OpenInv'
    BY <1>2 DEF TakeLock, Free, Look, Exists, ReadRow, ReadSecret, OpenFails
  <1>3. ASSUME NEW o \in Ops, PingFails(o) \/ Pinged(o) \/ UseDone(o) \/ FinishTest(o)
        PROVE  OpenInv'
    <2>1. CASE PingFails(o)
      BY <2>1 DEF PingFails, OpenFails
    <2>2. CASE Pinged(o)
      BY <2>2 DEF Pinged
    <2>3. CASE UseDone(o)
      BY <2>3 DEF UseDone
    <2>4. CASE FinishTest(o)
      BY <2>4 DEF FinishTest
    <2>. QED
      BY <1>3, <2>1, <2>2, <2>3, <2>4
  <1>4. ASSUME NEW o \in Ops, CloseEntry(o) \/ NothingOpen(o) \/ Closed(o) \/ ClosedByItself(o)
        PROVE  OpenInv'
    BY <1>4 DEF CloseEntry, NothingOpen, Closed, ClosedByItself, Invalidate, AfterRelease
  <1>5. ASSUME NEW o \in Ops, ReadStored(o) \/ FirstWrite(o) \/ SecondWrite(o)
        PROVE  OpenInv'
    BY <1>5 DEF ReadStored, FirstWrite, SecondWrite, Exists
  <1>6. ASSUME NEW o \in Ops, Interrupt(o)
        PROVE  OpenInv'
    BY <1>6 DEF Interrupt, CutPoint
  <1>7. CASE UNCHANGED vars
    BY <1>7 DEF vars
  <1>. QED
    BY <1>1, <1>2, <1>3, <1>4, <1>5, <1>6, <1>7 DEF Next, Proceed

\* Only the holder of the lock touches the map.
LEMMA EmptyStep ==
  ASSUME TypeOK, IInv, [Next]_vars
  PROVE  EmptyInv'
  <1> USE ConstantsAssumption
      DEF TypeOK, IInv, Step, Unlock, storeVars, poolVars, callVars, Locked, Opening, Storing, Ended,
          LockInv, OpenInv, EmptyInv, HandleInv, Served
  <1>1. ASSUME NEW o \in Ops, NEW k \in Conns, Start(o, k)
        PROVE  EmptyInv'
    BY <1>1 DEF Start, Enter, Exists, StartAcquire, StartList, StartRefresh, StartChange,
                StartCreate, StartDisconnect, StartTest
  <1>2. ASSUME NEW o \in Ops, TakeLock(o) \/ Look(o) \/ ReadRow(o) \/ ReadSecret(o)
        PROVE  EmptyInv'
    BY <1>2 DEF TakeLock, Free, Look, Exists, ReadRow, ReadSecret, OpenFails
  <1>3. ASSUME NEW o \in Ops, PingFails(o) \/ Pinged(o) \/ UseDone(o) \/ FinishTest(o)
        PROVE  EmptyInv'
    BY <1>3 DEF PingFails, Pinged, UseDone, FinishTest, OpenFails
  <1>4. ASSUME NEW o \in Ops, CloseEntry(o) \/ NothingOpen(o) \/ Closed(o) \/ ClosedByItself(o)
        PROVE  EmptyInv'
    BY <1>4 DEF CloseEntry, NothingOpen, Closed, ClosedByItself, Invalidate, AfterRelease
  <1>5. ASSUME NEW o \in Ops, ReadStored(o) \/ FirstWrite(o) \/ SecondWrite(o)
        PROVE  EmptyInv'
    BY <1>5 DEF ReadStored, FirstWrite, SecondWrite, Exists
  <1>6. ASSUME NEW o \in Ops, Interrupt(o)
        PROVE  EmptyInv'
    BY <1>6 DEF Interrupt, CutPoint
  <1>7. CASE UNCHANGED vars
    BY <1>7 DEF vars
  <1>. QED
    BY <1>1, <1>2, <1>3, <1>4, <1>5, <1>6, <1>7 DEF Next, Proceed

\* A pool that was made is pinged, served, being closed, or given up by an interrupt.
LEMMA LiveStep ==
  ASSUME TypeOK, IInv, [Next]_vars
  PROVE  LiveInv'
  <1> USE ConstantsAssumption
      DEF TypeOK, IInv, Step, Unlock, storeVars, poolVars, callVars, Locked, Opening, Storing, Ended,
          LockInv, LiveInv, PoolsAccountedFor, EmptyInv, OpenInv, HandleInv, Served
  <1>1. ASSUME NEW o \in Ops, NEW k \in Conns, Start(o, k)
        PROVE  LiveInv'
    BY <1>1 DEF Start, Enter, Exists, StartAcquire, StartList, StartRefresh, StartChange,
                StartCreate, StartDisconnect, StartTest
  <1>2. ASSUME NEW o \in Ops, TakeLock(o) \/ Look(o) \/ ReadRow(o) \/ ReadSecret(o)
        PROVE  LiveInv'
    <2>1. CASE TakeLock(o)
      BY <2>1 DEF TakeLock, Free
    <2>2. CASE Look(o)
      BY SMTT(30), <2>2 DEF Look, Exists
    <2>3. CASE ReadRow(o)
      BY SMTT(30), <2>3 DEF ReadRow, Exists, OpenFails
    <2>4. CASE ReadSecret(o)
      BY <2>4 DEF ReadSecret, OpenFails
    <2>. QED
      BY <1>2, <2>1, <2>2, <2>3, <2>4
  <1>3. ASSUME NEW o \in Ops, PingFails(o) \/ Pinged(o) \/ UseDone(o) \/ FinishTest(o)
        PROVE  LiveInv'
    <2>1. CASE PingFails(o)
      BY <2>1 DEF PingFails, OpenFails
    <2>2. CASE Pinged(o)
      BY <2>2 DEF Pinged
    <2>3. CASE UseDone(o)
      BY <2>3 DEF UseDone
    <2>4. CASE FinishTest(o)
      BY <2>4 DEF FinishTest
    <2>. QED
      BY <1>3, <2>1, <2>2, <2>3, <2>4
  <1>4. ASSUME NEW o \in Ops, CloseEntry(o) \/ NothingOpen(o) \/ Closed(o) \/ ClosedByItself(o)
        PROVE  LiveInv'
    BY SMTT(30), <1>4 DEF CloseEntry, NothingOpen, Closed, ClosedByItself, Invalidate, AfterRelease
  <1>5. ASSUME NEW o \in Ops, ReadStored(o) \/ FirstWrite(o) \/ SecondWrite(o)
        PROVE  LiveInv'
    BY <1>5 DEF ReadStored, FirstWrite, SecondWrite, Exists
  <1>6. ASSUME NEW o \in Ops, Interrupt(o)
        PROVE  LiveInv'
    BY <1>6 DEF Interrupt, CutPoint
  <1>7. CASE UNCHANGED vars
    BY <1>7 DEF vars
  <1>. QED
    BY <1>1, <1>2, <1>3, <1>4, <1>5, <1>6, <1>7 DEF Next, Proceed

\* Nothing is stored or opened for a connection that was not created.
LEMMA UsedStep ==
  ASSUME TypeOK, IInv, [Next]_vars
  PROVE  UsedInv'
  <1> USE ConstantsAssumption
      DEF TypeOK, IInv, Step, Unlock, storeVars, poolVars, callVars, Locked, Opening, Storing, Ended,
          UsedInv
  <1>1. ASSUME NEW o \in Ops, NEW k \in Conns, Start(o, k)
        PROVE  UsedInv'
    BY <1>1 DEF Start, Enter, Exists, StartAcquire, StartList, StartRefresh, StartChange,
                StartCreate, StartDisconnect, StartTest
  <1>2. ASSUME NEW o \in Ops, TakeLock(o) \/ Look(o) \/ ReadRow(o) \/ ReadSecret(o)
        PROVE  UsedInv'
    BY <1>2 DEF TakeLock, Free, Look, Exists, ReadRow, ReadSecret, OpenFails
  <1>3. ASSUME NEW o \in Ops, PingFails(o) \/ Pinged(o) \/ UseDone(o) \/ FinishTest(o)
        PROVE  UsedInv'
    BY <1>3 DEF PingFails, Pinged, UseDone, FinishTest, OpenFails
  <1>4. ASSUME NEW o \in Ops, CloseEntry(o) \/ NothingOpen(o) \/ Closed(o) \/ ClosedByItself(o)
        PROVE  UsedInv'
    BY <1>4 DEF CloseEntry, NothingOpen, Closed, ClosedByItself, Invalidate, AfterRelease
  <1>5. ASSUME NEW o \in Ops, ReadStored(o) \/ FirstWrite(o) \/ SecondWrite(o)
        PROVE  UsedInv'
    BY <1>5 DEF ReadStored, FirstWrite, SecondWrite, Exists
  <1>6. ASSUME NEW o \in Ops, Interrupt(o)
        PROVE  UsedInv'
    BY <1>6 DEF Interrupt, CutPoint
  <1>7. CASE UNCHANGED vars
    BY <1>7 DEF vars
  <1>. QED
    BY <1>1, <1>2, <1>3, <1>4, <1>5, <1>6, <1>7 DEF Next, Proceed

\* Who opens a driver has the lock, and so began after a release or during a change.
LEMMA ReadStep ==
  ASSUME TypeOK, IInv, [Next]_vars
  PROVE  ReadInv'
  <1> USE ConstantsAssumption
      DEF TypeOK, IInv, Step, Unlock, storeVars, poolVars, callVars, Locked, Opening, Storing, Ended,
          LockInv, UsedInv, ReadInv, EmptyInv, OpenInv, StaleOnlyIfRaced, Changing, Releases
  <1>1. ASSUME NEW o \in Ops, NEW k \in Conns, Start(o, k)
        PROVE  ReadInv'
    BY SMTT(30), <1>1 DEF Start, Enter, Exists, StartAcquire, StartList, StartRefresh, StartChange,
                StartCreate, StartDisconnect, StartTest
  <1>2. ASSUME NEW o \in Ops, TakeLock(o) \/ Look(o) \/ ReadRow(o) \/ ReadSecret(o)
        PROVE  ReadInv'
    <2>1. CASE TakeLock(o)
      BY <2>1 DEF TakeLock, Free
    <2>2. CASE Look(o)
      BY SMTT(30), <2>2 DEF Look, Exists
    <2>3. CASE ReadRow(o)
      BY SMTT(30), <2>3 DEF ReadRow, Exists, OpenFails
    <2>4. CASE ReadSecret(o)
      BY <2>4 DEF ReadSecret, OpenFails
    <2>. QED
      BY <1>2, <2>1, <2>2, <2>3, <2>4
  <1>3. ASSUME NEW o \in Ops, PingFails(o) \/ Pinged(o) \/ UseDone(o) \/ FinishTest(o)
        PROVE  ReadInv'
    <2>1. CASE PingFails(o)
      BY <2>1 DEF PingFails, OpenFails
    <2>2. CASE Pinged(o)
      BY <2>2 DEF Pinged
    <2>3. CASE UseDone(o)
      BY <2>3 DEF UseDone
    <2>4. CASE FinishTest(o)
      BY <2>4 DEF FinishTest
    <2>. QED
      BY <1>3, <2>1, <2>2, <2>3, <2>4
  <1>4. ASSUME NEW o \in Ops, CloseEntry(o) \/ NothingOpen(o) \/ Closed(o) \/ ClosedByItself(o)
        PROVE  ReadInv'
    BY SMTT(30), <1>4 DEF CloseEntry, NothingOpen, Closed, ClosedByItself, Invalidate, AfterRelease
  <1>5. ASSUME NEW o \in Ops, ReadStored(o) \/ FirstWrite(o) \/ SecondWrite(o)
        PROVE  ReadInv'
    BY <1>5 DEF ReadStored, FirstWrite, SecondWrite, Exists
  <1>6. ASSUME NEW o \in Ops, Interrupt(o)
        PROVE  ReadInv'
    BY <1>6 DEF Interrupt, CutPoint
  <1>7. CASE UNCHANGED vars
    BY <1>7 DEF vars
  <1>. QED
    BY <1>1, <1>2, <1>3, <1>4, <1>5, <1>6, <1>7 DEF Next, Proceed

\* A driver is handed out of the map, and leaves it only when a release closes it.
LEMMA UseStep ==
  ASSUME TypeOK, IInv, [Next]_vars
  PROVE  UseInv'
  <1> USE ConstantsAssumption
      DEF TypeOK, IInv, Step, Unlock, storeVars, poolVars, callVars, Locked, Opening, Storing, Ended,
          LockInv, HandleInv, OpenInv, EmptyInv, UseInv, Follows
  <1>1. ASSUME NEW o \in Ops, NEW k \in Conns, Start(o, k)
        PROVE  UseInv'
    BY <1>1 DEF Start, Enter, Exists, StartAcquire, StartList, StartRefresh, StartChange,
                StartCreate, StartDisconnect, StartTest
  <1>2. ASSUME NEW o \in Ops, TakeLock(o) \/ Look(o) \/ ReadRow(o) \/ ReadSecret(o)
        PROVE  UseInv'
    BY <1>2 DEF TakeLock, Free, Look, Exists, ReadRow, ReadSecret, OpenFails
  <1>3. ASSUME NEW o \in Ops, PingFails(o) \/ Pinged(o) \/ UseDone(o) \/ FinishTest(o)
        PROVE  UseInv'
    BY <1>3 DEF PingFails, Pinged, UseDone, FinishTest, OpenFails
  <1>4. ASSUME NEW o \in Ops, CloseEntry(o) \/ NothingOpen(o) \/ Closed(o) \/ ClosedByItself(o)
        PROVE  UseInv'
    <2>1. CASE CloseEntry(o)
      BY <2>1 DEF CloseEntry
    <2>2. CASE NothingOpen(o)
      BY <2>2 DEF NothingOpen, Invalidate, AfterRelease
    <2>3. CASE Closed(o)
      BY <2>3 DEF Closed, Invalidate, AfterRelease
    <2>4. CASE ClosedByItself(o)
      BY <2>4 DEF ClosedByItself
    <2>. QED
      BY <1>4, <2>1, <2>2, <2>3, <2>4
  <1>5. ASSUME NEW o \in Ops, ReadStored(o) \/ FirstWrite(o) \/ SecondWrite(o)
        PROVE  UseInv'
    <2>1. CASE ReadStored(o)
      BY <2>1 DEF ReadStored, Exists
    <2>2. CASE FirstWrite(o)
      BY <2>2 DEF FirstWrite
    <2>3. CASE SecondWrite(o)
      BY <2>3 DEF SecondWrite, Exists
    <2>. QED
      BY <1>5, <2>1, <2>2, <2>3
  <1>6. ASSUME NEW o \in Ops, Interrupt(o)
        PROVE  UseInv'
    BY <1>6 DEF Interrupt, CutPoint
  <1>7. CASE UNCHANGED vars
    BY <1>7 DEF vars
  <1>. QED
    BY <1>1, <1>2, <1>3, <1>4, <1>5, <1>6, <1>7 DEF Next, Proceed

\* What a driver was built from changes only after the driver left the map.
LEMMA StaleStep ==
  ASSUME TypeOK, IInv, [Next]_vars
  PROVE  StaleOnlyIfRaced'
  <1> USE ConstantsAssumption
      DEF TypeOK, IInv, Step, Unlock, storeVars, poolVars, callVars, Locked, Opening, Storing, Ended,
          UsedInv, LockInv, ReadInv, EmptyInv, OpenInv, StaleOnlyIfRaced, Changing
  <1>1. ASSUME NEW o \in Ops, NEW k \in Conns, Start(o, k)
        PROVE  StaleOnlyIfRaced'
    BY <1>1 DEF Start, Enter, Exists, StartAcquire, StartList, StartRefresh, StartChange,
                StartCreate, StartDisconnect, StartTest
  <1>2. ASSUME NEW o \in Ops, TakeLock(o) \/ Look(o) \/ ReadRow(o) \/ ReadSecret(o)
        PROVE  StaleOnlyIfRaced'
    BY <1>2 DEF TakeLock, Free, Look, Exists, ReadRow, ReadSecret, OpenFails
  <1>3. ASSUME NEW o \in Ops, PingFails(o) \/ Pinged(o) \/ UseDone(o) \/ FinishTest(o)
        PROVE  StaleOnlyIfRaced'
    BY <1>3 DEF PingFails, Pinged, UseDone, FinishTest, OpenFails
  <1>4. ASSUME NEW o \in Ops, CloseEntry(o) \/ NothingOpen(o) \/ Closed(o) \/ ClosedByItself(o)
        PROVE  StaleOnlyIfRaced'
    BY <1>4 DEF CloseEntry, NothingOpen, Closed, ClosedByItself, Invalidate, AfterRelease
  <1>5. ASSUME NEW o \in Ops, ReadStored(o) \/ FirstWrite(o) \/ SecondWrite(o)
        PROVE  StaleOnlyIfRaced'
    BY <1>5 DEF ReadStored, FirstWrite, SecondWrite, Exists
  <1>6. ASSUME NEW o \in Ops, Interrupt(o)
        PROVE  StaleOnlyIfRaced'
    BY <1>6 DEF Interrupt, CutPoint
  <1>7. CASE UNCHANGED vars
    BY <1>7 DEF vars
  <1>. QED
    BY <1>1, <1>2, <1>3, <1>4, <1>5, <1>6, <1>7 DEF Next, Proceed

\* A release clears the entry, and marks the introspections that will come too late.
LEMMA CacheStep ==
  ASSUME TypeOK, IInv, [Next]_vars
  PROVE  CacheFollowsDriver'
  <1> USE ConstantsAssumption
      DEF TypeOK, IInv, Step, Unlock, storeVars, poolVars, callVars, Locked, Opening, Storing, Ended,
          LockInv, HandleInv, OpenInv, EmptyInv, UseInv, Follows, CacheFollowsDriver
  <1>1. ASSUME NEW o \in Ops, NEW k \in Conns, Start(o, k)
        PROVE  CacheFollowsDriver'
    BY <1>1 DEF Start, Enter, Exists, StartAcquire, StartList, StartRefresh, StartChange,
                StartCreate, StartDisconnect, StartTest
  <1>2. ASSUME NEW o \in Ops, TakeLock(o) \/ Look(o) \/ ReadRow(o) \/ ReadSecret(o)
        PROVE  CacheFollowsDriver'
    BY <1>2 DEF TakeLock, Free, Look, Exists, ReadRow, ReadSecret, OpenFails
  <1>3. ASSUME NEW o \in Ops, PingFails(o) \/ Pinged(o) \/ UseDone(o) \/ FinishTest(o)
        PROVE  CacheFollowsDriver'
    BY <1>3 DEF PingFails, Pinged, UseDone, FinishTest, OpenFails
  <1>4. ASSUME NEW o \in Ops, CloseEntry(o) \/ NothingOpen(o) \/ Closed(o) \/ ClosedByItself(o)
        PROVE  CacheFollowsDriver'
    BY <1>4 DEF CloseEntry, NothingOpen, Closed, ClosedByItself, Invalidate, AfterRelease
  <1>5. ASSUME NEW o \in Ops, ReadStored(o) \/ FirstWrite(o) \/ SecondWrite(o)
        PROVE  CacheFollowsDriver'
    BY <1>5 DEF ReadStored, FirstWrite, SecondWrite, Exists
  <1>6. ASSUME NEW o \in Ops, Interrupt(o)
        PROVE  CacheFollowsDriver'
    BY <1>6 DEF Interrupt, CutPoint
  <1>7. CASE UNCHANGED vars
    BY <1>7 DEF vars
  <1>. QED
    BY <1>1, <1>2, <1>3, <1>4, <1>5, <1>6, <1>7 DEF Next, Proceed

LEMMA NextInv ==
  ASSUME TypeOK, IInv, [Next]_vars
  PROVE  IInv'
  <1>1. LockInv' /\ HandleInv' /\ OpenInv' /\ EmptyInv' /\ LiveInv'
    BY LockStep, HandleStep, OpenStep, EmptyStep, LiveStep
  <1>2. UsedInv' /\ ReadInv' /\ UseInv' /\ StaleOnlyIfRaced' /\ CacheFollowsDriver'
    BY UsedStep, ReadStep, UseStep, StaleStep, CacheStep
  <1>. QED
    BY <1>1, <1>2 DEF IInv

\* The inductive invariant holds in every reachable state.
THEOREM Invariance == Spec => [](TypeOK /\ IInv)
  <1>1. Init => TypeOK /\ IInv
    BY InitType, InitInv
  <1>2. TypeOK /\ IInv /\ [Next]_vars => TypeOK' /\ IInv'
    BY NextType, NextInv
  <1>. QED
    BY <1>1, <1>2, PTL DEF Spec

-----------------------------------------------------------------------------
(* What follows *)

\* connection.status shows a connection as connected only with a live driver.
THEOREM StatusTheorem == Spec => []StatusIsTrue
  <1>1. TypeOK /\ IInv => StatusIsTrue
    BY DEF IInv, OpenInv, StatusIsTrue
  <1>. QED
    BY <1>1, Invariance, PTL

\* One driver per connection: no pool is left behind but by an interrupted first ping.
THEOREM PoolsTheorem == Spec => []PoolsAccountedFor
  <1>1. TypeOK /\ IInv => PoolsAccountedFor
    BY DEF IInv, LiveInv
  <1>. QED
    BY <1>1, Invariance, PTL

\* A driver that does not match the stored row and secret was opened while they changed.
THEOREM StaleTheorem == Spec => []StaleOnlyIfRaced
  <1>1. TypeOK /\ IInv => StaleOnlyIfRaced
    BY DEF IInv
  <1>. QED
    BY <1>1, Invariance, PTL

\* A cached schema that nothing overtook comes from the driver that is open.
THEOREM CacheTheorem == Spec => []CacheFollowsDriver
  <1>1. TypeOK /\ IInv => CacheFollowsDriver
    BY DEF IInv
  <1>. QED
    BY <1>1, Invariance, PTL

\* The semaphore admits one call to openDriver and closeEntry at a time.
THEOREM MutualExclusion ==
  Spec => [](\A o, p \in Ops : pc[o] \in Locked /\ pc[p] \in Locked => o = p)
  <1>1. TypeOK /\ IInv => \A o, p \in Ops : pc[o] \in Locked /\ pc[p] \in Locked => o = p
    BY DEF IInv, LockInv
  <1>. QED
    BY <1>1, Invariance, PTL
=============================================================================
