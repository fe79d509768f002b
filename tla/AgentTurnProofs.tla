--------------------------- MODULE AgentTurnProofs ---------------------------
(***************************************************************************)
(* Theorems about AgentTurn for every set of threads, connections, turns   *)
(* and calls: type correctness, the inductive invariant IInv, the safety   *)
(* properties that follow from it, and the implementation of               *)
(* AiWriteAuthorization.                                                   *)
(***************************************************************************)
EXTENDS AgentTurn, TLAPS

LEMMA InitType == Init => TypeOK
  BY ConstantsAssumption
  DEF Init, TypeOK, TurnStates, CallStates, Statuses, Answers, AllKinds

\* A step of a turn keeps the types.
LEMMA TurnStepType ==
  ASSUME TypeOK, NEW m \in Turns, TurnStep(m)
  PROVE  TypeOK'
  <1> USE DEF TypeOK, TurnStates, MoveTurn, OnlyTurnMoves, Ended, vars, storeVars, turnVars,
             callVars
  <1>1. CASE SendFork(m)
    BY <1>1 DEF SendFork
  <1>2. CASE SendDies(m)
    BY <1>2 DEF SendDies
  <1>3. CASE PersistUser(m)
    BY <1>3 DEF PersistUser
  <1>4. CASE StartProvider(m)
    BY <1>4 DEF StartProvider
  <1>5. CASE NoBinary(m)
    BY <1>5 DEF NoBinary
  <1>6. CASE FinishTurn(m)
    BY <1>6 DEF FinishTurn
  <1>7. CASE PersistAssistant(m)
    BY <1>7 DEF PersistAssistant, CallsOf
  <1>8. CASE AnnounceDone(m)
    BY <1>8 DEF AnnounceDone
  <1>9. CASE AnnounceCrash(m)
    BY <1>9 DEF AnnounceCrash
  <1>10. CASE ReleaseClaim(m)
    BY <1>10, ConstantsAssumption DEF ReleaseClaim
  <1>. QED
    BY <1>1, <1>2, <1>3, <1>4, <1>5, <1>6, <1>7, <1>8, <1>9, <1>10 DEF TurnStep

\* A step of a tool call keeps the types.
LEMMA CallStepType ==
  ASSUME TypeOK, NEW c \in Calls, CallStep(c)
  PROVE  TypeOK'
  <1> USE DEF TypeOK, CallStates, MoveCall, OnlyCallMoves, EndWait, vars, storeVars,
             turnVars, callVars
  <1>1. CASE StartCall(c)
    BY <1>1 DEF StartCall
  <1>2. CASE ReadPolicy(c)
    BY <1>2 DEF ReadPolicy
  <1>3. CASE CreateApproval(c)
    BY <1>3 DEF CreateApproval, Statuses
  <1>4. CASE AnnounceRequest(c)
    BY <1>4 DEF AnnounceRequest, Statuses
  <1>5. CASE Wake(c)
    BY <1>5 DEF Wake
  <1>6. CASE Timeout(c)
    BY <1>6 DEF Timeout, Answers
  <1>7. CASE Settle(c)
    BY <1>7 DEF Settle
  <1>8. ASSUME NEW from \in CallStates, NEW to \in CallStates, NEW s \in Statuses,
               RecordStatus(c, from, to, s)
        PROVE  TypeOK'
    BY <1>8 DEF RecordStatus, SetStatus, Statuses
  <1>9. ASSUME NEW from \in CallStates, NEW to \in CallStates, NEW s \in Statuses,
               ShowStatus(c, from, to, s)
        PROVE  TypeOK'
    BY <1>9 DEF ShowStatus
  <1>10. \A from : Refuse(c, from) => TypeOK'
    BY DEF Refuse
  <1>11. CASE GateLoad(c)
    BY <1>10, <1>11 DEF GateLoad
  <1>12. CASE GateCheck(c)
    <2>1. CASE Refuse(c, "check")
      BY <1>10, <2>1
    <2>2. CASE ~ Refuse(c, "check")
      BY <1>12, <2>2 DEF GateCheck
    <2>. QED
      BY <2>1, <2>2
  <1>13. CASE AcquireDriver(c)
    BY <1>10, <1>13 DEF AcquireDriver
  <1>14. CASE RunWrite(c)
    BY <1>14 DEF RunWrite
  <1>15. CASE RecordRejected(c)
    BY <1>8, <1>15 DEF RecordRejected, Statuses
  <1>16. CASE RecordApproved(c)
    BY <1>8, <1>16 DEF RecordApproved, Statuses
  <1>17. CASE RecordResult(c)
    BY <1>8, <1>17 DEF RecordResult, Verdict, Statuses
  <1>18. CASE ShowRejected(c)
    BY <1>9, <1>18 DEF ShowRejected, Statuses
  <1>19. CASE ShowApproved(c)
    BY <1>9, <1>19 DEF ShowApproved, Statuses
  <1>20. CASE ShowResult(c)
    BY <1>9, <1>20 DEF ShowResult, Verdict, Statuses
  <1>. QED
    BY <1>1, <1>2, <1>3, <1>4, <1>5, <1>6, <1>7, <1>11, <1>12, <1>13, <1>14,
       <1>15, <1>16, <1>17, <1>18, <1>19, <1>20 DEF CallStep

\* So does everything else.
LEMMA NextType ==
  ASSUME TypeOK, [Next]_vars
  PROVE  TypeOK'
  <1> USE DEF TypeOK, vars, storeVars, turnVars, callVars
  <1>1. ASSUME NEW m \in Turns, NEW t \in Threads, SendClaim(m, t)
        PROVE  TypeOK'
    BY <1>1, ConstantsAssumption DEF SendClaim, Free, MoveTurn, TurnStates, AllKinds
  <1>2. ASSUME NEW m \in Turns, ProviderStops(m)
        PROVE  TypeOK'
    BY <1>2 DEF ProviderStops, MoveTurn, TurnStates, CallsOf, Finished
  <1>3. ASSUME NEW m \in Turns, Abort(m)
        PROVE  TypeOK'
    BY <1>3 DEF Abort, Answers
  <1>4. ASSUME NEW m \in Turns, Interrupt(m)
        PROVE  TypeOK'
    BY <1>4 DEF Interrupt
  <1>5. ASSUME NEW m \in Turns, NEW c \in Calls, Propose(m, c)
        PROVE  TypeOK'
    BY <1>5 DEF Propose, MoveCall, CallStates, CallsOf, Finished
  <1>6. ASSUME NEW c \in Calls, NEW a \in {"yes", "no"}, ResolveApproval(c, a)
        PROVE  TypeOK'
    BY <1>6 DEF ResolveApproval, Answers
  <1>7. ASSUME NEW gone \in SUBSET Threads, DropThreads(gone), conns' \subseteq Conns
        PROVE  TypeOK'
    BY <1>7 DEF DropThreads, Statuses
  <1>8. ASSUME NEW t \in Threads, DeleteThread(t)
        PROVE  TypeOK'
    BY <1>7, <1>8 DEF DeleteThread
  <1>9. ASSUME NEW k \in Conns, TogglePolicy(k)
        PROVE  TypeOK'
    BY <1>9 DEF TogglePolicy
  <1>10. ASSUME NEW k \in Conns, DeleteConnection(k)
        PROVE  TypeOK'
    BY <1>7, <1>10 DEF DeleteConnection
  <1>11. CASE Crash
    <2>1. crashes' \in 0 .. MaxCrashes
      BY <1>11, ConstantsAssumption DEF Crash
    <2>2. turn' \in [Turns -> TurnStates]
      BY <1>11 DEF Crash, TurnStates
    <2>3. call' \in [Calls -> CallStates]
      BY <1>11 DEF Crash, CallStates
    <2>. QED
      BY <1>11, <2>1, <2>2, <2>3 DEF Crash
  <1>12. CASE UNCHANGED vars
    BY <1>12
  <1>. QED
    BY <1>1, <1>2, <1>3, <1>4, <1>5, <1>6, <1>8, <1>9, <1>10, <1>11, <1>12,
       TurnStepType, CallStepType DEF Next

\* Every variable of AgentTurn stays in its type, in every behaviour.
THEOREM TypeCorrect == Spec => []TypeOK
  BY InitType, NextType, PTL DEF Spec

-----------------------------------------------------------------------------
(* The inductive invariant *)

LEMMA InitInv == Init => IInv
  BY ConstantsAssumption
  DEF Init, IInv, CallInv, TurnInv, InProgress, RowPhases, CallStates

\* Nothing CallInv(d) mentions has changed.
SameCall(d) ==
  /\ call'[d] = call[d]
  /\ callTurn'[d] = callTurn[d]
  /\ callTurn[d] # NoTurn => turnThread'[callTurn[d]] = turnThread[callTurn[d]]
  /\ approval'[d] = approval[d]
  /\ outcome'[d] = outcome[d]
  /\ grant'[d] = grant[d]
  /\ result'[d] = result[d]
  /\ decision'[d] = decision[d]
  /\ d \in carded' <=> d \in carded
  /\ d \in applied' <=> d \in applied
  /\ d \in pendingApprovals' <=> d \in pendingApprovals

LEMMA CallFrame ==
  ASSUME NEW d \in Calls, CallInv(d), SameCall(d)
  PROVE  CallInv(d)'
  BY DEF CallInv, SameCall, RowPhases, CallStates

LEMMA TurnFrame ==
  ASSUME IInv, UNCHANGED <<turn, turnThread, activeTurns>>
  PROVE  \A m \in Turns : TurnInv(m)'
  BY DEF IInv, TurnInv, InProgress

\* A step of one tool call keeps its own CallInv and touches no other call.
LEMMA CallStepInv ==
  ASSUME TypeOK, IInv, NEW c \in Calls, CallStep(c)
  PROVE  IInv'
  <1> USE DEF vars, storeVars, turnVars, callVars, MoveCall, OnlyCallMoves, EndWait,
             Allowed
  <1>1. CallInv(c)
    BY DEF IInv
  <1>2. CallInv(c)'
    <2> USE <1>1 DEF TypeOK, CallInv
    <2>1. CASE StartCall(c)
      BY <2>1 DEF StartCall, RowPhases, CallStates
    <2>2. CASE ReadPolicy(c)
      BY <2>2 DEF ReadPolicy, RowPhases, CallStates
    <2>3. CASE CreateApproval(c)
      BY <2>3 DEF CreateApproval, RowPhases, CallStates
    <2>4. CASE AnnounceRequest(c)
      BY <2>4 DEF AnnounceRequest, RowPhases, CallStates
    <2>5. CASE Wake(c)
      BY <2>5 DEF Wake, RowPhases, CallStates
    <2>6. CASE Timeout(c)
      BY <2>6 DEF Timeout, RowPhases, CallStates
    <2>7. CASE Settle(c)
      BY <2>7 DEF Settle, RowPhases, CallStates, Answers
    <2>8. CASE RecordRejected(c)
      BY <2>8 DEF RecordRejected, RecordStatus, SetStatus, RowPhases, CallStates
    <2>9. CASE RecordApproved(c)
      BY <2>9 DEF RecordApproved, RecordStatus, SetStatus, RowPhases, CallStates
    <2>10. CASE RecordResult(c)
      BY <2>10 DEF RecordResult, Verdict, RecordStatus, SetStatus, RowPhases, CallStates
    <2>11. CASE ShowRejected(c) \/ ShowApproved(c) \/ ShowResult(c)
      BY <2>11 DEF ShowRejected, ShowApproved, ShowResult, Verdict, ShowStatus,
         RowPhases, CallStates
    <2>12. CASE GateLoad(c)
      BY <2>12 DEF GateLoad, Refuse, RowPhases, CallStates
    <2>13. CASE GateCheck(c)
      BY <2>13 DEF GateCheck, Refuse, RowPhases, CallStates
    <2>14. CASE AcquireDriver(c)
      BY <2>14 DEF AcquireDriver, Refuse, RowPhases, CallStates
    <2>15. CASE RunWrite(c)
      BY <2>15 DEF RunWrite, RowPhases, CallStates
    <2>. QED
      BY <2>1, <2>2, <2>3, <2>4, <2>5, <2>6, <2>7, <2>8, <2>9, <2>10, <2>11,
         <2>12, <2>13, <2>14, <2>15 DEF CallStep
  <1>3. ASSUME NEW d \in Calls \ {c}
        PROVE  SameCall(d)
    BY DEF TypeOK, SameCall, CallStep, StartCall, ReadPolicy, CreateApproval,
       AnnounceRequest, Wake, Timeout, Settle, RecordRejected, RecordApproved,
       RecordResult, ShowRejected, ShowApproved, ShowResult, RecordStatus,
       ShowStatus, SetStatus, GateLoad, GateCheck, AcquireDriver, Refuse, RunWrite
  <1>4. UNCHANGED <<turn, turnThread, activeTurns>>
    BY DEF CallStep, StartCall, ReadPolicy, CreateApproval,
       AnnounceRequest, Wake, Timeout, Settle, RecordRejected, RecordApproved,
       RecordResult, ShowRejected, ShowApproved, ShowResult, RecordStatus,
       ShowStatus, GateLoad, GateCheck, AcquireDriver, Refuse, RunWrite
  <1>. QED
    BY <1>2, <1>3, <1>4, CallFrame, TurnFrame DEF IInv

\* A step of a turn leaves every call as CallInv sees it, and gives up a claim
\* only when the turn is no longer in progress.
LEMMA TurnStepInv ==
  ASSUME TypeOK, IInv, NEW m \in Turns, TurnStep(m)
  PROVE  IInv'
  <1> USE DEF vars, storeVars, turnVars, callVars, MoveTurn, OnlyTurnMoves, Ended
  <1>1. ASSUME NEW d \in Calls
        PROVE  CallInv(d)'
    <2>1. SameCall(d)
      BY DEF TypeOK, SameCall, TurnStep, SendFork, SendDies, PersistUser,
         StartProvider, NoBinary, FinishTurn, PersistAssistant, AnnounceDone,
         AnnounceCrash, ReleaseClaim
    <2>. QED
      BY <2>1, CallFrame DEF IInv
  <1>2. ASSUME NEW n \in Turns
        PROVE  TurnInv(n)'
    <2> USE DEF TypeOK, IInv, TurnInv, InProgress
    <2>1. CASE ReleaseClaim(m)
      BY <2>1 DEF ReleaseClaim
    <2>2. CASE SendFork(m) \/ SendDies(m) \/ PersistUser(m) \/ StartProvider(m)
      BY <2>2 DEF SendFork, SendDies, PersistUser, StartProvider
    <2>3. CASE NoBinary(m) \/ FinishTurn(m) \/ AnnounceDone(m) \/ AnnounceCrash(m)
      BY <2>3 DEF NoBinary, FinishTurn, AnnounceDone, AnnounceCrash
    <2>4. CASE PersistAssistant(m)
      BY <2>4 DEF PersistAssistant
    <2>. QED
      BY <2>1, <2>2, <2>3, <2>4 DEF TurnStep
  <1>. QED
    BY <1>1, <1>2 DEF IInv

\* The cascade of a deletion takes rows away and changes nothing in memory.
LEMMA DropInv ==
  ASSUME TypeOK, IInv, NEW gone \in SUBSET Threads, DropThreads(gone)
  PROVE  IInv'
  <1> USE DEF DropThreads, turnVars, callVars
  <1>1. ASSUME NEW d \in Calls
        PROVE  CallInv(d)'
    <2>1. approval'[d] \in {"none", approval[d]}
      BY DEF TypeOK
    <2>. QED
      BY <2>1 DEF IInv, CallInv, RowPhases, CallStates, TypeOK
  <1>. QED
    BY <1>1, TurnFrame DEF IInv

\* A crash loses the turns and the calls and no row.
LEMMA CrashInv ==
  ASSUME TypeOK, IInv, Crash
  PROVE  IInv'
  <1> USE DEF Crash, storeVars
  <1>1. ASSUME NEW d \in Calls
        PROVE  CallInv(d)'
    <2>1. CASE d \in applied' \ applied
      BY <2>1 DEF IInv, CallInv, RowPhases, CallStates, TypeOK
    <2>2. CASE ~ (d \in applied' \ applied)
      BY <2>2 DEF IInv, CallInv, RowPhases, CallStates, TypeOK
    <2>. QED
      BY <2>1, <2>2
  <1>2. ASSUME NEW n \in Turns
        PROVE  TurnInv(n)'
    BY DEF IInv, TurnInv, InProgress, TypeOK
  <1>. QED
    BY <1>1, <1>2 DEF IInv

\* IInv is inductive.
LEMMA NextInv ==
  ASSUME TypeOK, IInv, [Next]_vars
  PROVE  IInv'
  <1> USE DEF vars, storeVars, turnVars, callVars
  <1>1. ASSUME NEW m \in Turns, NEW t \in Threads, SendClaim(m, t)
        PROVE  IInv'
    <2> USE <1>1 DEF SendClaim, Free, MoveTurn
    <2>1. ASSUME NEW d \in Calls
          PROVE  CallInv(d)'
      <3>1. SameCall(d)
        BY DEF SameCall, TypeOK, IInv, CallInv, TurnInv
      <3>. QED
        BY <3>1, CallFrame DEF IInv
    <2>2. ASSUME NEW n \in Turns
          PROVE  TurnInv(n)'
      BY ConstantsAssumption DEF IInv, TurnInv, InProgress, TypeOK
    <2>. QED
      BY <2>1, <2>2 DEF IInv
  <1>2. ASSUME NEW m \in Turns, ProviderStops(m)
        PROVE  IInv'
    <2> USE <1>2 DEF ProviderStops, MoveTurn
    <2>1. \A d \in Calls : SameCall(d)
      BY DEF SameCall
    <2>2. ASSUME NEW n \in Turns
          PROVE  TurnInv(n)'
      BY DEF IInv, TurnInv, InProgress, TypeOK
    <2>. QED
      BY <2>1, <2>2, CallFrame DEF IInv
  <1>3. ASSUME NEW m \in Turns, Abort(m)
        PROVE  IInv'
    <2> USE <1>3 DEF Abort
    <2>1. ASSUME NEW d \in Calls
          PROVE  CallInv(d)'
      BY DEF IInv, CallInv, RowPhases, CallStates, TypeOK
    <2>. QED
      BY <2>1, TurnFrame DEF IInv
  <1>4. ASSUME NEW m \in Turns, Interrupt(m)
        PROVE  IInv'
    <2>1. \A d \in Calls : SameCall(d)
      BY <1>4 DEF SameCall, Interrupt
    <2>. QED
      BY <1>4, <2>1, CallFrame, TurnFrame DEF IInv, Interrupt
  <1>5. ASSUME NEW m \in Turns, NEW c \in Calls, Propose(m, c)
        PROVE  IInv'
    <2> USE <1>5 DEF Propose, MoveCall
    <2>1. \A d \in Calls \ {c} : SameCall(d)
      BY DEF SameCall, TypeOK
    <2>2. CallInv(c)'
      BY ConstantsAssumption DEF IInv, CallInv, TurnInv, RowPhases, CallStates, TypeOK
    <2>. QED
      BY <2>1, <2>2, CallFrame, TurnFrame DEF IInv
  <1>6. ASSUME NEW c \in Calls, NEW a \in {"yes", "no"}, ResolveApproval(c, a)
        PROVE  IInv'
    <2> USE <1>6 DEF ResolveApproval
    <2>1. \A d \in Calls \ {c} : SameCall(d)
      BY DEF SameCall, TypeOK
    <2>2. CallInv(c)'
      BY DEF IInv, CallInv, RowPhases, CallStates, TypeOK
    <2>. QED
      BY <2>1, <2>2, CallFrame, TurnFrame DEF IInv
  <1>7. ASSUME NEW k \in Conns, TogglePolicy(k)
        PROVE  IInv'
    <2>1. \A d \in Calls : SameCall(d)
      BY <1>7 DEF SameCall, TogglePolicy
    <2>. QED
      BY <1>7, <2>1, CallFrame, TurnFrame DEF IInv, TogglePolicy
  <1>8. CASE UNCHANGED vars
    <2>1. \A d \in Calls : SameCall(d)
      BY <1>8 DEF SameCall
    <2>. QED
      BY <1>8, <2>1, CallFrame, TurnFrame DEF IInv
  <1>9. ASSUME NEW t \in Threads, DeleteThread(t)
        PROVE  IInv'
    BY <1>9, DropInv DEF DeleteThread
  <1>10. ASSUME NEW k \in Conns, DeleteConnection(k)
        PROVE  IInv'
    <2>1. {t \in threads : ConnOf[t] = k} \in SUBSET Threads
      BY DEF TypeOK
    <2>. QED
      BY <1>10, <2>1, DropInv DEF DeleteConnection
  <1>. QED
    BY <1>1, <1>2, <1>3, <1>4, <1>5, <1>6, <1>7, <1>8, <1>9, <1>10,
       TurnStepInv, CallStepInv, CrashInv DEF Next

\* IInv holds throughout: what each call has been granted and answered agrees
\* with its row of approvals, and a turn in progress holds its thread.
THEOREM Invariance == Spec => [](TypeOK /\ IInv)
  BY InitType, InitInv, NextType, NextInv, PTL DEF Spec

\* A write answered no, by the user, an abort or the timeout, never runs.
THEOREM NoIsFinal == Spec => []NoMeansNo
  <1>1. TypeOK /\ IInv => NoMeansNo
    BY DEF TypeOK, IInv, CallInv, NoMeansNo
  <1>. QED
    BY <1>1, Invariance, PTL

\* What sqlite says of a proposed write is true of the user's database.
THEOREM RowsAreTrue == Spec => []RowTellsTheTruth
  <1>1. TypeOK /\ IInv => RowTellsTheTruth
    BY DEF TypeOK, IInv, CallInv, RowTellsTheTruth, Statuses
  <1>. QED
    BY <1>1, Invariance, PTL

\* A thread has at most one turn in progress.
THEOREM OneTurn == Spec => []OneTurnPerThread
  <1>1. IInv => OneTurnPerThread
    BY DEF IInv, TurnInv, OneTurnPerThread
  <1>. QED
    BY <1>1, Invariance, PTL

-----------------------------------------------------------------------------
(* Answers and finished rows never change *)

StaysFinal(c) ==
  /\ decision[c] # "none" => decision'[c] = decision[c]
  /\ approval[c] \in Terminal => approval'[c] \in {approval[c], "none"}

LEMMA CallStepFinal ==
  ASSUME TypeOK, IInv, NEW c \in Calls, CallStep(c), NEW d \in Calls
  PROVE  StaysFinal(d)
  <1> USE DEF StaysFinal, TypeOK, MoveCall, OnlyCallMoves, EndWait, storeVars
  <1>1. CASE CreateApproval(c)
    BY <1>1 DEF CreateApproval, IInv, CallInv, RowPhases, Terminal
  <1>2. CASE RecordRejected(c) \/ RecordApproved(c) \/ RecordResult(c)
    <2>1. call[c] \in {"rejecting", "approving", "record"}
      BY <1>2 DEF RecordRejected, RecordApproved, RecordResult, RecordStatus
    <2>2. approval[c] \notin Terminal
      BY <2>1 DEF IInv, CallInv, RowPhases, Terminal
    <2>. QED
      BY <1>2, <2>2
      DEF RecordRejected, RecordApproved, RecordResult, RecordStatus, SetStatus
  <1>3. CASE UNCHANGED <<decision, approval>>
    BY <1>3
  <1>. QED
    BY <1>1, <1>2, <1>3
    DEF CallStep, StartCall, ReadPolicy, AnnounceRequest, Wake, Timeout, Settle,
        ShowRejected, ShowApproved, ShowResult, ShowStatus, GateLoad, GateCheck,
        AcquireDriver, Refuse, RunWrite

LEMMA NextFinal ==
  ASSUME TypeOK, IInv, [Next]_vars, NEW d \in Calls
  PROVE  StaysFinal(d)
  <1> USE DEF StaysFinal, TypeOK, OnlyTurnMoves, vars, storeVars, turnVars, callVars
  <1>1. ASSUME NEW m \in Turns, TurnStep(m)
        PROVE  StaysFinal(d)
    BY <1>1 DEF TurnStep, SendFork, SendDies, PersistUser, StartProvider, NoBinary,
       FinishTurn, PersistAssistant, AnnounceDone, AnnounceCrash, ReleaseClaim
  <1>2. ASSUME NEW m \in Turns, NEW t \in Threads, SendClaim(m, t)
        PROVE  StaysFinal(d)
    BY <1>2 DEF SendClaim, Free
  <1>3. ASSUME NEW m \in Turns, ProviderStops(m) \/ Abort(m) \/ Interrupt(m)
        PROVE  StaysFinal(d)
    BY <1>3 DEF ProviderStops, Abort, Interrupt
  <1>4. ASSUME NEW m \in Turns, NEW c \in Calls, Propose(m, c)
        PROVE  StaysFinal(d)
    BY <1>4 DEF Propose
  <1>5. ASSUME NEW c \in Calls, NEW a \in {"yes", "no"}, ResolveApproval(c, a)
        PROVE  StaysFinal(d)
    BY <1>5 DEF ResolveApproval
  <1>6. ASSUME NEW gone, DropThreads(gone)
        PROVE  StaysFinal(d)
    BY <1>6 DEF DropThreads
  <1>7. ASSUME NEW k \in Conns, TogglePolicy(k)
        PROVE  StaysFinal(d)
    BY <1>7 DEF TogglePolicy
  <1>8. CASE Crash
    BY <1>8 DEF Crash
  <1>9. CASE UNCHANGED vars
    BY <1>9
  <1>. QED
    BY <1>1, <1>2, <1>3, <1>4, <1>5, <1>6, <1>7, <1>8, <1>9, CallStepFinal
    DEF Next, DeleteThread, DeleteConnection

\* The first answer to an approval and the last status of its row are final.
THEOREM FinalDecisions == Spec => DecisionsAreFinal
  <1>1. TypeOK /\ IInv /\ [Next]_vars =>
          [\A c \in Calls : /\ decision[c] # "none" => decision'[c] = decision[c]
                            /\ approval[c] \in Terminal =>
                                 approval'[c] \in {approval[c], "none"}]_vars
    BY NextFinal DEF StaysFinal
  <1>. QED
    BY <1>1, Invariance, PTL DEF Spec, DecisionsAreFinal

-----------------------------------------------------------------------------
(* AgentTurn implements AiWriteAuthorization *)

\* Where a proposed write would go, once its turn has been claimed.
TargetOf == [c \in Calls |-> IF callTurn[c] = NoTurn THEN NoConn
                             ELSE ConnOf[ThreadOf(c)]]

SameTargets == TargetOf' = TargetOf

LEMMA TargetFrame ==
  ASSUME UNCHANGED <<callTurn, turnThread>>
  PROVE  SameTargets
  BY DEF SameTargets, TargetOf, ThreadOf

LEMMA HasTarget ==
  ASSUME TypeOK, IInv, NEW c \in Calls, call[c] # "idle"
  PROVE  /\ ThreadOf(c) \in Threads
         /\ TargetOf[c] = ConnOf[ThreadOf(c)]
         /\ TargetOf[c] \in Conns
  BY ConstantsAssumption DEF TypeOK, IInv, CallInv, TargetOf, ThreadOf

LEMMA InitRefines == Init => Authorization!Init
  BY ConstantsAssumption DEF Init, Authorization!Init

\* Only these steps of a call mean something to the promise.
LEMMA CallStepRefines ==
  ASSUME TypeOK, IInv, NEW c \in Calls, CallStep(c)
  PROVE  [Authorization!Next]_(Authorization!vars)
  <1> USE DEF OnlyCallMoves, EndWait, Allowed
  <1> DEFINE Stutter == UNCHANGED <<readOnlyForAi, callTurn, turnThread, carded,
                                    outcome, grant, applied>>
  <1>1. UNCHANGED <<readOnlyForAi, callTurn, turnThread>>
    BY DEF CallStep, StartCall, ReadPolicy, CreateApproval, AnnounceRequest, Wake,
       Timeout, Settle, RecordRejected, RecordApproved, RecordResult, ShowRejected,
       ShowApproved, ShowResult, RecordStatus, ShowStatus, GateLoad, GateCheck,
       AcquireDriver, Refuse, RunWrite, storeVars, turnVars
  <1>2. SameTargets
    BY <1>1, TargetFrame
  <1>3. call[c] # "idle" => TargetOf[c] # NoConn
    BY HasTarget, ConstantsAssumption
  <1>4. CallInv(c)
    BY DEF IInv
  <1>5. CASE Stutter
    BY <1>2, <1>5 DEF Authorization!vars, SameTargets, TargetOf
  <1>6. CASE ReadPolicy(c)
    <2>1. CASE carded' = carded \cup {c}
      <3>1. Authorization!Card(c)
        BY <1>1, <1>2, <1>3, <1>4, <1>6, <2>1
        DEF ReadPolicy, MoveCall, CallInv, Authorization!Card, SameTargets, TargetOf
      <3>. QED
        BY <3>1 DEF Authorization!Next
    <2>2. CASE carded' = carded
      BY <1>1, <1>5, <1>6, <2>2 DEF ReadPolicy
    <2>. QED
      BY <1>6, <2>1, <2>2 DEF ReadPolicy
  <1>7. CASE Wake(c) \/ Timeout(c)
    <2>1. /\ c \in carded
          /\ outcome[c] = "none"
      BY <1>4, <1>7 DEF CallInv, Wake, Timeout, MoveCall
    <2>2. \E a \in {"yes", "no"} : outcome' = [outcome EXCEPT ![c] = a]
      BY <1>7 DEF Wake, Timeout, TypeOK, Answers
    <2>3. Authorization!Answer(c)
      BY <1>1, <1>2, <1>7, <2>1, <2>2
      DEF Wake, Timeout, Authorization!Answer, SameTargets, TargetOf, storeVars
    <2>. QED
      BY <2>3 DEF Authorization!Next
  <1>8. CASE GateLoad(c)
    <2>1. CASE grant' = [grant EXCEPT ![c] = "policy"]
      <3>1. CASE UNCHANGED grant
        BY <1>1, <1>5, <1>8, <3>1 DEF GateLoad, Refuse
      <3>2. CASE ~ UNCHANGED grant
        <4>1. call[c] = "gate" /\ c \notin carded /\ ~ readOnlyForAi[ConnOf[ThreadOf(c)]]
          BY <1>8, <3>2 DEF GateLoad, Refuse, MoveCall
        <4>2. Authorization!GrantByPolicy(c)
          BY <1>1, <1>2, <1>3, <1>4, <1>8, <2>1, <4>1, HasTarget
          DEF GateLoad, Refuse, CallInv, Authorization!GrantByPolicy, SameTargets, TargetOf
        <4>. QED
          BY <4>2 DEF Authorization!Next
      <3>. QED
        BY <3>1, <3>2
    <2>2. CASE UNCHANGED grant
      BY <1>1, <1>5, <1>8, <2>2 DEF GateLoad, Refuse
    <2>. QED
      BY <1>8, <2>1, <2>2 DEF GateLoad, Refuse
  <1>9. CASE GateCheck(c)
    <2>1. CASE Refuse(c, "check")
      BY <1>1, <1>5, <2>1 DEF Refuse
    <2>2. CASE ~ Refuse(c, "check")
      <3>1. Authorization!GrantByUser(c)
        BY <1>1, <1>2, <1>4, <1>9, <2>2
        DEF GateCheck, MoveCall, CallInv, Authorization!GrantByUser, SameTargets, TargetOf
      <3>. QED
        BY <3>1 DEF Authorization!Next
    <2>. QED
      BY <2>1, <2>2
  <1>10. CASE RunWrite(c)
    <2>1. grant[c] # "none" /\ c \notin applied
      BY <1>4, <1>10 DEF RunWrite, MoveCall, CallInv
    <2>2. \E S \in SUBSET {d \in Calls : grant[d] # "none" /\ d \notin applied} :
            applied' = applied \cup S
      <3>1. CASE applied' = applied
        <4>1. {} \in SUBSET {d \in Calls : grant[d] # "none" /\ d \notin applied}
          OBVIOUS
        <4>. QED
          BY <3>1, <4>1
      <3>2. CASE applied' = applied \cup {c}
        <4>1. {c} \in SUBSET {d \in Calls : grant[d] # "none" /\ d \notin applied}
          BY <2>1
        <4>. QED
          BY <3>2, <4>1
      <3>. QED
        BY <1>10, <3>1, <3>2 DEF RunWrite
    <2>3. Authorization!Run
      BY <1>1, <1>2, <1>10, <2>2
      DEF RunWrite, Authorization!Run, SameTargets, TargetOf
    <2>. QED
      BY <2>3 DEF Authorization!Next
  <1>. QED
    BY <1>1, <1>5, <1>6, <1>7, <1>8, <1>9, <1>10
    DEF CallStep, StartCall, CreateApproval, AnnounceRequest, Settle, RecordRejected,
        RecordApproved, RecordResult, ShowRejected, ShowApproved, ShowResult,
        RecordStatus, ShowStatus, AcquireDriver, Refuse

LEMMA NextRefines ==
  ASSUME TypeOK, IInv, [Next]_vars
  PROVE  [Authorization!Next]_(Authorization!vars)
  <1> USE DEF OnlyTurnMoves, vars, storeVars, turnVars, callVars
  <1> DEFINE Unseen == UNCHANGED <<carded, outcome, grant, applied>>
  <1>1. CASE Unseen /\ SameTargets /\ UNCHANGED readOnlyForAi
    BY <1>1 DEF Authorization!vars, SameTargets, TargetOf
  <1>2. ASSUME NEW m \in Turns, TurnStep(m)
        PROVE  Unseen /\ UNCHANGED <<readOnlyForAi, callTurn, turnThread>>
    BY <1>2 DEF TurnStep, SendFork, SendDies, PersistUser, StartProvider, NoBinary,
       FinishTurn, PersistAssistant, AnnounceDone, AnnounceCrash, ReleaseClaim
  <1>3. ASSUME NEW m \in Turns, NEW t \in Threads, SendClaim(m, t)
        PROVE  Unseen /\ SameTargets /\ UNCHANGED readOnlyForAi
    <2>1. \A d \in Calls : callTurn[d] # m
      BY <1>3, ConstantsAssumption DEF SendClaim, Free, MoveTurn, TypeOK, IInv, CallInv, TurnInv
    <2>2. UNCHANGED callTurn /\ turnThread' = [turnThread EXCEPT ![m] = t]
      BY <1>3 DEF SendClaim, Free
    <2>3. \A d \in Calls : turnThread'[callTurn'[d]] = turnThread[callTurn[d]] \/ callTurn[d] = NoTurn
      BY <2>1, <2>2 DEF TypeOK
    <2>4. SameTargets
      BY <2>2, <2>3 DEF SameTargets, TargetOf, ThreadOf
    <2>. QED
      BY <1>3, <2>4 DEF SendClaim, Free
  <1>4. ASSUME NEW m \in Turns, ProviderStops(m) \/ Abort(m) \/ Interrupt(m)
        PROVE  Unseen /\ UNCHANGED <<readOnlyForAi, callTurn, turnThread>>
    BY <1>4 DEF ProviderStops, Abort, Interrupt
  <1>5. ASSUME NEW m \in Turns, NEW c \in Calls, Propose(m, c)
        PROVE  Authorization!Next
    <2>1. turnThread[m] \in Threads
      BY <1>5 DEF Propose, TypeOK, IInv, TurnInv
    <2>2. callTurn[c] = NoTurn /\ callTurn' = [callTurn EXCEPT ![c] = m]
      BY <1>5 DEF Propose, MoveCall, IInv, CallInv
    <2>3. TargetOf[c] = NoConn
      BY <2>2 DEF TargetOf
    <2>4. TargetOf' = [TargetOf EXCEPT ![c] = ConnOf[turnThread[m]]]
      <3>1. \A d \in Calls : callTurn'[d] = IF d = c THEN m ELSE callTurn[d]
        BY <2>2 DEF TypeOK
      <3>2. UNCHANGED turnThread /\ m # NoTurn
        BY <1>5, ConstantsAssumption DEF Propose
      <3>3. TargetOf' = [d \in Calls |-> IF d = c THEN ConnOf[turnThread[m]] ELSE TargetOf[d]]
        BY <3>1, <3>2 DEF TargetOf, ThreadOf
      <3>. QED
        BY <3>3 DEF TargetOf
    <2>5. \E k \in Conns : TargetOf' = [TargetOf EXCEPT ![c] = k]
      BY <2>1, <2>4, ConstantsAssumption
    <2>6. Authorization!Propose(c)
      BY <1>5, <2>3, <2>5 DEF Propose, Authorization!Propose, TargetOf
    <2>. QED
      BY <2>6 DEF Authorization!Next
  <1>6. ASSUME NEW c \in Calls, NEW a \in {"yes", "no"}, ResolveApproval(c, a)
        PROVE  Unseen /\ UNCHANGED <<readOnlyForAi, callTurn, turnThread>>
    BY <1>6 DEF ResolveApproval
  <1>7. ASSUME NEW gone, DropThreads(gone)
        PROVE  Unseen /\ UNCHANGED <<readOnlyForAi, callTurn, turnThread>>
    BY <1>7 DEF DropThreads
  <1>8. ASSUME NEW k \in Conns, TogglePolicy(k)
        PROVE  Authorization!Next
    <2>1. readOnlyForAi' \in [Conns -> BOOLEAN]
      BY <1>8 DEF TogglePolicy, TypeOK
    <2>2. SameTargets
      BY <1>8, TargetFrame DEF TogglePolicy
    <2>3. Authorization!SetPolicy
      BY <1>8, <2>1, <2>2 DEF TogglePolicy, Authorization!SetPolicy, SameTargets, TargetOf
    <2>. QED
      BY <2>3 DEF Authorization!Next
  <1>9. CASE Crash
    <2>1. SameTargets /\ UNCHANGED <<readOnlyForAi, carded, outcome, grant>>
      BY <1>9, TargetFrame DEF Crash
    <2>2. PICK S \in SUBSET {d \in Calls : call[d] = "run"} : applied' = applied \cup S
      BY <1>9 DEF Crash
    <2>3. S \in SUBSET {d \in Calls : grant[d] # "none" /\ d \notin applied}
      BY <2>2 DEF IInv, CallInv
    <2>4. Authorization!Run
      BY <2>1, <2>2, <2>3 DEF Authorization!Run, SameTargets, TargetOf
    <2>. QED
      BY <2>4 DEF Authorization!Next
  <1>10. CASE UNCHANGED vars
    BY <1>1, <1>10, TargetFrame
  <1>. QED
    BY <1>1, <1>2, <1>3, <1>4, <1>5, <1>6, <1>7, <1>8, <1>9, <1>10,
       TargetFrame, CallStepRefines
    DEF Next, DeleteThread, DeleteConnection

\* Turns, tool calls, aborts, deletions and crashes do only what the promise
\* about writes from the model allows: one run at most, after one grant.
THEOREM Refinement == Spec => WritesAreAuthorized
  <1>1. Init => Authorization!Init
    BY InitRefines
  <1>2. TypeOK /\ IInv /\ [Next]_vars => [Authorization!Next]_(Authorization!vars)
    BY NextRefines
  <1>. QED
    BY <1>1, <1>2, Invariance, PTL DEF Spec, WritesAreAuthorized, Authorization!Spec
-----------------------------------------------------------------------------
(* What the user is left with after a turn: the cards agree with the rows   *)
(* of approvals, the saved message with the cards, and TurnDone with the    *)
(* saved message.                                                          *)
LEMMA InitJ == Init => JInv
  BY ConstantsAssumption
  DEF Init, JInv, CardInv, MessageInv, CallsOf, Finished, Terminal

\* Nothing CardInv(d) mentions has changed.
SameCard(d) ==
  /\ call'[d] = call[d]
  /\ callTurn'[d] = callTurn[d]
  /\ call[d] = "lost" => turn'[callTurn[d]] = turn[callTurn[d]]
  /\ approval'[d] = approval[d]
  /\ outcome'[d] = outcome[d]
  /\ result'[d] = result[d]
  /\ shown'[d] = shown[d]
  /\ d \in carded' <=> d \in carded
  /\ d \in pendingApprovals' <=> d \in pendingApprovals

LEMMA CardFrame ==
  ASSUME NEW d \in Calls, CardInv(d), SameCard(d)
  PROVE  CardInv(d)'
  BY DEF CardInv, SameCard, Terminal, Verdict

\* Nothing MessageInv(m) mentions has changed but the place of calls that are
\* neither over nor queued.
LEMMA MessageFrame ==
  ASSUME TypeOK, NEW m \in Turns, MessageInv(m),
         UNCHANGED <<turn, turnThread, threads, saved, openCards, barrier, callTurn>>,
         late \subseteq late',
         \A d \in Calls :
           \/ call'[d] = call[d] /\ approval'[d] = approval[d]
           \/ /\ call[d] \notin {"done", "lost"}
              /\ \/ call[d] # "queued" \/ d \in late'
                 \/ turn[callTurn[d]] \notin {"saved", "announced"}
  PROVE  MessageInv(m)'
  BY DEF TypeOK, MessageInv, CallsOf, Finished

\* A step of a tool call keeps its card in line and touches no other.
LEMMA CallStepCard ==
  ASSUME TypeOK, IInv, JInv, NEW c \in Calls, CallStep(c)
  PROVE  JInv'
  <1> USE DEF vars, storeVars, turnVars, callVars, MoveCall, OnlyCallMoves, EndWait
  <1>1. CallInv(c) /\ CardInv(c)
    BY DEF IInv, JInv
  <1>2. CardInv(c)'
    <2> USE <1>1 DEF TypeOK, CallInv, CardInv, RowPhases, Terminal
    <2>1. CASE StartCall(c) \/ ReadPolicy(c)
      BY <2>1 DEF StartCall, ReadPolicy
    <2>2. CASE CreateApproval(c)
      BY <2>2 DEF CreateApproval
    <2>3. CASE AnnounceRequest(c)
      BY <2>3 DEF AnnounceRequest
    <2>4. CASE Wake(c) \/ Timeout(c)
      BY <2>4 DEF Wake, Timeout
    <2>5. CASE Settle(c)
      BY <2>5 DEF Settle
    <2>6. CASE RecordRejected(c)
      BY <2>6 DEF RecordRejected, RecordStatus, SetStatus
    <2>7. CASE RecordApproved(c)
      BY <2>7 DEF RecordApproved, RecordStatus, SetStatus
    <2>8. CASE RecordResult(c)
      BY <2>8 DEF RecordResult, Verdict, RecordStatus, SetStatus
    <2>9. CASE ShowRejected(c) \/ ShowApproved(c) \/ ShowResult(c)
      BY <2>9 DEF ShowRejected, ShowApproved, ShowResult, Verdict, ShowStatus
    <2>10. CASE GateLoad(c) \/ GateCheck(c) \/ AcquireDriver(c)
      BY <2>10 DEF GateLoad, GateCheck, AcquireDriver, Refuse
    <2>11. CASE RunWrite(c)
      BY <2>11 DEF RunWrite
    <2>. QED
      BY <2>1, <2>2, <2>3, <2>4, <2>5, <2>6, <2>7, <2>8, <2>9, <2>10, <2>11 DEF CallStep
  <1>3. /\ UNCHANGED <<turn, turnThread, threads, saved, openCards, barrier, callTurn>>
        /\ late \subseteq late'
        /\ call[c] \notin {"done", "lost"}
        /\ call[c] = "queued" => c \in late' \/ turn[callTurn[c]] \notin {"saved", "announced"}
    BY DEF CallStep, StartCall, ReadPolicy, CreateApproval,
       AnnounceRequest, Wake, Timeout, Settle, RecordRejected, RecordApproved,
       RecordResult, ShowRejected, ShowApproved, ShowResult, RecordStatus,
       ShowStatus, GateLoad, GateCheck, AcquireDriver, Refuse, RunWrite
  <1>4. ASSUME NEW d \in Calls \ {c}
        PROVE  SameCard(d)
    BY DEF TypeOK, SameCard, CallStep, StartCall, ReadPolicy, CreateApproval,
       AnnounceRequest, Wake, Timeout, Settle, RecordRejected, RecordApproved,
       RecordResult, ShowRejected, ShowApproved, ShowResult, RecordStatus,
       ShowStatus, SetStatus, GateLoad, GateCheck, AcquireDriver, Refuse, RunWrite
  <1>5. \A d \in Calls : CardInv(d)'
    BY <1>2, <1>4, CardFrame DEF JInv
  <1>6. ASSUME NEW m \in Turns
        PROVE  MessageInv(m)'
    <2>1. MessageInv(m)
      BY DEF JInv
    <2>. QED
      BY <1>3, <1>4, <2>1, MessageFrame DEF SameCard
  <1>. QED
    BY <1>5, <1>6 DEF JInv

\* A turn has the calls it had.  It saves its message after its barrier is
\* over, and says it is done after it has saved it or had nothing to save.
LEMMA TurnStepMessage ==
  ASSUME TypeOK, IInv, JInv, NEW m \in Turns, TurnStep(m)
  PROVE  JInv'
  <1> USE DEF vars, storeVars, turnVars, callVars, MoveTurn, OnlyTurnMoves, Ended
  <1>1. /\ UNCHANGED <<call, callTurn, late, approval, shown, turnThread, threads, barrier>>
        /\ UNCHANGED <<outcome, result, carded, pendingApprovals>>
        /\ turn[m] # "lost" \/ UNCHANGED turn
        /\ \A n \in Turns \ {m} : turn'[n] = turn[n] /\ openCards'[n] = openCards[n]
        /\ \A n \in Turns \ {m} : n \in saved' <=> n \in saved
    BY DEF TypeOK, TurnStep, SendFork, SendDies, PersistUser, StartProvider, NoBinary,
       FinishTurn, PersistAssistant, AnnounceDone, AnnounceCrash, ReleaseClaim
  <1>2. ASSUME NEW d \in Calls
        PROVE  CardInv(d)'
    <2>1. SameCard(d)
      BY <1>1 DEF SameCard, JInv, CardInv, IInv, CallInv, TypeOK
    <2>. QED
      BY <2>1, CardFrame DEF JInv
  <1>3. ASSUME NEW n \in Turns \ {m}
        PROVE  MessageInv(n)'
    BY <1>1 DEF JInv, MessageInv, CallsOf, Finished
  <1>4. MessageInv(m)'
    <2> USE DEF TypeOK, JInv, MessageInv, CallsOf, Finished
    <2>1. CASE PersistAssistant(m)
      <3>1. \A c \in barrier[m] : call[c] = "done"
        BY <2>1 DEF PersistAssistant, CardInv
      <3>2. \A c \in barrier[m] : shown[c] = "pending" => approval[c] \in {"pending", "none"}
        BY <3>1 DEF CardInv
      <3>3. ~ HasToolPart(m) => \A c \in CallsOf(m) : call[c] = "queued"
        BY DEF HasToolPart
      <3>. QED
        BY <1>1, <2>1, <3>1, <3>2, <3>3 DEF PersistAssistant
    <2>2. CASE NoBinary(m)
      BY <2>2 DEF NoBinary
    <2>3. CASE FinishTurn(m)
      BY <2>3 DEF FinishTurn
    <2>4. CASE AnnounceDone(m)
      BY <2>4 DEF AnnounceDone
    <2>5. CASE SendFork(m) \/ SendDies(m) \/ PersistUser(m) \/ StartProvider(m) \/ AnnounceCrash(m)
      BY <2>5 DEF SendFork, SendDies, PersistUser, StartProvider, AnnounceCrash
    <2>6. CASE ReleaseClaim(m)
      BY <2>6 DEF ReleaseClaim
    <2>. QED
      BY <2>1, <2>2, <2>3, <2>4, <2>5, <2>6 DEF TurnStep
  <1>. QED
    BY <1>2, <1>3, <1>4 DEF JInv

\* A deletion takes rows away; what is left stays true.
LEMMA DropMessage ==
  ASSUME TypeOK, IInv, JInv, NEW gone \in SUBSET Threads, DropThreads(gone)
  PROVE  JInv'
  <1> USE DEF DropThreads, turnVars, callVars
  <1>1. ASSUME NEW d \in Calls
        PROVE  CardInv(d)'
    <2>1. approval'[d] \in {"none", approval[d]}
      BY DEF TypeOK
    <2>. QED
      BY <2>1 DEF JInv, CardInv, Verdict, Terminal
  <1>2. ASSUME NEW m \in Turns
        PROVE  MessageInv(m)'
    <2>1. \A d \in Calls : approval'[d] \in {"none", approval[d]}
      BY DEF TypeOK
    <2>2. openCards'[m] \subseteq openCards[m]
      OBVIOUS
    <2>3. turnThread[m] \in threads' => (m \in saved' <=> m \in saved)
      OBVIOUS
    <2>. QED
      BY <2>1, <2>2, <2>3 DEF JInv, MessageInv, CallsOf, Finished
  <1>. QED
    BY <1>1, <1>2 DEF JInv

LEMMA CrashMessage ==
  ASSUME TypeOK, IInv, JInv, Crash
  PROVE  JInv'
  <1> USE DEF Crash, storeVars
  <1>1. ASSUME NEW d \in Calls
        PROVE  CardInv(d)'
    BY DEF IInv, CallInv, TurnInv, JInv, CardInv, Terminal, Verdict, TypeOK
  <1>2. ASSUME NEW m \in Turns
        PROVE  MessageInv(m)'
    BY DEF IInv, TurnInv, JInv, MessageInv, CallsOf, Finished, TypeOK
  <1>. QED
    BY <1>1, <1>2 DEF JInv

\* JInv is inductive, given IInv.
LEMMA NextJ ==
  ASSUME TypeOK, IInv, JInv, [Next]_vars
  PROVE  JInv'
  <1> USE DEF vars, storeVars, turnVars, callVars
  <1>1. ASSUME NEW m \in Turns, NEW t \in Threads, SendClaim(m, t)
        PROVE  JInv'
    <2> USE <1>1 DEF SendClaim, MoveTurn
    <2>1. ASSUME NEW d \in Calls
          PROVE  CardInv(d)'
      <3>1. SameCard(d)
        BY DEF SameCard, TypeOK, IInv, CallInv, JInv, CardInv
      <3>. QED
        BY <3>1, CardFrame DEF JInv
    <2>2. CallsOf(m) = {}
      BY ConstantsAssumption DEF CallsOf, IInv, CallInv, TurnInv, TypeOK
    <2>3. ASSUME NEW n \in Turns
          PROVE  MessageInv(n)'
      BY <2>2 DEF JInv, MessageInv, CallsOf, Finished, TypeOK
    <2>. QED
      BY <2>1, <2>3 DEF JInv
  <1>2. ASSUME NEW m \in Turns, ProviderStops(m)
        PROVE  JInv'
    <2> USE <1>2 DEF ProviderStops, MoveTurn
    <2>1. ASSUME NEW d \in Calls
          PROVE  CardInv(d)'
      <3>1. SameCard(d)
        BY DEF SameCard, TypeOK, JInv, CardInv
      <3>. QED
        BY <3>1, CardFrame DEF JInv
    <2>2. ASSUME NEW n \in Turns
          PROVE  MessageInv(n)'
      BY DEF JInv, MessageInv, CallsOf, Finished, TypeOK
    <2>. QED
      BY <2>1, <2>2 DEF JInv
  <1>3. ASSUME NEW m \in Turns, Abort(m) \/ Interrupt(m)
        PROVE  JInv'
    BY <1>3 DEF Abort, Interrupt, JInv, CardInv, MessageInv, CallsOf, Finished, Verdict, TypeOK
  <1>4. ASSUME NEW m \in Turns, NEW c \in Calls, Propose(m, c)
        PROVE  JInv'
    <2> USE <1>4 DEF Propose, MoveCall
    <2>1. \A d \in Calls \ {c} : SameCard(d)
      BY DEF SameCard, TypeOK
    <2>2. CardInv(c)'
      BY DEF IInv, CallInv, JInv, CardInv, RowPhases, Terminal, TypeOK
    <2>3. ASSUME NEW n \in Turns
          PROVE  MessageInv(n)'
      <3>1. turn[m] \in {"running", "settled"}
        OBVIOUS
      <3>2. callTurn[c] = NoTurn /\ callTurn' = [callTurn EXCEPT ![c] = m]
        BY DEF IInv, CallInv
      <3>3. callTurn[c] # n
        BY <3>2, ConstantsAssumption
      <3>4. c \notin barrier[n]
        BY <3>3 DEF JInv, MessageInv, CallsOf
      <3>5. \A d \in barrier[n] : callTurn'[d] = callTurn[d] /\ call'[d] = call[d]
        BY <3>4 DEF TypeOK
      <3>6. n # m => CallsOf(n)' = CallsOf(n) /\ \A d \in CallsOf(n) : call'[d] = call[d]
        BY <3>2, <3>3 DEF CallsOf, TypeOK
      <3>. QED
        BY <3>1, <3>5, <3>6 DEF JInv, MessageInv, CallsOf, Finished, TypeOK
    <2>. QED
      BY <2>1, <2>2, <2>3, CardFrame DEF JInv
  <1>5. ASSUME NEW c \in Calls, NEW a \in {"yes", "no"}, ResolveApproval(c, a)
        PROVE  JInv'
    BY <1>5 DEF ResolveApproval, JInv, CardInv, MessageInv, CallsOf, Finished, Verdict
  <1>6. ASSUME NEW k \in Conns, TogglePolicy(k)
        PROVE  JInv'
    BY <1>6 DEF TogglePolicy, JInv, CardInv, MessageInv, CallsOf, Finished, Verdict
  <1>7. CASE UNCHANGED vars
    BY <1>7 DEF JInv, CardInv, MessageInv, CallsOf, Finished, Verdict
  <1>8. ASSUME NEW t \in Threads, DeleteThread(t)
        PROVE  JInv'
    BY <1>8, DropMessage DEF DeleteThread
  <1>9. ASSUME NEW k \in Conns, DeleteConnection(k)
        PROVE  JInv'
    <2>1. {t \in threads : ConnOf[t] = k} \in SUBSET Threads
      BY DEF TypeOK
    <2>. QED
      BY <1>9, <2>1, DropMessage DEF DeleteConnection
  <1>. QED
    BY <1>1, <1>2, <1>3, <1>4, <1>5, <1>6, <1>7, <1>8, <1>9,
       TurnStepMessage, CallStepCard, CrashMessage DEF Next

\* JInv holds throughout: cards, rows and saved messages stay in line.
THEOREM MessageInvariance == Spec => [](TypeOK /\ IInv /\ JInv)
  BY InitType, InitInv, InitJ, NextType, NextInv, NextJ, PTL DEF Spec

\* No card shows a status its row has not reached.
THEOREM CardsFollowRows == Spec => []CardFollowsRow
  <1>1. TypeOK /\ JInv => CardFollowsRow
    BY DEF TypeOK, JInv, CardInv, CardFollowsRow, Terminal
  <1>. QED
    BY <1>1, MessageInvariance, PTL

\* The message a codex turn saves shows no card of its barrier as pending that
\* its row has settled.
THEOREM SavedCardsAreSettled == Spec => []CodexSavesSettledCards
  <1>1. TypeOK /\ JInv => CodexSavesSettledCards
    BY DEF TypeOK, JInv, MessageInv, CodexSavesSettledCards
  <1>. QED
    BY <1>1, MessageInvariance, PTL

\* An approval that can still be answered has its call waiting.
THEOREM PendingIsAwaited == Spec => []PendingHasWaiter
  <1>1. TypeOK /\ IInv /\ JInv => PendingHasWaiter
    BY DEF TypeOK, IInv, CallInv, RowPhases, JInv, CardInv, PendingHasWaiter
  <1>. QED
    BY <1>1, MessageInvariance, PTL

\* TurnDone comes after the assistant message is in sqlite.
THEOREM DoneIsSaved == Spec => []DoneImpliesSaved
  <1>1. JInv => DoneImpliesSaved
    BY DEF JInv, MessageInv, DoneImpliesSaved
  <1>. QED
    BY <1>1, MessageInvariance, PTL
=============================================================================
