---------------------------- MODULE SqlRunProofs ----------------------------
(***************************************************************************)
(* Theorems about SqlRun.  The invariants that matter are not inductive:   *)
(* whether a session may be given back, or a KILL may be sent, depends on  *)
(* who holds it and where that run's fiber or promise is.  FiberInv says   *)
(* what each place of a run implies, SessionInv the same of a session, and *)
(* OutcomeInv when a result is final.  ForkedInv and ResultInv add what    *)
(* progress and the refinement of SqlExecution need.                       *)
(***************************************************************************)
EXTENDS SqlRun, SequenceTheorems, TLAPS

\* Where a read holds its session, and where a write does.
ReadHolds(r)  == fiber[r] \in {"begin", "read", "kill", "unwind"}
                 \/ (fiber[r] = "types" /\ request[r] # "write")
WriteHolds(r) == writer[r] \in {"exec", "commit", "rollback"}

FiberInv(r) ==
  /\ fiber[r] \in {"connect", "begin", "read", "kill", "unwind"} => request[r] \in {"select", "hidden"}
  /\ fiber[r] = "types" => request[r] \in {"select", "hidden", "write"}
  /\ fiber[r] = "write" \/ writer[r] # "none" => request[r] = "write"
  /\ ReadHolds(r) \/ WriteHolds(r) => Holds(r)
  /\ fiber[r] \in {"read", "kill"} \/ (fiber[r] = "types" /\ request[r] # "write") => tx[pid[r]] = "read"
  /\ fiber[r] = "types" /\ request[r] = "write" => writer[r] = "done"
  /\ fiber[r] = "kill" \/ exit[r] = "canceled" => intr[r]
  /\ writer[r] = "done" \/ (exit[r] = "ok" /\ request[r] = "write") => r \in changed
  /\ r \in changed => request[r] = "write"
  /\ r \in killed => intr[r]

SessionInv(s) ==
  /\ holder[s] = NoRun => tx[s] = "none" /\ s \notin busy
  /\ holder[s] # NoRun => pid[holder[s]] = s /\ (ReadHolds(holder[s]) \/ WriteHolds(holder[s]))
  /\ s \in busy => tx[s] = "read" /\ fiber[holder[s]] \in {"read", "kill", "unwind"}

Settled(r) == fiber[r] \in {"none", "ended"}

OutcomeInv(r) ==
  /\ pc[r] = "idle" => request[r] = "none" /\ exit[r] = "none"
  /\ pc[r] \in {"idle", "acquire"} => fiber[r] = "none"
  /\ pc[r] \in {"record", "done"} => Settled(r)
  /\ history[r] # "none" => Settled(r) /\ pc[r] \in {"done", "gone"} /\ history[r] = exit[r]
  /\ answer[r] # "none" => pc[r] = "done"
  /\ answer[r] # "none" /\ history[r] # "none" => answer[r] = exit[r]
  /\ answer[r] \in {"ok", "canceled"} => answer[r] = exit[r]
  /\ fiber[r] \in {"none", "start"} => writer[r] = "none"

CancelInv(c) == cancel[c] = "returned" => fiber[target[c]] = "ended"

IInv ==
  /\ TypeOK
  /\ \A r \in Runs : FiberInv(r) /\ OutcomeInv(r)
  /\ \A s \in Sessions : SessionInv(s)
  /\ \A c \in Cancels : CancelInv(c)

-----------------------------------------------------------------------------
(* Stacks of fibers.                                                       *)

OnStack(q, r) == \E i \in DOMAIN q : q[i] = r
Single(q)     == \A i, j \in DOMAIN q : q[i] = q[j] => i = j

\* What the splice of drop leaves.
LEMMA DropProperties ==
  ASSUME NEW q \in Seq(Runs), NEW r
  PROVE  /\ Without(q, r) \in Seq(Runs)
         /\ Single(q) => /\ Single(Without(q, r))
                         /\ \A x : OnStack(Without(q, r), x) <=> OnStack(q, x) /\ x # r
  <1>1. CASE ~ OnStack(q, r)
    BY <1>1 DEF Without, OnStack
  <1>2. CASE OnStack(q, r)
    <2> DEFINE k == CHOOSE i \in DOMAIN q : q[i] = r
               p == RemoveAt(q, k)
    <2>1. k \in 1 .. Len(q) /\ q[k] = r
      BY <1>2 DEF OnStack
    <2>2. Without(q, r) = p
      BY <1>2 DEF Without, OnStack
    <2> HIDE DEF k
    <2>3. /\ p \in Seq(Runs)
          /\ Len(p) = Len(q) - 1
          /\ \A j \in 1 .. Len(p) : p[j] = IF j < k THEN q[j] ELSE q[j + 1]
      <3> DEFINE a == SubSeq(q, 1, k - 1)
                 b == SubSeq(q, k + 1, Len(q))
      <3>0. Len(q) \in Nat /\ \A i \in 1 .. Len(q) : q[i] \in Runs
        OBVIOUS
      <3>1. a \in Seq(Runs) /\ Len(a) = k - 1 /\ \A i \in 1 .. k - 1 : a[i] = q[i]
        <4>1. \A i \in 1 .. k - 1 : q[i] \in Runs
          BY <2>1, <3>0
        <4>. QED  BY <4>1, <2>1, <3>0, SubSeqProperties
      <3>2. b \in Seq(Runs) /\ Len(b) = Len(q) - k /\ \A i \in 1 .. Len(q) - k : b[i] = q[k + i]
        <4>1. \A i \in k + 1 .. Len(q) : q[i] \in Runs
          BY <2>1, <3>0
        <4>. QED  BY <4>1, <2>1, <3>0, SubSeqProperties
      <3>3. p = a \o b
        BY DEF RemoveAt
      <3> HIDE DEF a, b, p
      <3>4. /\ a \o b \in Seq(Runs)
            /\ Len(a \o b) = Len(a) + Len(b)
            /\ \A i \in 1 .. Len(a) + Len(b) : (a \o b)[i] = IF i <= Len(a) THEN a[i] ELSE b[i - Len(a)]
        BY <3>1, <3>2, ConcatProperties
      <3>5. p \in Seq(Runs) /\ Len(p) = Len(q) - 1
        BY <2>1, <3>0, <3>1, <3>2, <3>3, <3>4
      <3>6. ASSUME NEW j \in 1 .. Len(q) - 1 PROVE p[j] = IF j < k THEN q[j] ELSE q[j + 1]
        <4>1. CASE j < k
          BY <2>1, <3>0, <3>1, <3>2, <3>3, <3>4, <4>1
        <4>2. CASE j >= k
          <5>1. /\ p[j] = b[j - (k - 1)] /\ j - (k - 1) \in 1 .. Len(q) - k
                /\ k + (j - (k - 1)) = j + 1
            BY <2>1, <3>0, <3>1, <3>2, <3>3, <3>4, <4>2
          <5>2. b[j - (k - 1)] = q[k + (j - (k - 1))]
            BY <3>2, <5>1
          <5>. QED  BY <2>1, <3>0, <4>2, <5>1, <5>2
        <4>. QED  BY <2>1, <3>0, <4>1, <4>2
      <3>. QED  BY <3>5, <3>6
    <2> HIDE DEF p
    <2> DEFINE at(x) == IF x < k THEN x ELSE x + 1
    <2>4. \A x \in DOMAIN p : /\ x \in Int /\ at(x) \in DOMAIN q
                             /\ at(x) # k /\ p[x] = q[at(x)]
      BY <2>1, <2>3
    <2>5. ASSUME Single(q) PROVE Single(p)
      <3>1. ASSUME NEW i \in DOMAIN p, NEW j \in DOMAIN p, p[i] = p[j] PROVE i = j
        <4>1. at(i) = at(j)
          BY <2>4, <2>5, <3>1 DEF Single
        <4>. QED  BY <2>1, <2>4, <4>1
      <3>. QED  BY <3>1 DEF Single
    <2>6. ASSUME Single(q), NEW x PROVE OnStack(p, x) <=> OnStack(q, x) /\ x # r
      <3>1. ASSUME NEW j \in DOMAIN p, p[j] = x PROVE OnStack(q, x) /\ x # r
        <4>1. at(j) \in DOMAIN q /\ at(j) # k /\ q[at(j)] = x
          BY <2>4, <3>1
        <4> HIDE DEF at
        <4>2. q[at(j)] # q[k]
          BY <2>1, <2>6, <4>1 DEF Single
        <4>. QED  BY <2>1, <4>1, <4>2 DEF OnStack
      <3>2. ASSUME NEW i \in DOMAIN q, q[i] = x, x # r PROVE OnStack(p, x)
        <4>1. CASE i < k
          BY <2>1, <2>3, <3>2, <4>1 DEF OnStack
        <4>2. CASE i > k
          <5>1. i - 1 \in 1 .. Len(p) /\ p[i - 1] = q[i]
            BY <2>1, <2>3, <3>2, <4>2
          <5>. QED  BY <5>1, <2>3, <3>2 DEF OnStack
        <4>. QED  BY <2>1, <3>2, <4>1, <4>2
      <3>. QED  BY <3>1, <3>2 DEF OnStack
    <2>. QED  BY <2>2, <2>3, <2>5, <2>6
  <1>. QED  BY <1>1, <1>2

\* The pop of cancel.
LEMMA PopProperties ==
  ASSUME NEW q \in Seq(Runs), q # <<>>
  PROVE  /\ Last(q) \in Runs /\ OnStack(q, Last(q)) /\ Front(q) \in Seq(Runs)
         /\ Single(q) => /\ Single(Front(q))
                         /\ \A x : OnStack(Front(q), x) <=> OnStack(q, x) /\ x # Last(q)
  <1>0. Len(q) \in Nat \ {0} /\ DOMAIN q = 1 .. Len(q) /\ \A i \in 1 .. Len(q) : q[i] \in Runs
    BY EmptySeq
  <1>1. Len(q) \in DOMAIN q /\ Last(q) = q[Len(q)]
    BY <1>0 DEF Last
  <1>2. /\ Front(q) \in Seq(Runs)
        /\ Len(Front(q)) = Len(q) - 1
        /\ \A i \in 1 .. Len(q) - 1 : Front(q)[i] = q[i]
    <2>1. \A i \in 1 .. Len(q) - 1 : q[i] \in Runs
      BY <1>0
    <2>. QED  BY <1>0, <2>1, SubSeqProperties DEF Front
  <1>3. DOMAIN Front(q) = 1 .. Len(q) - 1
    BY <1>2
  <1>4. ASSUME Single(q) PROVE Single(Front(q))
    BY <1>0, <1>2, <1>3, <1>4 DEF Single
  <1>5. ASSUME Single(q), NEW x PROVE OnStack(Front(q), x) <=> OnStack(q, x) /\ x # Last(q)
    BY <1>0, <1>1, <1>2, <1>3, <1>5 DEF Single, OnStack
  <1>6. Last(q) \in Runs /\ OnStack(q, Last(q))
    BY <1>0, <1>1 DEF OnStack
  <1>. QED  BY <1>2, <1>4, <1>5, <1>6

\* The push of register.
LEMMA PushProperties ==
  ASSUME NEW q \in Seq(Runs), NEW r \in Runs
  PROVE  /\ Append(q, r) \in Seq(Runs)
         /\ Single(q) /\ ~ OnStack(q, r) => Single(Append(q, r))
         /\ \A x : OnStack(Append(q, r), x) <=> OnStack(q, x) \/ x = r
  <1> DEFINE p == Append(q, r)
  <1>1. /\ p \in Seq(Runs)
        /\ DOMAIN q = 1 .. Len(q) /\ DOMAIN p = 1 .. Len(q) + 1 /\ Len(q) \in Nat
        /\ \A i \in 1 .. Len(q) : p[i] = q[i]
        /\ p[Len(q) + 1] = r
    OBVIOUS
  <1> HIDE DEF p
  <1>2. ASSUME Single(q), ~ OnStack(q, r) PROVE Single(p)
    BY <1>1, <1>2 DEF Single, OnStack
  <1>3. ASSUME NEW x PROVE OnStack(p, x) <=> OnStack(q, x) \/ x = r
    BY <1>1 DEF OnStack
  <1>. QED  BY <1>1, <1>2, <1>3 DEF p

-----------------------------------------------------------------------------
(* The inductive step: one lemma for every part of Next.  Each action      *)
(* keeps the types first, then what a run, a session and a cancel can rely *)
(* on.                                                                     *)

\* The handler of sql.run.
LEMMA HandlerKeepsIInv ==
  ASSUME IInv,
         \E r \in Runs : \/ Disconnect(r) \/ HandlerStep(r)
                        \/ \E id \in RunIds, q \in Requests : StartRun(r, id, q)
  PROVE  IInv'
  <1> USE DEF IInv, TypeOK, ReadHolds, WriteHolds, Holds, Settled, callVars, handlerVars, fiberVars,
             cancelVars, sessionVars, dataVars
  <1>1. ASSUME NEW r \in Runs, NEW id \in RunIds, NEW q \in Requests, StartRun(r, id, q) PROVE IInv'
    <2> USE <1>1 DEF StartRun, Requests, ReadRequests
    <2>1. CallTypes'  BY DEF CallTypes
    <2>2. CancelTypes'  BY DEF CancelTypes
    <2>3. FiberTypes'  BY DEF FiberTypes, Outcomes
    <2>4. SessionTypes'  BY DEF SessionTypes
    <2>5. TypeOK'  BY <2>1, <2>2, <2>3, <2>4
    <2>6. ASSUME NEW p \in Runs PROVE FiberInv(p)'
      BY <2>5, ConstantsAssumption DEF CallTypes, FiberTypes, SessionTypes, FiberInv, SessionInv,
          OutcomeInv
    <2>7. ASSUME NEW t \in Sessions PROVE SessionInv(t)'
      BY <2>5, ConstantsAssumption DEF FiberTypes, SessionTypes, FiberInv, SessionInv, OutcomeInv
    <2>8. ASSUME NEW p \in Runs PROVE OutcomeInv(p)'
      BY <2>5 DEF CallTypes, FiberTypes, OutcomeInv
    <2>9. ASSUME NEW e \in Cancels PROVE CancelInv(e)'
      BY <2>5 DEF CancelTypes, FiberTypes, CancelInv, OutcomeInv
    <2>. QED  BY <2>5, <2>6, <2>7, <2>8, <2>9
  <1>2. ASSUME NEW r \in Runs, AcquireFails(r) PROVE IInv'
    <2> USE <1>2 DEF AcquireFails
    <2>1. CallTypes'  BY DEF CallTypes, Outcomes
    <2>2. CancelTypes'  BY DEF CancelTypes
    <2>3. FiberTypes'  BY DEF FiberTypes, Outcomes
    <2>4. SessionTypes'  BY DEF SessionTypes
    <2>5. TypeOK'  BY <2>1, <2>2, <2>3, <2>4
    <2>6. ASSUME NEW p \in Runs PROVE FiberInv(p)'
      BY <2>5, ConstantsAssumption DEF CallTypes, FiberTypes, SessionTypes, FiberInv, SessionInv
    <2>7. ASSUME NEW t \in Sessions PROVE SessionInv(t)'
      BY <2>5, ConstantsAssumption DEF FiberTypes, SessionTypes, FiberInv, SessionInv
    <2>8. ASSUME NEW p \in Runs PROVE OutcomeInv(p)'
      BY <2>5 DEF CallTypes, FiberTypes, OutcomeInv
    <2>9. ASSUME NEW e \in Cancels PROVE CancelInv(e)'
      BY <2>5 DEF CancelTypes, FiberTypes, CancelInv
    <2>. QED  BY <2>5, <2>6, <2>7, <2>8, <2>9
  <1>3. ASSUME NEW r \in Runs, Fork(r) PROVE IInv'
    <2> USE <1>3 DEF Fork
    <2>1. CallTypes'  BY DEF CallTypes
    <2>2. CancelTypes'  BY PushProperties DEF CallTypes, CancelTypes
    <2>3. FiberTypes'  BY DEF FiberTypes, Outcomes
    <2>4. SessionTypes'  BY DEF SessionTypes
    <2>5. TypeOK'  BY <2>1, <2>2, <2>3, <2>4
    <2>6. ASSUME NEW p \in Runs PROVE FiberInv(p)'
      BY <2>5, ConstantsAssumption DEF CallTypes, FiberTypes, SessionTypes, FiberInv, SessionInv,
          OutcomeInv
    <2>7. ASSUME NEW t \in Sessions PROVE SessionInv(t)'
      BY <2>5, ConstantsAssumption DEF FiberTypes, SessionTypes, FiberInv, SessionInv, OutcomeInv
    <2>8. ASSUME NEW p \in Runs PROVE OutcomeInv(p)'
      BY <2>5 DEF CallTypes, FiberTypes, OutcomeInv
    <2>9. ASSUME NEW e \in Cancels PROVE CancelInv(e)'
      BY <2>5 DEF CancelTypes, FiberTypes, CancelInv, OutcomeInv
    <2>. QED  BY <2>5, <2>6, <2>7, <2>8, <2>9
  <1>4. ASSUME NEW r \in Runs, Awaited(r) PROVE IInv'
    <2> USE <1>4 DEF Awaited, FiberIsOver, Unregister
    <2>1. CallTypes'  BY DEF CallTypes
    <2>2. CancelTypes'  BY DropProperties DEF CallTypes, CancelTypes
    <2>3. FiberTypes'  BY DEF FiberTypes, Outcomes
    <2>4. SessionTypes'  BY DEF SessionTypes
    <2>5. TypeOK'  BY <2>1, <2>2, <2>3, <2>4
    <2>6. ASSUME NEW p \in Runs PROVE FiberInv(p)'
      BY <2>5, ConstantsAssumption DEF CallTypes, FiberTypes, SessionTypes, FiberInv, SessionInv
    <2>7. ASSUME NEW t \in Sessions PROVE SessionInv(t)'
      BY <2>5, ConstantsAssumption DEF FiberTypes, SessionTypes, FiberInv, SessionInv
    <2>8. ASSUME NEW p \in Runs PROVE OutcomeInv(p)'
      BY <2>5 DEF CallTypes, FiberTypes, OutcomeInv
    <2>9. ASSUME NEW e \in Cancels PROVE CancelInv(e)'
      BY <2>5 DEF CancelTypes, FiberTypes, CancelInv
    <2>. QED  BY <2>5, <2>6, <2>7, <2>8, <2>9
  <1>5. ASSUME NEW r \in Runs, Record(r) PROVE IInv'
    <2> USE <1>5 DEF Record
    <2>1. CallTypes'  BY DEF CallTypes, FiberTypes, Outcomes
    <2>2. CancelTypes'  BY DEF CancelTypes
    <2>3. FiberTypes'  BY DEF FiberTypes, Outcomes
    <2>4. SessionTypes'  BY DEF SessionTypes
    <2>5. TypeOK'  BY <2>1, <2>2, <2>3, <2>4
    <2>6. ASSUME NEW p \in Runs PROVE FiberInv(p)'
      BY <2>5, ConstantsAssumption DEF CallTypes, FiberTypes, SessionTypes, FiberInv, SessionInv
    <2>7. ASSUME NEW t \in Sessions PROVE SessionInv(t)'
      BY <2>5, ConstantsAssumption DEF FiberTypes, SessionTypes, FiberInv, SessionInv
    <2>8. ASSUME NEW p \in Runs PROVE OutcomeInv(p)'
      BY <2>5 DEF CallTypes, FiberTypes, OutcomeInv
    <2>9. ASSUME NEW e \in Cancels PROVE CancelInv(e)'
      BY <2>5 DEF CancelTypes, FiberTypes, CancelInv
    <2>. QED  BY <2>5, <2>6, <2>7, <2>8, <2>9
  <1>6. ASSUME NEW r \in Runs, Disconnect(r) PROVE IInv'
    <2> USE <1>6 DEF Disconnect, Unregister
    <2>1. CallTypes'  BY DEF CallTypes, FiberTypes, Outcomes
    <2>2. CancelTypes'  BY DropProperties DEF CallTypes, CancelTypes
    <2>3. FiberTypes'  BY DEF FiberTypes, Outcomes
    <2>4. SessionTypes'  BY DEF SessionTypes
    <2>5. TypeOK'  BY <2>1, <2>2, <2>3, <2>4
    <2>6. ASSUME NEW p \in Runs PROVE FiberInv(p)'
      BY <2>5, ConstantsAssumption DEF CallTypes, CancelTypes, FiberTypes, SessionTypes, FiberInv,
          SessionInv
    <2>7. ASSUME NEW t \in Sessions PROVE SessionInv(t)'
      BY <2>5, ConstantsAssumption DEF FiberTypes, SessionTypes, FiberInv, SessionInv
    <2>8. ASSUME NEW p \in Runs PROVE OutcomeInv(p)'
      BY <2>5 DEF CallTypes, FiberTypes, OutcomeInv
    <2>9. ASSUME NEW e \in Cancels PROVE CancelInv(e)'
      BY <2>5 DEF CancelTypes, FiberTypes, CancelInv
    <2>. QED  BY <2>5, <2>6, <2>7, <2>8, <2>9
  <1>. QED  BY <1>1, <1>2, <1>3, <1>4, <1>5, <1>6 DEF HandlerStep

\* sql.cancel.
LEMMA CancelKeepsIInv ==
  ASSUME IInv,
         \E c \in Cancels : \/ CancelReturns(c)
                           \/ \E id \in RunIds : Cancel(c, id) \/ CancelFindsNothing(c, id)
  PROVE  IInv'
  <1> USE DEF IInv, TypeOK, ReadHolds, WriteHolds, Holds, Settled, callVars, handlerVars, fiberVars,
             cancelVars, sessionVars, dataVars
  <1>1. ASSUME NEW c \in Cancels, NEW id \in RunIds, Cancel(c, id) PROVE IInv'
    <2> USE <1>1 DEF Cancel
    <2>1. CallTypes'  BY DEF CallTypes
    <2>2. CancelTypes'
      <3>1. running[id] \in Seq(Runs)
        BY DEF CancelTypes
      <3>2. Last(running[id]) \in Runs /\ Front(running[id]) \in Seq(Runs)
        BY <3>1, PopProperties
      <3>. QED  BY <3>1, <3>2, ConstantsAssumption DEF CancelTypes
    <2>3. FiberTypes'  BY DEF FiberTypes
    <2>4. SessionTypes'  BY DEF SessionTypes
    <2>5. TypeOK'  BY <2>1, <2>2, <2>3, <2>4
    <2>6. ASSUME NEW p \in Runs PROVE FiberInv(p)'
      BY <2>5, ConstantsAssumption DEF CallTypes, CancelTypes, FiberTypes, SessionTypes, FiberInv,
          SessionInv
    <2>7. ASSUME NEW t \in Sessions PROVE SessionInv(t)'
      BY <2>5, ConstantsAssumption DEF FiberTypes, SessionTypes, FiberInv, SessionInv
    <2>8. ASSUME NEW p \in Runs PROVE OutcomeInv(p)'
      BY <2>5 DEF CallTypes, FiberTypes, OutcomeInv
    <2>9. ASSUME NEW e \in Cancels PROVE CancelInv(e)'
      BY <2>5 DEF CancelTypes, FiberTypes, CancelInv
    <2>. QED  BY <2>5, <2>6, <2>7, <2>8, <2>9
  <1>2. ASSUME NEW c \in Cancels, NEW id \in RunIds, CancelFindsNothing(c, id) PROVE IInv'
    <2> USE <1>2 DEF CancelFindsNothing
    <2>1. CallTypes'  BY DEF CallTypes
    <2>2. CancelTypes'  BY DEF CancelTypes
    <2>3. FiberTypes'  BY DEF FiberTypes
    <2>4. SessionTypes'  BY DEF SessionTypes
    <2>5. TypeOK'  BY <2>1, <2>2, <2>3, <2>4
    <2>6. ASSUME NEW p \in Runs PROVE FiberInv(p)'
      BY <2>5, ConstantsAssumption DEF CallTypes, FiberTypes, SessionTypes, FiberInv, SessionInv
    <2>7. ASSUME NEW t \in Sessions PROVE SessionInv(t)'
      BY <2>5, ConstantsAssumption DEF FiberTypes, SessionTypes, FiberInv, SessionInv
    <2>8. ASSUME NEW p \in Runs PROVE OutcomeInv(p)'
      BY <2>5 DEF CallTypes, FiberTypes, OutcomeInv
    <2>9. ASSUME NEW e \in Cancels PROVE CancelInv(e)'
      BY <2>5 DEF CancelTypes, FiberTypes, CancelInv
    <2>. QED  BY <2>5, <2>6, <2>7, <2>8, <2>9
  <1>3. ASSUME NEW c \in Cancels, CancelReturns(c) PROVE IInv'
    <2> USE <1>3 DEF CancelReturns, CancelIsOver
    <2>1. CallTypes'  BY DEF CallTypes
    <2>2. CancelTypes'  BY DEF CancelTypes
    <2>3. FiberTypes'  BY DEF FiberTypes
    <2>4. SessionTypes'  BY DEF SessionTypes
    <2>5. TypeOK'  BY <2>1, <2>2, <2>3, <2>4
    <2>6. ASSUME NEW p \in Runs PROVE FiberInv(p)'
      BY <2>5, ConstantsAssumption DEF CallTypes, FiberTypes, SessionTypes, FiberInv, SessionInv
    <2>7. ASSUME NEW t \in Sessions PROVE SessionInv(t)'
      BY <2>5, ConstantsAssumption DEF FiberTypes, SessionTypes, FiberInv, SessionInv
    <2>8. ASSUME NEW p \in Runs PROVE OutcomeInv(p)'
      BY <2>5 DEF CallTypes, FiberTypes, OutcomeInv
    <2>9. ASSUME NEW e \in Cancels PROVE CancelInv(e)'
      BY <2>5 DEF CancelTypes, FiberTypes, CancelInv
    <2>. QED  BY <2>5, <2>6, <2>7, <2>8, <2>9
  <1>. QED  BY <1>1, <1>2, <1>3

\* The fiber of collect.
LEMMA ReadKeepsIInv ==
  ASSUME IInv, NEW r \in Runs, ReadStep(r)
  PROVE  IInv'
  <1> USE DEF IInv, TypeOK, ReadHolds, WriteHolds, Holds, Settled, callVars, handlerVars, fiberVars,
             cancelVars, sessionVars, dataVars
  <1>1. ASSUME Classify(r) PROVE IInv'
    <2> USE <1>1 DEF Classify, Ends
    <2>1. CallTypes' /\ CancelTypes'  BY DEF CallTypes, CancelTypes
    <2>2. FiberTypes'  BY DEF FiberTypes, Outcomes
    <2>3. SessionTypes'  BY DEF SessionTypes, FiberTypes
    <2>4. TypeOK'  BY <2>1, <2>2, <2>3
    <2>5. ASSUME NEW p \in Runs PROVE FiberInv(p)'
      BY <2>4, ConstantsAssumption DEF CallTypes, FiberTypes, SessionTypes, FiberInv, SessionInv,
          OutcomeInv
    <2>6. ASSUME NEW t \in Sessions PROVE SessionInv(t)'
      BY <2>4, ConstantsAssumption DEF FiberTypes, SessionTypes, FiberInv, SessionInv, OutcomeInv
    <2>7. ASSUME NEW p \in Runs PROVE OutcomeInv(p)'
      BY <2>4 DEF CallTypes, FiberTypes, OutcomeInv
    <2>8. ASSUME NEW e \in Cancels PROVE CancelInv(e)'
      BY <2>4 DEF CancelTypes, FiberTypes, CancelInv, OutcomeInv
    <2>. QED  BY <2>4, <2>5, <2>6, <2>7, <2>8
  <1>2. ASSUME NEW s \in Sessions, Connect(r, s) PROVE IInv'
    <2> USE <1>2 DEF Connect, Free
    <2>1. CallTypes' /\ CancelTypes'  BY DEF CallTypes, CancelTypes
    <2>2. FiberTypes'  BY ConstantsAssumption DEF FiberTypes, Outcomes
    <2>3. SessionTypes'  BY DEF SessionTypes, FiberTypes
    <2>4. TypeOK'  BY <2>1, <2>2, <2>3
    <2>5. ASSUME NEW p \in Runs PROVE FiberInv(p)'
      BY <2>4, ConstantsAssumption DEF CallTypes, FiberTypes, SessionTypes, FiberInv, SessionInv
    <2>6. ASSUME NEW t \in Sessions PROVE SessionInv(t)'
      BY <2>4, ConstantsAssumption DEF FiberTypes, SessionTypes, FiberInv, SessionInv
    <2>7. ASSUME NEW p \in Runs PROVE OutcomeInv(p)'
      BY <2>4 DEF CallTypes, FiberTypes, OutcomeInv
    <2>8. ASSUME NEW e \in Cancels PROVE CancelInv(e)'
      BY <2>4 DEF CancelTypes, FiberTypes, CancelInv
    <2>. QED  BY <2>4, <2>5, <2>6, <2>7, <2>8
  <1>3. ASSUME ConnectFails(r) PROVE IInv'
    <2> USE <1>3 DEF ConnectFails, Ends
    <2>1. CallTypes' /\ CancelTypes'  BY DEF CallTypes, CancelTypes
    <2>2. FiberTypes'  BY ConstantsAssumption DEF FiberTypes, Outcomes
    <2>3. SessionTypes'  BY DEF SessionTypes, FiberTypes
    <2>4. TypeOK'  BY <2>1, <2>2, <2>3
    <2>5. ASSUME NEW p \in Runs PROVE FiberInv(p)'
      BY <2>4, ConstantsAssumption DEF CallTypes, FiberTypes, SessionTypes, FiberInv, SessionInv
    <2>6. ASSUME NEW t \in Sessions PROVE SessionInv(t)'
      BY <2>4, ConstantsAssumption DEF FiberTypes, SessionTypes, FiberInv, SessionInv
    <2>7. ASSUME NEW p \in Runs PROVE OutcomeInv(p)'
      BY <2>4 DEF CallTypes, FiberTypes, OutcomeInv
    <2>8. ASSUME NEW e \in Cancels PROVE CancelInv(e)'
      BY <2>4 DEF CancelTypes, FiberTypes, CancelInv
    <2>. QED  BY <2>4, <2>5, <2>6, <2>7, <2>8
  <1>4. ASSUME Begin(r) PROVE IInv'
    <2> USE <1>4 DEF Begin
    <2>1. CallTypes' /\ CancelTypes'  BY DEF CallTypes, CancelTypes
    <2>2. FiberTypes'  BY DEF FiberTypes, Outcomes
    <2>3. SessionTypes'  BY DEF SessionTypes, FiberTypes
    <2>4. TypeOK'  BY <2>1, <2>2, <2>3
    <2>5. ASSUME NEW p \in Runs PROVE FiberInv(p)'
      BY <2>4, ConstantsAssumption DEF CallTypes, FiberTypes, SessionTypes, FiberInv, SessionInv
    <2>6. ASSUME NEW t \in Sessions PROVE SessionInv(t)'
      BY <2>4, ConstantsAssumption DEF FiberTypes, SessionTypes, FiberInv, SessionInv
    <2>7. ASSUME NEW p \in Runs PROVE OutcomeInv(p)'
      BY <2>4 DEF CallTypes, FiberTypes, OutcomeInv
    <2>8. ASSUME NEW e \in Cancels PROVE CancelInv(e)'
      BY <2>4 DEF CancelTypes, FiberTypes, CancelInv
    <2>. QED  BY <2>4, <2>5, <2>6, <2>7, <2>8
  <1>5. ASSUME BeginFails(r) PROVE IInv'
    <2> USE <1>5 DEF BeginFails, Unwinds
    <2>1. CallTypes' /\ CancelTypes'  BY DEF CallTypes, CancelTypes
    <2>2. FiberTypes'  BY DEF FiberTypes, Outcomes
    <2>3. SessionTypes'  BY DEF SessionTypes, FiberTypes
    <2>4. TypeOK'  BY <2>1, <2>2, <2>3
    <2>5. ASSUME NEW p \in Runs PROVE FiberInv(p)'
      BY <2>4, ConstantsAssumption DEF CallTypes, FiberTypes, SessionTypes, FiberInv, SessionInv
    <2>6. ASSUME NEW t \in Sessions PROVE SessionInv(t)'
      BY <2>4, ConstantsAssumption DEF FiberTypes, SessionTypes, FiberInv, SessionInv
    <2>7. ASSUME NEW p \in Runs PROVE OutcomeInv(p)'
      BY <2>4 DEF CallTypes, FiberTypes, OutcomeInv
    <2>8. ASSUME NEW e \in Cancels PROVE CancelInv(e)'
      BY <2>4 DEF CancelTypes, FiberTypes, CancelInv
    <2>. QED  BY <2>4, <2>5, <2>6, <2>7, <2>8
  <1>6. ASSUME BatchArrives(r) PROVE IInv'
    <2> USE <1>6 DEF BatchArrives, Executed, Unwinds
    <2>1. CallTypes' /\ CancelTypes'  BY DEF CallTypes, CancelTypes
    <2>2. FiberTypes'  BY DEF FiberTypes, Outcomes
    <2>3. SessionTypes'  BY DEF SessionTypes, FiberTypes
    <2>4. TypeOK'  BY <2>1, <2>2, <2>3
    <2>5. ASSUME NEW p \in Runs PROVE FiberInv(p)'
      BY <2>4, ConstantsAssumption DEF CallTypes, FiberTypes, SessionTypes, FiberInv, SessionInv
    <2>6. ASSUME NEW t \in Sessions PROVE SessionInv(t)'
      BY <2>4, ConstantsAssumption DEF FiberTypes, SessionTypes, FiberInv, SessionInv
    <2>7. ASSUME NEW p \in Runs PROVE OutcomeInv(p)'
      BY <2>4 DEF CallTypes, FiberTypes, OutcomeInv
    <2>8. ASSUME NEW e \in Cancels PROVE CancelInv(e)'
      BY <2>4 DEF CancelTypes, FiberTypes, CancelInv
    <2>. QED  BY <2>4, <2>5, <2>6, <2>7, <2>8
  <1>7. ASSUME ReadFails(r) PROVE IInv'
    <2> USE <1>7 DEF ReadFails, Unwinds
    <2>1. CallTypes' /\ CancelTypes'  BY DEF CallTypes, CancelTypes
    <2>2. FiberTypes'  BY DEF FiberTypes, Outcomes
    <2>3. SessionTypes'  BY DEF SessionTypes, FiberTypes
    <2>4. TypeOK'  BY <2>1, <2>2, <2>3
    <2>5. ASSUME NEW p \in Runs PROVE FiberInv(p)'
      BY <2>4, ConstantsAssumption DEF CallTypes, FiberTypes, SessionTypes, FiberInv, SessionInv
    <2>6. ASSUME NEW t \in Sessions PROVE SessionInv(t)'
      BY <2>4, ConstantsAssumption DEF FiberTypes, SessionTypes, FiberInv, SessionInv
    <2>7. ASSUME NEW p \in Runs PROVE OutcomeInv(p)'
      BY <2>4 DEF CallTypes, FiberTypes, OutcomeInv
    <2>8. ASSUME NEW e \in Cancels PROVE CancelInv(e)'
      BY <2>4 DEF CancelTypes, FiberTypes, CancelInv
    <2>. QED  BY <2>4, <2>5, <2>6, <2>7, <2>8
  <1>8. ASSUME TypesNamed(r) PROVE IInv'
    <2> USE <1>8 DEF TypesNamed, Ends, Unwinds
    <2>1. CallTypes' /\ CancelTypes'  BY DEF CallTypes, CancelTypes
    <2>2. FiberTypes'  BY DEF FiberTypes, Outcomes
    <2>3. SessionTypes'  BY DEF SessionTypes, FiberTypes
    <2>4. TypeOK'  BY <2>1, <2>2, <2>3
    <2>5. ASSUME NEW p \in Runs PROVE FiberInv(p)'
      BY <2>4, ConstantsAssumption DEF CallTypes, FiberTypes, SessionTypes, FiberInv, SessionInv
    <2>6. ASSUME NEW t \in Sessions PROVE SessionInv(t)'
      BY <2>4, ConstantsAssumption DEF FiberTypes, SessionTypes, FiberInv, SessionInv
    <2>7. ASSUME NEW p \in Runs PROVE OutcomeInv(p)'
      BY <2>4 DEF CallTypes, FiberTypes, OutcomeInv
    <2>8. ASSUME NEW e \in Cancels PROVE CancelInv(e)'
      BY <2>4 DEF CancelTypes, FiberTypes, CancelInv
    <2>. QED  BY <2>4, <2>5, <2>6, <2>7, <2>8
  <1>9. ASSUME Interrupted(r) PROVE IInv'
    <2> USE <1>9 DEF Interrupted, Ends, Unwinds
    <2>1. CallTypes' /\ CancelTypes'  BY DEF CallTypes, CancelTypes
    <2>2. FiberTypes'  BY DEF FiberTypes, Outcomes
    <2>3. SessionTypes'  BY DEF SessionTypes, FiberTypes
    <2>4. TypeOK'  BY <2>1, <2>2, <2>3
    <2>5. ASSUME NEW p \in Runs PROVE FiberInv(p)'
      BY <2>4, ConstantsAssumption DEF CallTypes, FiberTypes, SessionTypes, FiberInv, SessionInv
    <2>6. ASSUME NEW t \in Sessions PROVE SessionInv(t)'
      BY <2>4, ConstantsAssumption DEF FiberTypes, SessionTypes, FiberInv, SessionInv
    <2>7. ASSUME NEW p \in Runs PROVE OutcomeInv(p)'
      BY <2>4 DEF CallTypes, FiberTypes, OutcomeInv
    <2>8. ASSUME NEW e \in Cancels PROVE CancelInv(e)'
      BY <2>4 DEF CancelTypes, FiberTypes, CancelInv
    <2>. QED  BY <2>4, <2>5, <2>6, <2>7, <2>8
  <1>10. ASSUME Kill(r) PROVE IInv'
    <2> USE <1>10 DEF Kill, MayKill, Unwinds
    <2>1. CallTypes' /\ CancelTypes'  BY DEF CallTypes, CancelTypes
    <2>2. FiberTypes'  BY DEF FiberTypes, Outcomes
    <2>3. SessionTypes'  BY DEF SessionTypes, FiberTypes, FiberInv
    <2>4. TypeOK'  BY <2>1, <2>2, <2>3
    <2>5. ASSUME NEW p \in Runs PROVE FiberInv(p)'
      BY <2>4, ConstantsAssumption DEF CallTypes, FiberTypes, SessionTypes, FiberInv, SessionInv
    <2>6. ASSUME NEW t \in Sessions PROVE SessionInv(t)'
      BY <2>4, ConstantsAssumption DEF FiberTypes, SessionTypes, FiberInv, SessionInv
    <2>7. ASSUME NEW p \in Runs PROVE OutcomeInv(p)'
      BY <2>4 DEF CallTypes, FiberTypes, OutcomeInv
    <2>8. ASSUME NEW e \in Cancels PROVE CancelInv(e)'
      BY <2>4 DEF CancelTypes, FiberTypes, CancelInv
    <2>. QED  BY <2>4, <2>5, <2>6, <2>7, <2>8
  <1>11. ASSUME StatementEnds(r) PROVE IInv'
    <2> USE <1>11 DEF StatementEnds, StatementGoesOn, Executed
    <2>1. CallTypes' /\ CancelTypes'  BY DEF CallTypes, CancelTypes
    <2>2. FiberTypes'  BY DEF FiberTypes, Outcomes
    <2>3. SessionTypes'  BY DEF SessionTypes, FiberTypes
    <2>4. TypeOK'  BY <2>1, <2>2, <2>3
    <2>5. ASSUME NEW p \in Runs PROVE FiberInv(p)'
      BY <2>4, ConstantsAssumption DEF CallTypes, FiberTypes, SessionTypes, FiberInv, SessionInv
    <2>6. ASSUME NEW t \in Sessions PROVE SessionInv(t)'
      BY <2>4, ConstantsAssumption DEF FiberTypes, SessionTypes, FiberInv, SessionInv
    <2>7. ASSUME NEW p \in Runs PROVE OutcomeInv(p)'
      BY <2>4 DEF CallTypes, FiberTypes, OutcomeInv
    <2>8. ASSUME NEW e \in Cancels PROVE CancelInv(e)'
      BY <2>4 DEF CancelTypes, FiberTypes, CancelInv
    <2>. QED  BY <2>4, <2>5, <2>6, <2>7, <2>8
  <1>12. ASSUME Unwind(r) PROVE IInv'
    <2> USE <1>12 DEF Unwind, StatementIsOver, Ends
    <2>1. CallTypes' /\ CancelTypes'  BY DEF CallTypes, CancelTypes
    <2>2. FiberTypes'  BY DEF FiberTypes, Outcomes
    <2>3. SessionTypes'  BY DEF SessionTypes, FiberTypes
    <2>4. TypeOK'  BY <2>1, <2>2, <2>3
    <2>5. ASSUME NEW p \in Runs PROVE FiberInv(p)'
      BY <2>4, ConstantsAssumption DEF CallTypes, FiberTypes, SessionTypes, FiberInv, SessionInv
    <2>6. ASSUME NEW t \in Sessions PROVE SessionInv(t)'
      BY <2>4, ConstantsAssumption DEF FiberTypes, SessionTypes, FiberInv, SessionInv
    <2>7. ASSUME NEW p \in Runs PROVE OutcomeInv(p)'
      BY <2>4 DEF CallTypes, FiberTypes, OutcomeInv
    <2>8. ASSUME NEW e \in Cancels PROVE CancelInv(e)'
      BY <2>4 DEF CancelTypes, FiberTypes, CancelInv
    <2>. QED  BY <2>4, <2>5, <2>6, <2>7, <2>8
  <1>. QED  BY <1>1, <1>2, <1>3, <1>4, <1>5, <1>6, <1>7, <1>8, <1>9, <1>10, <1>11, <1>12 DEF ReadStep

\* The promise of runWrite.
LEMMA WriteKeepsIInv ==
  ASSUME IInv, NEW r \in Runs, WriteStep(r)
  PROVE  IInv'
  <1> USE DEF IInv, TypeOK, ReadHolds, WriteHolds, Holds, Settled, callVars, handlerVars, fiberVars,
             cancelVars, sessionVars, dataVars
  <1>1. ASSUME NEW s \in Sessions, WriterConnects(r, s) PROVE IInv'
    <2> USE <1>1 DEF WriterConnects, Free
    <2>1. CallTypes' /\ CancelTypes'  BY DEF CallTypes, CancelTypes
    <2>2. FiberTypes'  BY ConstantsAssumption DEF FiberTypes, Outcomes
    <2>3. SessionTypes'  BY DEF SessionTypes, FiberTypes
    <2>4. TypeOK'  BY <2>1, <2>2, <2>3
    <2>5. ASSUME NEW p \in Runs PROVE FiberInv(p)'
      BY <2>4, ConstantsAssumption DEF CallTypes, FiberTypes, SessionTypes, FiberInv, SessionInv
    <2>6. ASSUME NEW t \in Sessions PROVE SessionInv(t)'
      BY <2>4, ConstantsAssumption DEF FiberTypes, SessionTypes, FiberInv, SessionInv
    <2>7. ASSUME NEW p \in Runs PROVE OutcomeInv(p)'
      BY <2>4 DEF CallTypes, FiberTypes, OutcomeInv
    <2>8. ASSUME NEW e \in Cancels PROVE CancelInv(e)'
      BY <2>4 DEF CancelTypes, FiberTypes, CancelInv
    <2>. QED  BY <2>4, <2>5, <2>6, <2>7, <2>8
  <1>2. ASSUME WriterDoesNotConnect(r) PROVE IInv'
    <2> USE <1>2 DEF WriterDoesNotConnect
    <2>1. CallTypes' /\ CancelTypes'  BY DEF CallTypes, CancelTypes
    <2>2. FiberTypes'  BY ConstantsAssumption DEF FiberTypes, Outcomes
    <2>3. SessionTypes'  BY DEF SessionTypes, FiberTypes
    <2>4. TypeOK'  BY <2>1, <2>2, <2>3
    <2>5. ASSUME NEW p \in Runs PROVE FiberInv(p)'
      BY <2>4, ConstantsAssumption DEF CallTypes, FiberTypes, SessionTypes, FiberInv, SessionInv
    <2>6. ASSUME NEW t \in Sessions PROVE SessionInv(t)'
      BY <2>4, ConstantsAssumption DEF FiberTypes, SessionTypes, FiberInv, SessionInv
    <2>7. ASSUME NEW p \in Runs PROVE OutcomeInv(p)'
      BY <2>4 DEF CallTypes, FiberTypes, OutcomeInv
    <2>8. ASSUME NEW e \in Cancels PROVE CancelInv(e)'
      BY <2>4 DEF CancelTypes, FiberTypes, CancelInv
    <2>. QED  BY <2>4, <2>5, <2>6, <2>7, <2>8
  <1>3. ASSUME Execute(r) PROVE IInv'
    <2> USE <1>3 DEF Execute
    <2>1. CallTypes' /\ CancelTypes'  BY DEF CallTypes, CancelTypes
    <2>2. FiberTypes'  BY DEF FiberTypes, Outcomes
    <2>3. SessionTypes'  BY DEF SessionTypes, FiberTypes
    <2>4. TypeOK'  BY <2>1, <2>2, <2>3
    <2>5. ASSUME NEW p \in Runs PROVE FiberInv(p)'
      BY <2>4, ConstantsAssumption DEF CallTypes, FiberTypes, SessionTypes, FiberInv, SessionInv
    <2>6. ASSUME NEW t \in Sessions PROVE SessionInv(t)'
      BY <2>4, ConstantsAssumption DEF FiberTypes, SessionTypes, FiberInv, SessionInv
    <2>7. ASSUME NEW p \in Runs PROVE OutcomeInv(p)'
      BY <2>4 DEF CallTypes, FiberTypes, OutcomeInv
    <2>8. ASSUME NEW e \in Cancels PROVE CancelInv(e)'
      BY <2>4 DEF CancelTypes, FiberTypes, CancelInv
    <2>. QED  BY <2>4, <2>5, <2>6, <2>7, <2>8
  <1>4. ASSUME Commit(r) PROVE IInv'
    <2> USE <1>4 DEF Commit, GiveBack
    <2>1. CallTypes' /\ CancelTypes'  BY DEF CallTypes, CancelTypes
    <2>2. FiberTypes'  BY DEF FiberTypes, Outcomes
    <2>3. SessionTypes'  BY DEF SessionTypes, FiberTypes
    <2>4. TypeOK'  BY <2>1, <2>2, <2>3
    <2>5. ASSUME NEW p \in Runs PROVE FiberInv(p)'
      BY <2>4, ConstantsAssumption DEF CallTypes, FiberTypes, SessionTypes, FiberInv, SessionInv
    <2>6. ASSUME NEW t \in Sessions PROVE SessionInv(t)'
      BY <2>4, ConstantsAssumption DEF FiberTypes, SessionTypes, FiberInv, SessionInv
    <2>7. ASSUME NEW p \in Runs PROVE OutcomeInv(p)'
      BY <2>4 DEF CallTypes, FiberTypes, OutcomeInv
    <2>8. ASSUME NEW e \in Cancels PROVE CancelInv(e)'
      BY <2>4 DEF CancelTypes, FiberTypes, CancelInv
    <2>. QED  BY <2>4, <2>5, <2>6, <2>7, <2>8
  <1>5. ASSUME CommitFails(r) PROVE IInv'
    <2> USE <1>5 DEF CommitFails
    <2>1. CallTypes' /\ CancelTypes'  BY DEF CallTypes, CancelTypes
    <2>2. FiberTypes'  BY DEF FiberTypes, Outcomes
    <2>3. SessionTypes'  BY DEF SessionTypes, FiberTypes
    <2>4. TypeOK'  BY <2>1, <2>2, <2>3
    <2>5. ASSUME NEW p \in Runs PROVE FiberInv(p)'
      BY <2>4, ConstantsAssumption DEF CallTypes, FiberTypes, SessionTypes, FiberInv, SessionInv
    <2>6. ASSUME NEW t \in Sessions PROVE SessionInv(t)'
      BY <2>4, ConstantsAssumption DEF FiberTypes, SessionTypes, FiberInv, SessionInv
    <2>7. ASSUME NEW p \in Runs PROVE OutcomeInv(p)'
      BY <2>4 DEF CallTypes, FiberTypes, OutcomeInv
    <2>8. ASSUME NEW e \in Cancels PROVE CancelInv(e)'
      BY <2>4 DEF CancelTypes, FiberTypes, CancelInv
    <2>. QED  BY <2>4, <2>5, <2>6, <2>7, <2>8
  <1>6. ASSUME Rollback(r) PROVE IInv'
    <2> USE <1>6 DEF Rollback, GiveBack
    <2>1. CallTypes' /\ CancelTypes'  BY DEF CallTypes, CancelTypes
    <2>2. FiberTypes'  BY DEF FiberTypes, Outcomes
    <2>3. SessionTypes'  BY DEF SessionTypes, FiberTypes
    <2>4. TypeOK'  BY <2>1, <2>2, <2>3
    <2>5. ASSUME NEW p \in Runs PROVE FiberInv(p)'
      BY <2>4, ConstantsAssumption DEF CallTypes, FiberTypes, SessionTypes, FiberInv, SessionInv
    <2>6. ASSUME NEW t \in Sessions PROVE SessionInv(t)'
      BY <2>4, ConstantsAssumption DEF FiberTypes, SessionTypes, FiberInv, SessionInv
    <2>7. ASSUME NEW p \in Runs PROVE OutcomeInv(p)'
      BY <2>4 DEF CallTypes, FiberTypes, OutcomeInv
    <2>8. ASSUME NEW e \in Cancels PROVE CancelInv(e)'
      BY <2>4 DEF CancelTypes, FiberTypes, CancelInv
    <2>. QED  BY <2>4, <2>5, <2>6, <2>7, <2>8
  <1>7. ASSUME WriteSettles(r) PROVE IInv'
    <2> USE <1>7 DEF WriteSettles, WriteIsOver, Ends
    <2>1. CallTypes' /\ CancelTypes'  BY DEF CallTypes, CancelTypes
    <2>2. FiberTypes'  BY DEF FiberTypes, Outcomes
    <2>3. SessionTypes'  BY DEF SessionTypes, FiberTypes
    <2>4. TypeOK'  BY <2>1, <2>2, <2>3
    <2>5. ASSUME NEW p \in Runs PROVE FiberInv(p)'
      BY <2>4, ConstantsAssumption DEF CallTypes, FiberTypes, SessionTypes, FiberInv, SessionInv
    <2>6. ASSUME NEW t \in Sessions PROVE SessionInv(t)'
      BY <2>4, ConstantsAssumption DEF FiberTypes, SessionTypes, FiberInv, SessionInv
    <2>7. ASSUME NEW p \in Runs PROVE OutcomeInv(p)'
      BY <2>4 DEF CallTypes, FiberTypes, OutcomeInv
    <2>8. ASSUME NEW e \in Cancels PROVE CancelInv(e)'
      BY <2>4 DEF CancelTypes, FiberTypes, CancelInv
    <2>. QED  BY <2>4, <2>5, <2>6, <2>7, <2>8
  <1>. QED  BY <1>1, <1>2, <1>3, <1>4, <1>5, <1>6, <1>7 DEF WriteStep

\* What the run a cancel interrupts, the session a KILL hits and the answer of
\* a client depend on, in every state of sql.run and sql.cancel.
THEOREM SqlRunInvariant == Spec => []IInv
  <1>1. Init => IInv
    <2> SUFFICES ASSUME Init PROVE IInv
      OBVIOUS
    <2> USE DEF Init
    <2>1. TypeOK
      BY DEF TypeOK, CallTypes, CancelTypes, FiberTypes, SessionTypes
    <2>2. ASSUME NEW r \in Runs PROVE FiberInv(r) /\ OutcomeInv(r)
      BY DEF FiberInv, OutcomeInv, ReadHolds, WriteHolds, Settled
    <2>3. ASSUME NEW s \in Sessions PROVE SessionInv(s)
      BY DEF SessionInv
    <2>4. ASSUME NEW c \in Cancels PROVE CancelInv(c)
      BY DEF CancelInv
    <2>. QED  BY <2>1, <2>2, <2>3, <2>4 DEF IInv
  <1>2. IInv /\ [Next]_vars => IInv'
    <2> SUFFICES ASSUME IInv, [Next]_vars PROVE IInv'
      OBVIOUS
    <2>1. CASE UNCHANGED vars
      <3> USE <2>1 DEF vars, callVars, handlerVars, fiberVars, cancelVars, sessionVars, dataVars
      <3>1. TypeOK'
        BY DEF IInv, TypeOK, CallTypes, CancelTypes, FiberTypes, SessionTypes
      <3>2. ASSUME NEW r \in Runs PROVE FiberInv(r)' /\ OutcomeInv(r)'
        BY DEF IInv, FiberInv, OutcomeInv, ReadHolds, WriteHolds, Holds, Settled
      <3>3. ASSUME NEW s \in Sessions PROVE SessionInv(s)'
        BY DEF IInv, SessionInv, ReadHolds, WriteHolds
      <3>4. ASSUME NEW c \in Cancels PROVE CancelInv(c)'
        BY DEF IInv, CancelInv
      <3>. QED  BY <3>1, <3>2, <3>3, <3>4 DEF IInv
    <2>2. CASE Client
      BY <2>2, HandlerKeepsIInv, CancelKeepsIInv DEF Client
    <2>3. CASE System
      BY <2>3, HandlerKeepsIInv, CancelKeepsIInv, ReadKeepsIInv, WriteKeepsIInv DEF System
    <2>. QED  BY <2>1, <2>2, <2>3 DEF Next
  <1>. QED  BY <1>1, <1>2, PTL DEF Spec

\* Every variable has its type in every reachable state of a run.
THEOREM SqlRunTypes == Spec => []TypeOK
  <1>1. IInv => TypeOK
    BY DEF IInv
  <1>. QED  BY <1>1, SqlRunInvariant, PTL

\* However many runs, cancels and sessions there are: a session is free only
\* without a transaction and without a statement (the finalizers of query and
\* the end of runWrite).
THEOREM PoolStaysClean == Spec => []PoolIsClean
  <1>1. IInv => PoolIsClean
    BY DEF IInv, SessionInv, PoolIsClean, Free
  <1>. QED  BY <1>1, SqlRunInvariant, PTL

\* A KILL never hits a run that nobody cancelled (cancelBackend, KILL QUERY).
THEOREM KillsHitOnlyTheirRun == Spec => []KillsHitTheirRun
  <1>1. IInv => KillsHitTheirRun
    BY DEF IInv, FiberInv, KillsHitTheirRun, TypeOK, SessionTypes
  <1>. QED  BY <1>1, SqlRunInvariant, PTL

\* Read-only mode keeps what it promises (BEGIN READ ONLY of the drivers).
THEOREM ReadOnlyIsSafe == Spec => []ReadOnlyChangesNothing
  <1>1. IInv => ReadOnlyChangesNothing
    BY DEF IInv, FiberInv, ReadOnlyChangesNothing, TypeOK, SessionTypes
  <1>. QED  BY <1>1, SqlRunInvariant, PTL

\* What runQuery answers and records is what happened.
THEOREM HistoryAgrees == Spec => []HistoryIsTrue
  <1>1. IInv => HistoryIsTrue
    BY DEF IInv, FiberInv, OutcomeInv, HistoryIsTrue, TypeOK, CallTypes
  <1>. QED  BY <1>1, SqlRunInvariant, PTL

\* sql.cancel returns when the run has ended and a read holds nothing.
THEOREM CancelsAreComplete == Spec => []CancelIsComplete
  <1>1. IInv => CancelIsComplete
    <2> SUFFICES ASSUME IInv, NEW c \in Cancels, cancel[c] = "returned"
                 PROVE  fiber[target[c]] = "ended" /\ (ReadOnly(target[c]) => ~ Holds(target[c]))
      BY DEF CancelIsComplete
    <2>1. fiber[target[c]] = "ended" /\ target[c] \in Runs
      BY DEF IInv, CancelInv, TypeOK, CancelTypes
    <2>2. ASSUME ReadOnly(target[c]), Holds(target[c]) PROVE FALSE
      <3>1. request[target[c]] # "write"
        BY <2>2 DEF ReadOnly, ReadRequests
      <3>2. writer[target[c]] = "none"
        BY <2>1, <3>1 DEF IInv, FiberInv
      <3>3. pid[target[c]] \in Sessions
        BY <2>1, <2>2 DEF IInv, TypeOK, FiberTypes, Holds
      <3>. QED  BY <2>1, <2>2, <3>2, <3>3, ConstantsAssumption
                DEF IInv, SessionInv, ReadHolds, WriteHolds, Holds
    <2>. QED  BY <2>1, <2>2
  <1>. QED  BY <1>1, SqlRunInvariant, PTL

-----------------------------------------------------------------------------
(* The registry: for every id, the runs that wait and can be cancelled.    *)

Waits(r, id) == pc[r] = "await" /\ runId[r] = id /\ ~ intr[r]

RegistryInv ==
  /\ \A id \in RunIds : Single(running[id])
  /\ \A id \in RunIds : \A r \in Runs : OnStack(running[id], r) <=> Waits(r, id)
  /\ \A r \in Runs : pc[r] # "idle" => runId[r] \in RunIds
  /\ \A r \in Runs : pc[r] \in {"idle", "acquire"} => ~ intr[r]

\* One step of the registry, on the stack of one id.
LEMMA RegistryStep ==
  ASSUME IInv, RegistryInv, Next
  PROVE  RegistryInv'
  <1> USE DEF RegistryInv, Waits, callVars, handlerVars, fiberVars, cancelVars
  <1>0. CallTypes /\ CancelTypes
    BY DEF IInv, TypeOK
  <1>1. ASSUME UNCHANGED <<pc, runId, running, intr>> PROVE RegistryInv'
    BY <1>1 DEF OnStack, Single
  <1>2. ASSUME NEW r \in Runs, NEW id \in RunIds, NEW q \in Requests, StartRun(r, id, q)
        PROVE  RegistryInv'
    BY <1>0, <1>2 DEF StartRun, CallTypes
  <1>3. ASSUME NEW r \in Runs, AcquireFails(r) \/ Record(r) PROVE RegistryInv'
    BY <1>0, <1>3 DEF AcquireFails, Record, CallTypes
  <1>4. ASSUME NEW r \in Runs, Fork(r) PROVE RegistryInv'
    <2>1. runId[r] \in RunIds /\ ~ OnStack(running[runId[r]], r) /\ ~ intr[r]
      BY <1>0, <1>4 DEF Fork
    <2>2. running[runId[r]] \in Seq(Runs)
      BY <1>0, <2>1 DEF CancelTypes
    <2>3. ASSUME NEW id \in RunIds
          PROVE  /\ Single(running'[id])
                 /\ \A x : OnStack(running'[id], x)
                             <=> OnStack(running[id], x) \/ (x = r /\ id = runId[r])
      BY <1>0, <1>4, <2>1, <2>2, <2>3, PushProperties DEF Fork, CancelTypes
    <2>4. ASSUME NEW x \in Runs, x # r
          PROVE  pc'[x] = pc[x] /\ runId'[x] = runId[x] /\ intr'[x] = intr[x]
      BY <1>0, <1>4, <2>4 DEF Fork, CallTypes
    <2>5. pc'[r] = "await" /\ runId'[r] = runId[r] /\ ~ intr'[r]
      BY <1>0, <1>4, <2>1 DEF Fork, CallTypes
    <2>6. ASSUME NEW x \in Runs, NEW id \in RunIds PROVE OnStack(running'[id], x) <=> Waits(x, id)'
      BY <2>1, <2>3, <2>4, <2>5
    <2>7. ASSUME NEW x \in Runs
          PROVE  /\ pc'[x] # "idle" => runId'[x] \in RunIds
                 /\ pc'[x] \in {"idle", "acquire"} => ~ intr'[x]
      BY <2>1, <2>4, <2>5
    <2>. QED  BY <2>3, <2>6, <2>7
  <1>5. ASSUME NEW r \in Runs, Awaited(r) \/ Disconnect(r) PROVE RegistryInv'
    <2>1. runId[r] \in RunIds /\ running' = [running EXCEPT ![runId[r]] = Without(@, r)]
      BY <1>0, <1>5 DEF Awaited, FiberIsOver, Disconnect, Unregister
    <2>2. running[runId[r]] \in Seq(Runs)
      BY <1>0, <2>1 DEF CancelTypes
    <2>3. ASSUME NEW id \in RunIds
          PROVE  /\ Single(running'[id])
                 /\ \A x : OnStack(running'[id], x) <=> OnStack(running[id], x) /\ ~ (x = r /\ id = runId[r])
      BY <1>0, <2>1, <2>2, <2>3, DropProperties DEF CancelTypes
    <2>4. ASSUME NEW x \in Runs, x # r
          PROVE  pc'[x] = pc[x] /\ runId'[x] = runId[x] /\ intr'[x] = intr[x]
      BY <1>0, <1>5, <2>4 DEF Awaited, FiberIsOver, Disconnect, CallTypes, CancelTypes
    <2>5. pc'[r] \in {"record", "gone"} /\ runId'[r] = runId[r]
      BY <1>0, <1>5 DEF Awaited, FiberIsOver, Disconnect, CallTypes
    <2>6. ASSUME NEW x \in Runs, NEW id \in RunIds PROVE OnStack(running'[id], x) <=> Waits(x, id)'
      BY <2>1, <2>3, <2>4, <2>5
    <2>7. ASSUME NEW x \in Runs
          PROVE  /\ pc'[x] # "idle" => runId'[x] \in RunIds
                 /\ pc'[x] \in {"idle", "acquire"} => ~ intr'[x]
      BY <2>1, <2>4, <2>5
    <2>. QED  BY <2>3, <2>6, <2>7
  <1>6. ASSUME NEW c \in Cancels, NEW id \in RunIds, Cancel(c, id) PROVE RegistryInv'
    <2> DEFINE last == Last(running[id])
    <2>1. running[id] \in Seq(Runs) /\ running[id] # <<>>
      BY <1>0, <1>6 DEF Cancel, CancelTypes
    <2>2. last \in Runs /\ OnStack(running[id], last)
      BY <2>1, PopProperties
    <2>3. pc[last] = "await" /\ runId[last] = id
      BY <2>2
    <2>4. ASSUME NEW k \in RunIds
          PROVE  /\ Single(running'[k])
                 /\ \A x : OnStack(running'[k], x) <=> OnStack(running[k], x) /\ ~ (x = last /\ k = id)
      BY <1>0, <1>6, <2>1, <2>4, PopProperties DEF Cancel, CancelTypes
    <2>5. /\ intr' = [intr EXCEPT ![last] = TRUE]
          /\ UNCHANGED <<pc, runId>>
      BY <1>6 DEF Cancel
    <2> HIDE DEF last
    <2>. QED  BY <1>0, <2>2, <2>3, <2>4, <2>5 DEF CancelTypes
  <1>7. ASSUME NEW r \in Runs, ReadStep(r) PROVE UNCHANGED <<pc, runId, running, intr>>
    BY <1>7 DEF ReadStep, Classify, Connect, ConnectFails, Begin, BeginFails, BatchArrives, ReadFails,
                TypesNamed, Interrupted, Kill, StatementEnds, Unwind
  <1>8. ASSUME NEW r \in Runs, WriteStep(r) PROVE UNCHANGED <<pc, runId, running, intr>>
    BY <1>8 DEF WriteStep, WriterConnects, WriterDoesNotConnect, Execute, Commit, CommitFails, Rollback,
                WriteSettles
  <1>9. ASSUME NEW c \in Cancels, NEW id \in RunIds, CancelReturns(c) \/ CancelFindsNothing(c, id)
        PROVE  UNCHANGED <<pc, runId, running, intr>>
    BY <1>9 DEF CancelReturns, CancelFindsNothing
  <1>10. CASE Client
    BY <1>1, <1>2, <1>5, <1>6, <1>9, <1>10 DEF Client
  <1>11. CASE System
    <2>1. ASSUME NEW c \in Cancels, CancelReturns(c) PROVE UNCHANGED <<pc, runId, running, intr>>
      BY <2>1 DEF CancelReturns
    <2>. QED  BY <1>1, <1>3, <1>4, <1>5, <1>7, <1>8, <1>11, <2>1 DEF System, HandlerStep
  <1>. QED  BY <1>10, <1>11 DEF Next

\* In every reachable state.
LEMMA RegistryHolds == Spec => []RegistryInv
  <1>1. Init => RegistryInv
    BY DEF Init, RegistryInv, Waits, OnStack, Single
  <1>2. IInv /\ RegistryInv /\ [Next]_vars => RegistryInv'
    <2>1. ASSUME RegistryInv, UNCHANGED vars PROVE RegistryInv'
      BY <2>1 DEF vars, callVars, handlerVars, RegistryInv, Waits, OnStack, Single
    <2>. QED  BY <2>1, RegistryStep
  <1>. QED  BY <1>1, <1>2, SqlRunInvariant, PTL DEF Spec

\* For any number of runs under one id: what can be cancelled is registered,
\* once, and nothing else is (register, unregister and cancel of the registry).
THEOREM RegistryIsExact == Spec => []RegistryHoldsWaitingRuns
  <1>1. IInv /\ RegistryInv => RegistryHoldsWaitingRuns
    <2> SUFFICES ASSUME IInv, RegistryInv PROVE RegistryHoldsWaitingRuns
      OBVIOUS
    <2>1. ASSUME NEW id \in RunIds, NEW i \in DOMAIN running[id]
          PROVE  LET r == running[id][i] IN
                   /\ pc[r] = "await" /\ runId[r] = id /\ ~ intr[r]
                   /\ \A j \in DOMAIN running[id] : running[id][j] = r => i = j
      <3>1. running[id][i] \in Runs /\ OnStack(running[id], running[id][i])
        BY DEF IInv, TypeOK, CancelTypes, OnStack
      <3>. QED  BY <3>1 DEF RegistryInv, Waits, Single
    <2>2. ASSUME NEW r \in Runs, pc[r] = "await", ~ intr[r]
          PROVE  \E i \in DOMAIN running[runId[r]] : running[runId[r]][i] = r
      BY <2>2 DEF RegistryInv, Waits, OnStack
    <2>. QED  BY <2>1, <2>2 DEF RegistryHoldsWaitingRuns
  <1>. QED  BY <1>1, SqlRunInvariant, RegistryHolds, PTL
-----------------------------------------------------------------------------
(* Nothing else gets stuck.  What waits for a fiber waits for one that has *)
(* been forked, and a fiber that waits for a promise, for one that runs.   *)

ForkedInv ==
  /\ \A r \in Runs : pc[r] = "await" => fiber[r] # "none"
  /\ \A r \in Runs : fiber[r] = "write" => writer[r] # "none"
  /\ \A c \in Cancels : cancel[c] = "waiting" => fiber[target[c]] # "none"

\* What a step does to the places of a run: no fiber and no promise gets back to
\* where it began, and whoever starts to wait has started what he waits for.
LEMMA PlacesStep ==
  ASSUME IInv, Next, NEW r \in Runs
  PROVE  /\ fiber[r] # "none" => fiber'[r] # "none"
         /\ writer[r] # "none" => writer'[r] # "none"
         /\ pc'[r] = "await" => pc[r] = "await" \/ fiber'[r] # "none"
         /\ fiber'[r] = "write" => fiber[r] = "write" \/ writer'[r] # "none"
  <1> USE DEF callVars, handlerVars, fiberVars, cancelVars, FiberTypes
  <1>0. FiberTypes /\ CallTypes
    BY DEF IInv, TypeOK
  <1> DEFINE Goal == /\ fiber[r] # "none" => fiber'[r] # "none"
                     /\ writer[r] # "none" => writer'[r] # "none"
                     /\ pc'[r] = "await" => pc[r] = "await" \/ fiber'[r] # "none"
                     /\ fiber'[r] = "write" => fiber[r] = "write" \/ writer'[r] # "none"
  <1>1. ASSUME Client PROVE Goal
    BY <1>0, <1>1 DEF Client, StartRun, Disconnect, Cancel, CancelFindsNothing, CallTypes
  <1>2. ASSUME NEW c \in Cancels, CancelReturns(c) PROVE Goal
    BY <1>2 DEF CancelReturns
  <1>3. ASSUME NEW p \in Runs, HandlerStep(p) PROVE Goal
    BY <1>0, <1>3 DEF HandlerStep, AcquireFails, Fork, Awaited, Record, CallTypes
  <1>4. ASSUME NEW p \in Runs, ReadStep(p) PROVE Goal
    BY <1>0, <1>4 DEF ReadStep, Classify, Connect, ConnectFails, Begin, BeginFails, BatchArrives,
                      ReadFails, TypesNamed, Interrupted, Kill, StatementEnds, Unwind, Ends, Unwinds
  <1>5. ASSUME NEW p \in Runs, WriteStep(p) PROVE Goal
    BY <1>0, <1>5 DEF WriteStep, WriterConnects, WriterDoesNotConnect, Execute, Commit, CommitFails,
                      Rollback, WriteSettles, Ends
  <1>. QED  BY <1>1, <1>2, <1>3, <1>4, <1>5 DEF Next, System

LEMMA ForkedStep ==
  ASSUME IInv, RegistryInv, ForkedInv, Next
  PROVE  ForkedInv'
  <1> USE DEF ForkedInv
  <1>0. CancelTypes
    BY DEF IInv, TypeOK
  <1>1. ASSUME NEW r \in Runs PROVE /\ pc'[r] = "await" => fiber'[r] # "none"
                                    /\ fiber'[r] = "write" => writer'[r] # "none"
    BY PlacesStep
  <1>2. ASSUME NEW c \in Cancels, cancel'[c] = "waiting" PROVE fiber'[target'[c]] # "none"
    <2>1. target'[c] \in Runs /\ fiber[target'[c]] # "none"
      <3>1. ASSUME UNCHANGED cancelVars PROVE target'[c] \in Runs /\ fiber[target'[c]] # "none"
        BY <1>0, <1>2, <3>1 DEF CancelTypes, cancelVars
      <3>2. ASSUME NEW e \in Cancels, NEW id \in RunIds, CancelReturns(e) \/ CancelFindsNothing(e, id)
            PROVE  target'[c] \in Runs /\ fiber[target'[c]] # "none"
        BY <1>0, <1>2, <3>2 DEF CancelTypes, CancelReturns, CancelFindsNothing
      <3>3. ASSUME NEW e \in Cancels, NEW id \in RunIds, Cancel(e, id)
            PROVE  target'[c] \in Runs /\ fiber[target'[c]] # "none"
        <4>1. Last(running[id]) \in Runs /\ OnStack(running[id], Last(running[id]))
          BY <1>0, <3>3, PopProperties DEF Cancel, CancelTypes
        <4>2. fiber[Last(running[id])] # "none"
          BY <4>1 DEF RegistryInv, Waits
        <4>3. CASE e = c
          BY <1>0, <3>3, <4>1, <4>2, <4>3 DEF Cancel, CancelTypes
        <4>4. CASE e # c
          BY <1>0, <1>2, <3>3, <4>4 DEF Cancel, CancelTypes
        <4>. QED  BY <4>3, <4>4
      <3>4. ASSUME NEW r \in Runs, HandlerStep(r) \/ ReadStep(r) \/ WriteStep(r) PROVE UNCHANGED cancelVars
        BY <3>4 DEF HandlerStep, AcquireFails, Fork, Awaited, Record, ReadStep, Classify, Connect,
              ConnectFails, Begin, BeginFails, BatchArrives, ReadFails, TypesNamed, Interrupted, Kill,
              StatementEnds, Unwind, WriteStep, WriterConnects, WriterDoesNotConnect, Execute, Commit,
              CommitFails, Rollback, WriteSettles, callVars
      <3>5. ASSUME NEW r \in Runs, NEW id \in RunIds, NEW q \in Requests, StartRun(r, id, q) \/ Disconnect(r)
            PROVE  UNCHANGED cancelVars
        BY <3>5 DEF StartRun, Disconnect
      <3>6. ASSUME NEW r \in Runs, Disconnect(r) PROVE UNCHANGED cancelVars
        BY <3>6 DEF Disconnect
      <3>7. CASE Client
        BY <3>1, <3>2, <3>3, <3>5, <3>6, <3>7 DEF Client
      <3>8. CASE System
        <4>1. ASSUME NEW e \in Cancels, CancelReturns(e)
              PROVE  target'[c] \in Runs /\ fiber[target'[c]] # "none"
          BY <1>0, <1>2, <4>1 DEF CancelTypes, CancelReturns
        <4>. QED  BY <3>1, <3>4, <3>8, <4>1 DEF System
      <3>. QED  BY <3>7, <3>8 DEF Next
    <2>. QED  BY <2>1, PlacesStep
  <1>. QED  BY <1>1, <1>2

\* If nobody can go on and something is under way, then every session is held by
\* a run that wants to send a KILL.
LEMMA OnlyKillsWait ==
  ASSUME IInv, ForkedInv, ~ Ready, ~ Quiet
  PROVE  PoolExhaustedByKills
  <1>0. FiberTypes /\ CallTypes /\ CancelTypes /\ SessionTypes
    BY DEF IInv, TypeOK
  <1>1. ASSUME NEW r \in Runs
        PROVE  /\ pc[r] \notin {"acquire", "record"} /\ ~ FiberIsOver(r)
               /\ fiber[r] \notin {"start", "begin", "read", "types"}
               /\ "connect" \in {fiber[r], writer[r]} => ~ MayNotConnect
               /\ ~ MayKill(r) /\ ~ StatementGoesOn(r) /\ ~ StatementIsOver(r)
               /\ ~ WriteIsOver(r)
               /\ ~ (fiber[r] = "write" /\ intr[r])
               /\ writer[r] \notin {"exec", "commit", "rollback"}
    BY DEF Ready
  <1>2. ASSUME NEW r \in Runs PROVE fiber[r] # "unwind"
    <2>1. SUFFICES ASSUME fiber[r] = "unwind" PROVE FALSE
      OBVIOUS
    <2>2. Holds(r)
      BY <2>1 DEF IInv, FiberInv, ReadHolds
    <2>. QED  BY <1>1, <2>1, <2>2 DEF StatementGoesOn, StatementIsOver
  <1>3. ASSUME NEW r \in Runs, fiber[r] \in {"connect", "kill", "write"} \/ writer[r] = "connect"
        PROVE  dialect = "mysql" /\ Free = {}
    <2>1. CASE fiber[r] = "connect" \/ writer[r] = "connect"
      BY <1>0, <1>1, <2>1, ConstantsAssumption DEF MayNotConnect, CallTypes
    <2>2. CASE fiber[r] = "kill"
      BY <1>1, <2>2 DEF MayKill
    <2>3. CASE fiber[r] = "write"
      <3>1. writer[r] \notin {"none", "done", "failed"}
        BY <1>1, <2>3 DEF ForkedInv, WriteIsOver
      <3>2. writer[r] = "connect"
        BY <1>0, <1>1, <3>1 DEF FiberTypes
      <3>. QED  BY <2>1, <3>2
    <2>. QED  BY <1>3, <2>1, <2>2, <2>3
  <1>4. \E r \in Runs : fiber[r] \in {"connect", "kill", "write"} \/ writer[r] = "connect"
    <2>1. SUFFICES ASSUME \A r \in Runs : fiber[r] \notin {"connect", "kill", "write"} /\ writer[r] # "connect"
                   PROVE  Quiet
      OBVIOUS
    <2>2. ASSUME NEW r \in Runs PROVE fiber[r] \in {"none", "ended"} /\ writer[r] \in {"none", "done", "failed"}
      BY <1>0, <1>1, <1>2, <2>1 DEF FiberTypes
    <2>3. ASSUME NEW r \in Runs PROVE pc[r] \in {"idle", "done", "gone"}
      BY <1>0, <1>1, <2>2 DEF CallTypes, FiberIsOver, ForkedInv
    <2>4. ASSUME NEW c \in Cancels PROVE cancel[c] # "waiting"
      <3>1. SUFFICES ASSUME cancel[c] = "waiting" PROVE FALSE
        OBVIOUS
      <3>2. target[c] \in Runs /\ fiber[target[c]] # "none"
        BY <1>0, <3>1 DEF CancelTypes, ForkedInv
      <3>3. fiber[target[c]] # "ended"
        BY <3>1 DEF Ready, CancelIsOver
      <3>. QED  BY <2>2, <3>2, <3>3
    <2>. QED  BY <2>2, <2>3, <2>4 DEF Quiet
  <1>5. dialect = "mysql" /\ Free = {}
    BY <1>3, <1>4
  <1>6. ASSUME NEW s \in Sessions PROVE holder[s] # NoRun /\ fiber[holder[s]] = "kill"
    <2>1. holder[s] # NoRun /\ holder[s] \in Runs
      BY <1>0, <1>5 DEF Free, SessionTypes
    <2>2. ReadHolds(holder[s]) \/ WriteHolds(holder[s])
      BY <2>1 DEF IInv, SessionInv
    <2>. QED  BY <1>1, <1>2, <2>1, <2>2 DEF ReadHolds, WriteHolds
  <1>. QED  BY <1>5, <1>6 DEF PoolExhaustedByKills

LEMMA ForkedHolds == Spec => []ForkedInv
  <1>1. Init => ForkedInv
    BY DEF Init, ForkedInv
  <1>2. IInv /\ RegistryInv /\ ForkedInv /\ [Next]_vars => ForkedInv'
    <2>1. ASSUME ForkedInv, UNCHANGED vars PROVE ForkedInv'
      BY <2>1 DEF vars, callVars, handlerVars, fiberVars, cancelVars, ForkedInv
    <2>. QED  BY <2>1, ForkedStep
  <1>. QED  BY <1>1, <1>2, SqlRunInvariant, RegistryHolds, PTL DEF Spec

\* For any number of runs, cancels and sessions: only a pool full of runs that
\* want to send a KILL over it stops the server (cancelBackend, killQuery).
THEOREM OnlyKillsStop == Spec => []OnlyKillsBlock
  <1>1. IInv /\ ForkedInv => OnlyKillsBlock
    BY OnlyKillsWait DEF OnlyKillsBlock
  <1>. QED  BY <1>1, SqlRunInvariant, ForkedHolds, PTL
-----------------------------------------------------------------------------
(* SqlRun implements SqlExecution                                          *)

\* What the place of a run says of its result: a fiber that unwinds has one or was
\* interrupted, one that ended has one, a run that was refused for its text has one
\* from the start, and a promise still at work has a fiber that waits, or was told
\* to stop waiting.
ResultInv(r) ==
  /\ pc[r] # "idle" => request[r] # "none"
  /\ request[r] = "batch" => pc[r] \notin {"acquire", "await"} /\ fiber[r] = "none" /\ exit[r] = "error"
  /\ pc[r] = "record" => fiber[r] = "ended" \/ request[r] = "batch"
  /\ fiber[r] = "none" => ~ intr[r]
  /\ fiber[r] \in {"none", "start"} => r \notin changed
  /\ fiber[r] = "unwind" => intr[r] \/ exit[r] \in Outcomes
  /\ fiber[r] = "ended" => exit[r] \in Outcomes
  /\ writer[r] \notin {"none", "done", "failed"} =>
       fiber[r] = "write" \/ (fiber[r] = "ended" /\ exit[r] = "canceled")

ResultsInv == \A r \in Runs : ResultInv(r)

LEMMA ResultsStep ==
  ASSUME IInv, RegistryInv, ForkedInv, ResultsInv, Next
  PROVE  ResultsInv'
  <1> USE DEF callVars, handlerVars, fiberVars, cancelVars, sessionVars, dataVars
  <1>0. FiberTypes /\ CallTypes /\ CancelTypes
    BY DEF IInv, TypeOK
  <1> SUFFICES ASSUME NEW r \in Runs PROVE ResultInv(r)'
    BY DEF ResultsInv
  <1>1. ResultInv(r) /\ FiberInv(r) /\ OutcomeInv(r)
    BY DEF ResultsInv, IInv
  <1> USE <1>0, <1>1 DEF ResultInv, OutcomeInv, Settled, FiberTypes, CallTypes
  <1>2. ASSUME NEW p \in Runs, HandlerStep(p) PROVE ResultInv(r)'
    <2>1. CASE AcquireFails(p)
      BY <2>1 DEF AcquireFails
    <2>2. CASE Fork(p)
      BY <2>2 DEF Fork
    <2>3. CASE Awaited(p)
      BY <2>3 DEF Awaited, FiberIsOver
    <2>4. CASE Record(p)
      BY <2>4 DEF Record
    <2>. QED  BY <1>2, <2>1, <2>2, <2>3, <2>4 DEF HandlerStep
  <1>3. ASSUME NEW p \in Runs, ReadStep(p) PROVE ResultInv(r)'
    <2> USE DEF Ends, Unwinds, FiberInv, Outcomes
    <2>1. CASE Classify(p)
      BY <2>1 DEF Classify
    <2>2. CASE (\E s \in Sessions : Connect(p, s)) \/ ConnectFails(p) \/ Begin(p) \/ BeginFails(p)
      BY <2>2 DEF Connect, ConnectFails, Begin, BeginFails
    <2>3. CASE BatchArrives(p) \/ ReadFails(p) \/ TypesNamed(p)
      BY <2>3 DEF BatchArrives, ReadFails, TypesNamed, Executed
    <2>4. CASE Interrupted(p) \/ Kill(p)
      BY <2>4 DEF Interrupted, Kill, MayKill
    <2>5. CASE StatementEnds(p) \/ Unwind(p)
      BY <2>5 DEF StatementEnds, StatementGoesOn, Executed, Unwind, StatementIsOver
    <2>. QED  BY <1>3, <2>1, <2>2, <2>3, <2>4, <2>5 DEF ReadStep
  <1>4. ASSUME NEW p \in Runs, WriteStep(p) PROVE ResultInv(r)'
    <2> USE DEF Ends, FiberInv, Outcomes, WriteIsOver
    <2>1. CASE (\E s \in Sessions : WriterConnects(p, s)) \/ WriterDoesNotConnect(p) \/ Execute(p)
      BY <2>1 DEF WriterConnects, WriterDoesNotConnect, Execute
    <2>2. CASE Commit(p) \/ CommitFails(p) \/ Rollback(p)
      BY <2>2 DEF Commit, CommitFails, Rollback
    <2>3. CASE WriteSettles(p)
      BY <2>3 DEF WriteSettles
    <2>. QED  BY <1>4, <2>1, <2>2, <2>3 DEF WriteStep
  <1>5. ASSUME NEW p \in Runs, NEW id \in RunIds, NEW q \in Requests, StartRun(p, id, q)
        PROVE  ResultInv(r)'
    BY <1>5 DEF StartRun, Requests, ReadRequests, Outcomes
  <1>6. ASSUME NEW p \in Runs, Disconnect(p) PROVE ResultInv(r)'
    BY <1>6 DEF Disconnect, CancelTypes, ForkedInv
  <1>7. ASSUME NEW c \in Cancels, NEW id \in RunIds, Cancel(c, id) PROVE ResultInv(r)'
    <2>1. Last(running[id]) \in Runs /\ OnStack(running[id], Last(running[id]))
      BY <1>0, <1>7, PopProperties DEF Cancel, CancelTypes
    <2>2. fiber[Last(running[id])] # "none"
      BY <2>1 DEF RegistryInv, Waits, ForkedInv
    <2>. QED  BY <1>7, <2>1, <2>2 DEF Cancel, CancelTypes
  <1>8. ASSUME NEW c \in Cancels, NEW id \in RunIds, CancelReturns(c) \/ CancelFindsNothing(c, id)
        PROVE  ResultInv(r)'
    BY <1>8 DEF CancelReturns, CancelFindsNothing
  <1>9. ASSUME NEW c \in Cancels, CancelReturns(c) PROVE ResultInv(r)'
    BY <1>9 DEF CancelReturns
  <1>. QED  BY <1>2, <1>3, <1>4, <1>5, <1>6, <1>7, <1>8, <1>9 DEF Next, Client, System

\* A step that shows in none of the variables of SqlExecution.
LEMMA NothingShows ==
  ASSUME UNCHANGED <<request, intr, answer, history, changed>>,
         \A r \in Runs : Result(r)' = Result(r)
  PROVE  UNCHANGED Execution!vars
  BY DEF Execution!vars

\* A step of a fiber shows at its end only.
LEMMA FiberRefines ==
  ASSUME IInv, IInv', ResultsInv, ResultsInv', NEW p \in Runs,
         UNCHANGED <<pc, request, intr, answer, history, changed>>,
         \A r \in Runs : r # p => fiber'[r] = fiber[r] /\ exit'[r] = exit[r],
         fiber[p] \notin {"none", "ended"},
         fiber'[p] = "ended" => (exit'[p] = "canceled" <=> intr[p])
  PROVE  UNCHANGED Execution!vars \/ Execution!End(p)
  <1>0. FiberTypes /\ CallTypes /\ FiberTypes'
    BY DEF IInv, TypeOK
  <1>1. /\ ResultInv(p) /\ FiberInv(p) /\ OutcomeInv(p)
        /\ ResultInv(p)' /\ FiberInv(p)'
    BY DEF ResultsInv, IInv
  <1>2. request[p] \notin {"none", "batch"} /\ answer[p] = "none"
    BY <1>1 DEF ResultInv, OutcomeInv, Settled
  <1>3. Result(p) = "none"
    BY <1>2 DEF Result
  <1>4. ASSUME NEW r \in Runs, r # p PROVE Result(r)' = Result(r)
    BY <1>4 DEF Result
  <1>5. CASE fiber'[p] # "ended"
    <2>1. Result(p)' = "none"
      BY <1>2, <1>5 DEF Result
    <2>. QED  BY <1>3, <1>4, <2>1, NothingShows
  <1>6. CASE fiber'[p] = "ended"
    <2>1. Result(p)' = exit'[p] /\ exit'[p] \in Outcomes
      BY <1>1, <1>6 DEF Result, ResultInv
    <2>2. exit'[p] = "ok" /\ request[p] = "write" => p \in changed
      BY <1>1, <1>6 DEF FiberInv
    <2>3. [r \in Runs |-> Result(r)]' = [[r \in Runs |-> Result(r)] EXCEPT ![p] = exit'[p]]
      BY <1>4, <2>1
    <2>. QED  BY <1>2, <1>3, <1>6, <2>1, <2>2, <2>3 DEF Execution!End, Execution!Underway, Outcomes
  <1>. QED  BY <1>5, <1>6

LEMMA ReadRefines ==
  ASSUME IInv, IInv', ResultsInv, ResultsInv', NEW p \in Runs, ReadStep(p)
  PROVE  UNCHANGED Execution!vars \/ Execution!End(p)
  <1> USE DEF callVars, handlerVars, fiberVars, cancelVars, sessionVars, dataVars, FiberTypes, Ends, Unwinds
  <1>0. FiberTypes /\ CallTypes
    BY DEF IInv, TypeOK
  <1>1. ResultInv(p) /\ FiberInv(p) /\ FiberInv(p)'
    BY DEF ResultsInv, IInv
  <1> DEFINE Goal == /\ UNCHANGED <<pc, request, intr, answer, history, changed>>
                     /\ \A r \in Runs : r # p => fiber'[r] = fiber[r] /\ exit'[r] = exit[r]
                     /\ fiber[p] \notin {"none", "ended"}
                     /\ fiber'[p] = "ended" => (exit'[p] = "canceled" <=> intr[p])
  <1>2. Goal
    <2> USE <1>0
    <2>1. CASE Classify(p)
      BY <2>1 DEF Classify
    <2>2. CASE (\E s \in Sessions : Connect(p, s)) \/ ConnectFails(p) \/ Begin(p) \/ BeginFails(p)
      BY <2>2 DEF Connect, ConnectFails, Begin, BeginFails
    <2>3. CASE BatchArrives(p)
      BY <1>1, <2>3 DEF BatchArrives, Executed, FiberInv
    <2>4. CASE ReadFails(p) \/ TypesNamed(p)
      BY <2>4 DEF ReadFails, TypesNamed
    <2>5. CASE Interrupted(p) \/ Kill(p)
      BY <2>5 DEF Interrupted, Kill, MayKill
    <2>6. CASE StatementEnds(p)
      BY <1>1, <2>6 DEF StatementEnds, StatementGoesOn, Executed, FiberInv
    <2>7. CASE Unwind(p)
      BY <1>1, <2>7 DEF Unwind, StatementIsOver, FiberInv
    <2>. QED  BY <2>1, <2>2, <2>3, <2>4, <2>5, <2>6, <2>7 DEF ReadStep
  <1>. QED  BY <1>2, FiberRefines

LEMMA WriteRefines ==
  ASSUME IInv, IInv', ResultsInv, ResultsInv', NEW p \in Runs, WriteStep(p)
  PROVE  UNCHANGED Execution!vars \/ Execution!End(p) \/ Execution!Change(p)
  <1> USE DEF callVars, handlerVars, fiberVars, cancelVars, sessionVars, dataVars
  <1>0. FiberTypes /\ CallTypes
    BY DEF IInv, TypeOK
  <1>1. ResultInv(p) /\ FiberInv(p) /\ OutcomeInv(p)
    BY DEF ResultsInv, IInv
  <1>2. ASSUME UNCHANGED <<request, intr, answer, history, fiber, exit>>
        PROVE  \A r \in Runs : Result(r)' = Result(r)
    BY <1>2 DEF Result
  <1>3. CASE (\E s \in Sessions : WriterConnects(p, s)) \/ WriterDoesNotConnect(p) \/ Execute(p) \/ Rollback(p)
    <2>1. UNCHANGED <<request, intr, answer, history, fiber, exit, changed>>
      BY <1>3 DEF WriterConnects, WriterDoesNotConnect, Execute, Rollback
    <2>. QED  BY <1>2, <2>1, NothingShows
  <1>4. CASE Commit(p) \/ CommitFails(p)
    <2>1. /\ UNCHANGED <<request, intr, answer, history, fiber, exit>>
          /\ changed' \in {changed, changed \cup {p}}
          /\ writer[p] = "commit"
      BY <1>4 DEF Commit, CommitFails
    <2>2. CASE changed' = changed
      BY <1>2, <2>1, <2>2, NothingShows
    <2>3. CASE changed' # changed
      <3>1. request[p] = "write" /\ Result(p) \in {"none", "canceled"}
        BY <1>1, <2>1 DEF FiberInv, ResultInv, OutcomeInv, Settled, Result
      <3>2. [r \in Runs |-> Result(r)]' = [r \in Runs |-> Result(r)]
        BY <1>2, <2>1
      <3>3. p \notin changed /\ changed' = changed \cup {p}
        BY <2>1, <2>3
      <3>. QED  BY <2>1, <3>1, <3>2, <3>3 DEF Execution!Change
    <2>. QED  BY <2>2, <2>3
  <1>5. CASE WriteSettles(p)
    <2>1. /\ UNCHANGED <<pc, request, intr, answer, history, changed>>
          /\ \A r \in Runs : r # p => fiber'[r] = fiber[r] /\ exit'[r] = exit[r]
          /\ fiber[p] \notin {"none", "ended"}
          /\ fiber'[p] = "ended" => (exit'[p] = "canceled" <=> intr[p])
      BY <1>0, <1>5 DEF WriteSettles, WriteIsOver, Ends, FiberTypes
    <2>. QED  BY <2>1, FiberRefines
  <1>. QED  BY <1>3, <1>4, <1>5 DEF WriteStep

LEMMA HandlerRefines ==
  ASSUME IInv, ResultsInv, NEW p \in Runs, HandlerStep(p)
  PROVE  UNCHANGED Execution!vars \/ Execution!Refuse(p) \/ Execution!Report(p)
  <1> USE DEF fiberVars, cancelVars, sessionVars, dataVars
  <1>0. FiberTypes /\ CallTypes
    BY DEF IInv, TypeOK
  <1>1. ResultInv(p) /\ OutcomeInv(p)
    BY DEF ResultsInv, IInv
  <1>2. CASE AcquireFails(p)
    <2>1. /\ request[p] \notin {"none", "batch"} /\ fiber[p] = "none" /\ answer[p] = "none"
          /\ p \notin changed /\ ~ intr[p]
      BY <1>1, <1>2 DEF AcquireFails, ResultInv, OutcomeInv
    <2>2. /\ answer' = [answer EXCEPT ![p] = "error"]
          /\ UNCHANGED <<request, history, fiber, exit, intr, changed>>
      BY <1>2 DEF AcquireFails
    <2>3. Result(p) = "none" /\ Result(p)' = "error"
      BY <1>0, <2>1, <2>2 DEF Result, CallTypes
    <2>4. [r \in Runs |-> Result(r)]' = [[r \in Runs |-> Result(r)] EXCEPT ![p] = "error"]
      BY <1>0, <2>2, <2>3 DEF Result, CallTypes
    <2>. QED  BY <2>1, <2>2, <2>3, <2>4 DEF Execution!Refuse, Execution!Underway
  <1>3. CASE Fork(p) \/ Awaited(p)
    <2>1. UNCHANGED <<request, intr, answer, history, changed, exit>>
      BY <1>3 DEF Fork, Awaited
    <2>2. \A r \in Runs : fiber'[r] = "ended" <=> fiber[r] = "ended"
      BY <1>0, <1>1, <1>3 DEF Fork, Awaited, OutcomeInv, FiberTypes
    <2>. QED  BY <2>1, <2>2, NothingShows DEF Result
  <1>4. CASE Record(p)
    <2>1. Result(p) = exit[p] /\ exit[p] # "none" /\ answer[p] = "none" /\ history[p] = "none"
      BY <1>1, <1>4 DEF Record, ResultInv, OutcomeInv, Result, Outcomes
    <2>2. /\ answer' = [answer EXCEPT ![p] = exit[p]]
          /\ history' \in {history, [history EXCEPT ![p] = exit[p]]}
          /\ UNCHANGED <<request, fiber, exit, intr, changed>>
      BY <1>4 DEF Record
    <2>3. ASSUME NEW r \in Runs PROVE Result(r)' = Result(r)
      BY <1>0, <1>1, <1>4, <2>2 DEF Result, CallTypes, Record, ResultInv
    <2>. QED  BY <2>1, <2>2, <2>3 DEF Execution!Report
  <1>. QED  BY <1>2, <1>3, <1>4 DEF HandlerStep

LEMMA ClientRefines ==
  ASSUME IInv, RegistryInv, ResultsInv, Client
  PROVE  UNCHANGED Execution!vars \/ \E r \in Runs : Execution!Ask(r) \/ Execution!Stop(r) \/ Execution!Report(r)
  <1> USE DEF handlerVars, fiberVars, cancelVars, sessionVars, dataVars
  <1>0. CallTypes /\ CancelTypes
    BY DEF IInv, TypeOK
  <1>1. ASSUME NEW p \in Runs, NEW id \in RunIds, NEW q \in Requests, StartRun(p, id, q)
        PROVE  Execution!Ask(p)
    <2>1. /\ request[p] = "none" /\ fiber[p] = "none" /\ answer[p] = "none"
      BY <1>1 DEF StartRun, IInv, OutcomeInv
    <2>2. /\ request' = [request EXCEPT ![p] = q]
          /\ exit' = [exit EXCEPT ![p] = IF q = "batch" THEN "error" ELSE @]
          /\ UNCHANGED <<fiber, intr, answer, history, changed>>
      BY <1>1 DEF StartRun
    <2>3. Result(p) = "none" /\ Result(p)' = IF q = "batch" THEN "error" ELSE "none"
      BY <1>0, <2>1, <2>2 DEF Result, CallTypes, IInv, TypeOK, FiberTypes
    <2>4. ASSUME NEW r \in Runs, r # p PROVE Result(r)' = Result(r) /\ request'[r] = request[r]
      BY <1>0, <2>2, <2>4 DEF Result, CallTypes, IInv, TypeOK, FiberTypes
    <2>5. request'[p] = q /\ q # "none"
      BY <1>0, <2>2 DEF CallTypes, Requests, ReadRequests
    <2>6. CASE q = "batch"
      BY <2>1, <2>2, <2>3, <2>4, <2>5, <2>6 DEF Execution!Ask
    <2>7. CASE q # "batch"
      BY <2>1, <2>2, <2>3, <2>4, <2>5, <2>7 DEF Execution!Ask
    <2>. QED  BY <2>6, <2>7
  <1>2. ASSUME NEW p \in Runs, request[p] # "none", intr' = [intr EXCEPT ![p] = TRUE],
               UNCHANGED <<request, fiber, exit, answer, history, changed>>
        PROVE  Execution!Stop(p)
    <2>1. {r \in Runs : intr'[r]} = {r \in Runs : intr[r]} \cup {p}
      BY <1>0, <1>2 DEF CancelTypes
    <2>2. \A r \in Runs : Result(r)' = Result(r)
      BY <1>2 DEF Result
    <2>. QED  BY <1>2, <2>1, <2>2 DEF Execution!Stop
  <1>3. ASSUME NEW p \in Runs, Disconnect(p)
        PROVE  UNCHANGED Execution!vars \/ Execution!Stop(p) \/ Execution!Report(p)
    <2>1. ResultInv(p) /\ OutcomeInv(p)
      BY DEF ResultsInv, IInv
    <2>2. UNCHANGED <<request, fiber, exit, answer, changed>>
      BY <1>3 DEF Disconnect
    <2>3. \A r \in Runs : Result(r)' = Result(r)
      BY <2>2 DEF Result
    <2>4. CASE pc[p] = "await"
      <3>1. history' = history /\ intr' = [intr EXCEPT ![p] = TRUE]
        BY <1>0, <1>3, <2>4 DEF Disconnect, CancelTypes
      <3>. QED  BY <1>2, <2>1, <2>2, <2>4, <3>1 DEF ResultInv
    <2>5. CASE pc[p] # "await"
      <3>1. intr' = intr
        BY <1>0, <1>3, <2>5 DEF Disconnect, CancelTypes
      <3>2. CASE history' = history
        BY <2>2, <2>3, <3>1, <3>2, NothingShows
      <3>3. CASE pc[p] = "record" /\ history' = [history EXCEPT ![p] = exit[p]]
        <4>1. Result(p) = exit[p] /\ exit[p] # "none" /\ answer[p] = "none" /\ history[p] = "none"
          BY <2>1, <3>3 DEF ResultInv, OutcomeInv, Result, Outcomes
        <4>. QED  BY <2>2, <2>3, <3>1, <3>3, <4>1 DEF Execution!Report
      <3>. QED  BY <1>3, <3>2, <3>3 DEF Disconnect
    <2>. QED  BY <2>4, <2>5
  <1>4. ASSUME NEW c \in Cancels, NEW id \in RunIds, Cancel(c, id)
        PROVE  \E r \in Runs : Execution!Stop(r)
    <2>1. PICK p \in Runs : p = Last(running[id]) /\ OnStack(running[id], p)
      BY <1>0, <1>4, PopProperties DEF Cancel, CancelTypes
    <2>2. request[p] # "none"
      BY <2>1 DEF RegistryInv, Waits, ResultsInv, ResultInv
    <2>3. Execution!Stop(p)
      BY <1>2, <1>4, <2>1, <2>2 DEF Cancel
    <2>. QED  BY <2>3
  <1>5. ASSUME NEW c \in Cancels, NEW id \in RunIds, CancelFindsNothing(c, id)
        PROVE  UNCHANGED Execution!vars
    BY <1>5, NothingShows DEF CancelFindsNothing, Result
  <1>. QED  BY <1>1, <1>3, <1>4, <1>5 DEF Client

LEMMA InitRefines == Init => Execution!Init
  BY DEF Init, Execution!Init, Result

LEMMA NextRefines ==
  ASSUME IInv, IInv', RegistryInv, ResultsInv, ResultsInv', [Next]_vars
  PROVE  [Execution!Next]_(Execution!vars)
  <1>1. CASE UNCHANGED vars
    BY <1>1, NothingShows DEF vars, callVars, handlerVars, fiberVars, dataVars, Result
  <1>2. CASE Client
    BY <1>2, ClientRefines DEF Execution!Next
  <1>3. ASSUME NEW r \in Runs, HandlerStep(r) \/ ReadStep(r) \/ WriteStep(r)
        PROVE  [Execution!Next]_(Execution!vars)
    BY <1>3, HandlerRefines, ReadRefines, WriteRefines DEF Execution!Next
  <1>4. ASSUME NEW c \in Cancels, CancelReturns(c) PROVE UNCHANGED Execution!vars
    BY <1>4, NothingShows DEF CancelReturns, handlerVars, fiberVars, dataVars, Result
  <1>. QED  BY <1>1, <1>2, <1>3, <1>4 DEF Next, System

\* For any number of runs, cancels and sessions: whatever fibers, kills, lost
\* clients and promises do, a run is nothing or one change at one point, and has
\* one result that client and history agree on (sql.run, collect, runWrite).
THEOREM RunsRefine == Spec => RunsAreAtomic
  <1>1. Init => Execution!Init
    BY InitRefines
  <1>2. Init => ResultsInv
    BY DEF Init, ResultsInv, ResultInv
  <1>3. IInv /\ RegistryInv /\ ForkedInv /\ ResultsInv /\ [Next]_vars => ResultsInv'
    <2>1. ASSUME ResultsInv, UNCHANGED vars PROVE ResultsInv'
      BY <2>1 DEF vars, callVars, handlerVars, fiberVars, dataVars, ResultsInv, ResultInv
    <2>. QED  BY <2>1, ResultsStep
  <1>4. IInv /\ IInv' /\ RegistryInv /\ ResultsInv /\ ResultsInv' /\ [Next]_vars
        => [Execution!Next]_(Execution!vars)
    BY NextRefines
  <1>. QED  BY <1>1, <1>2, <1>3, <1>4, SqlRunInvariant, RegistryHolds, ForkedHolds, PTL
            DEF Spec, RunsAreAtomic, Execution!Spec
=============================================================================
