-------------------------- MODULE ChatClientProofs --------------------------
(***************************************************************************)
(* Theorems about ChatClient, for every number of windows, views, turns    *)
(* and streams: a window never has two streams that can call its store,    *)
(* and so applies no event twice; and "Committed." is the truth.           *)
(***************************************************************************)
EXTENDS ChatClient, TLAPS

\* The part of TypeOK the argument needs.
HandleType ==
  /\ log \in Seq(Events)
  /\ mode \in [Windows -> {"none", "events", "send"}]
  /\ stop \in [Windows -> Slots \cup {0}]
  /\ stream \in [Windows -> [Slots -> Stream]]
  /\ applied \in [Windows -> Seq(Nat)]

\* A subscription is ahead of everything its window has applied, and nothing that
\* was applied is still to be published.
AheadInv ==
  \A w \in Windows : \A i \in 1 .. Len(applied[w]) :
    /\ applied[w][i] <= Len(log)
    /\ \A s \in Slots : stream[w][s].st = "open" => applied[w][i] <= stream[w][s].pos

\* A handle without a stream holds no stop.
StopInv == \A w \in Windows : mode[w] = "none" => stop[w] = 0

IInv == HandleType /\ StopInv /\ OneStream /\ AppliedOnce /\ AheadInv

\* Streams none of which can call the store back.
Quiet(slots) ==
  /\ slots \in [Slots -> Stream]
  /\ \A s \in Slots : ~ Feeding(slots[s])

LEMMA NoStreamType == NoStream \in Stream /\ ~ Feeding(NoStream)
  BY DEF NoStream, Stream, StreamStates, Feeding

\* stopStream leaves no stream that can call the store.
LEMMA StoppedIsQuiet ==
  ASSUME IInv, NEW w \in Windows
  PROVE  Quiet(Stopped(w))
  <1> USE DEF IInv, HandleType
  <1>1. CASE stop[w] = 0
    BY <1>1 DEF Stopped, Quiet, OneStream, Slots
  <1>2. CASE stop[w] # 0
    <2> DEFINE old == stream[w][stop[w]]
               new == IF old.st = "asked" /\ old.kind = "send"
                      THEN [old EXCEPT !.st = "orphan"] ELSE NoStream
    <2>1. stop[w] \in Slots /\ old \in Stream
      BY <1>2
    <2>2. new \in Stream /\ ~ Feeding(new)
      BY <2>1, NoStreamType DEF Stream, StreamStates, Feeding
    <2>3. Stopped(w) = [stream[w] EXCEPT ![stop[w]] = new]
      BY <1>2 DEF Stopped
    <2> HIDE DEF new
    <2>4. Stopped(w) \in [Slots -> Stream]
      BY <2>1, <2>2, <2>3
    <2>5. ASSUME NEW s \in Slots
          PROVE  ~ Feeding(Stopped(w)[s])
      BY <2>1, <2>2, <2>3 DEF OneStream
    <2>. QED
      BY <2>4, <2>5 DEF Quiet
  <1>. QED
    BY <1>1, <1>2

\* A stream that begins where no other is alive, or a handle that is cleared there.
LEMMA HandleStep ==
  ASSUME IInv, NEW w \in Windows, NEW slots, Quiet(slots),
         NEW what \in {"events", "send"},
         Begin(w, slots, what) \/ ClearHandle(w, slots),
         log' = log, applied' = applied
  PROVE  IInv'
  <1> USE DEF IInv, HandleType
  <1>1. PICK new \in [Slots -> Stream], at \in Slots \cup {0}, m \in {"none", "events", "send"} :
          /\ stream' = [stream EXCEPT ![w] = new]
          /\ mode' = [mode EXCEPT ![w] = m]
          /\ stop' = [stop EXCEPT ![w] = at]
          /\ \A s \in Slots : new[s].st # "open"
          /\ \A s \in Slots : Feeding(new[s]) => at = s /\ m = new[s].kind
          /\ m # "none" => at # 0 /\ Feeding(new[at])
          /\ m = "none" => at = 0
    <2>1. CASE ClearHandle(w, slots)
      BY <2>1 DEF ClearHandle, Quiet, Feeding
    <2>2. CASE Begin(w, slots, what)
      <3>1. PICK s \in Slots :
              /\ stream' = [stream EXCEPT ![w] = [slots EXCEPT ![s] =
                             [st |-> "asked", kind |-> what, pos |-> 0]]]
              /\ mode' = [mode EXCEPT ![w] = what]
              /\ stop' = [stop EXCEPT ![w] = s]
        BY <2>2 DEF Begin
      <3> DEFINE r == [st |-> "asked", kind |-> what, pos |-> 0]
                 new == [slots EXCEPT ![s] = r]
      <3>2. r \in Stream /\ Feeding(r) /\ r.st # "open" /\ r.kind = what
        BY DEF Stream, StreamStates, Feeding
      <3> HIDE DEF r
      <3>3. new \in [Slots -> Stream] /\ new[s] = r /\ \A q \in Slots : q # s => new[q] = slots[q]
        BY <3>2 DEF Quiet
      <3>4. s \in Slots \cup {0} /\ s # 0
        BY DEF Slots
      <3>5. stream' = [stream EXCEPT ![w] = new]
        BY <3>1 DEF r
      <3> HIDE DEF new
      <3>6. \A q \in Slots : new[q].st # "open" /\ (Feeding(new[q]) => q = s)
        BY <3>2, <3>3 DEF Quiet, Feeding
      <3>7. what \in {"none", "events", "send"} /\ what # "none"
        OBVIOUS
      <3>8. /\ \A q \in Slots : new[q].st # "open"
            /\ \A q \in Slots : Feeding(new[q]) => s = q /\ what = new[q].kind
            /\ Feeding(new[s])
        BY <3>2, <3>3, <3>6
      <3>9. stream' = [stream EXCEPT ![w] = new] /\ mode' = [mode EXCEPT ![w] = what]
            /\ stop' = [stop EXCEPT ![w] = s]
        BY <3>1, <3>5
      <3> USE <3>3, <3>4, <3>7
      <3> WITNESS new \in [Slots -> Stream], s \in Slots \cup {0},
                  what \in {"none", "events", "send"}
      <3>. QED
        BY <3>8, <3>9
    <2>. QED
      BY <2>1, <2>2
  <1>2. HandleType' /\ StopInv'
    BY <1>1 DEF StopInv
  <1>3. OneStream'
    BY <1>1 DEF OneStream
  <1>4. AppliedOnce'
    BY DEF AppliedOnce
  <1>5. AheadInv'
    BY <1>1 DEF AheadInv
  <1>. QED
    BY <1>2, <1>3, <1>4, <1>5

\* The server publishes, or does something no window can see yet.
LEMMA LogStep ==
  ASSUME IInv, UNCHANGED <<mode, stop, stream, applied>>,
         log' = log \/ \E e \in Events : log' = Append(log, e)
  PROVE  IInv'
  <1> USE DEF IInv, HandleType
  <1> HIDE DEF IInv, HandleType
  <1>1. log' \in Seq(Events) /\ Len(log') >= Len(log)
    <2>1. log \in Seq(Events)
      BY DEF IInv, HandleType
    <2>2. \A e \in Events : Append(log, e) \in Seq(Events) /\ Len(Append(log, e)) = Len(log) + 1
      BY <2>1
    <2>3. Len(log) \in Nat
      BY <2>1
    <2> HIDE DEF Events
    <2>. QED
      BY <2>1, <2>2, <2>3
  <1> USE DEF IInv, HandleType
  <1>2. HandleType' /\ StopInv' /\ OneStream' /\ AppliedOnce'
    BY <1>1 DEF StopInv, OneStream, AppliedOnce
  <1>3. AheadInv'
    BY <1>1 DEF AheadInv
  <1>. QED
    BY <1>2, <1>3

\* A stream changes on the server's side: it stays as dead as it was, or the one that
\* was asked for is subscribed at the end of the log.
LEMMA StreamStep ==
  ASSUME IInv, NEW w \in Windows, NEW s \in Slots, NEW r \in Stream,
         SetStream(w, s, r),
         Feeding(r) => Feeding(stream[w][s]) /\ r.kind = stream[w][s].kind,
         Feeding(stream[w][s]) => Feeding(r),
         r.st = "open" => r.pos = Len(log),
         UNCHANGED <<log, mode, stop, applied>>
  PROVE  IInv'
  <1> USE DEF IInv, HandleType
  <1>1. stream' = [stream EXCEPT ![w] = [stream[w] EXCEPT ![s] = r]]
    BY DEF SetStream
  <1>2. HandleType' /\ StopInv'
    BY <1>1 DEF StopInv
  <1>3. /\ stream'[w][s] = r
        /\ \A u \in Windows, q \in Slots : u # w \/ q # s => stream'[u][q] = stream[u][q]
    BY <1>1
  <1>4. OneStream'
    <2> SUFFICES ASSUME NEW u \in Windows
                 PROVE  /\ \A q \in Slots : Feeding(stream'[u][q]) =>
                              stop[u] = q /\ mode[u] = stream'[u][q].kind
                        /\ mode[u] # "none" => stop[u] # 0 /\ Feeding(stream'[u][stop[u]])
      BY DEF OneStream
    <2>1. \A q \in Slots : /\ Feeding(stream'[u][q]) => Feeding(stream[u][q])
                           /\ Feeding(stream[u][q]) => Feeding(stream'[u][q])
                           /\ Feeding(stream'[u][q]) => stream'[u][q].kind = stream[u][q].kind
      BY <1>3
    <2>2. stop[u] # 0 => stop[u] \in Slots
      OBVIOUS
    <2>. QED
      BY <2>1, <2>2 DEF OneStream
  <1>5. AppliedOnce'
    BY DEF AppliedOnce
  <1>6. AheadInv'
    <2> SUFFICES ASSUME NEW u \in Windows, NEW i \in 1 .. Len(applied[u]), NEW q \in Slots,
                        stream'[u][q].st = "open"
                 PROVE  applied[u][i] <= stream'[u][q].pos
      BY DEF AheadInv
    <2>1. CASE u = w /\ q = s
      BY <2>1, <1>3 DEF AheadInv
    <2>2. CASE ~ (u = w /\ q = s)
      BY <2>2, <1>3 DEF AheadInv
    <2>. QED
      BY <2>1, <2>2
  <1>. QED
    BY <1>2, <1>4, <1>5, <1>6

LEMMA OneMore ==
  ASSUME NEW k \in Nat, NEW j \in 1 .. k + 1
  PROVE  j \in 1 .. k \/ j = k + 1
  OBVIOUS

\* An event is applied: it is newer than all that were.
LEMMA DeliverStep ==
  ASSUME IInv, NEW w \in Windows, NEW s \in Slots, Deliver(w, s)
  PROVE  IInv'
  <1> USE DEF IInv, HandleType
  <1> DEFINE r == stream[w][s]
             n == r.pos + 1
             new == stream'[w][s]
  <1>1. /\ r \in Stream /\ r.st = "open" /\ r.pos \in Nat /\ r.pos < Len(log)
        /\ log' = log /\ mode' = mode /\ stop' = stop
        /\ applied' = [applied EXCEPT ![w] = Append(applied[w], n)]
    BY DEF Deliver, serverVars, Stream
  <1>2. /\ stream' \in [Windows -> [Slots -> Stream]]
        /\ new.st \in {"open", "ended"} /\ new.kind = r.kind /\ new.pos = n
        /\ \A u \in Windows, q \in Slots : u # w \/ q # s => stream'[u][q] = stream[u][q]
    <2> DEFINE st == IF r.kind = "send" /\ IsTerminal(log[n]) THEN "ended" ELSE "open"
               x == [st |-> st, kind |-> r.kind, pos |-> r.pos + 1]
    <2>1. stream' = [stream EXCEPT ![w] = [stream[w] EXCEPT ![s] = x]]
      BY DEF Deliver, SetStream
    <2>2. st \in {"open", "ended"}
      OBVIOUS
    <2> HIDE DEF st
    <2>3. x \in Stream /\ x.st = st /\ x.kind = r.kind /\ x.pos = n
      <3>1. x = [st |-> st, kind |-> r.kind, pos |-> n]
        OBVIOUS
      <3>2. r.kind \in {"events", "send", "none"} /\ n \in Nat
        BY <1>1 DEF Stream
      <3> HIDE DEF x
      <3>. QED
        BY <2>2, <3>1, <3>2 DEF Stream, StreamStates
    <2> HIDE DEF x
    <2>. QED
      BY <2>1, <2>2, <2>3
  <1>3. /\ \A u \in Windows : applied'[u] \in Seq(Nat)
        /\ \A u \in Windows : u # w => applied'[u] = applied[u]
        /\ Len(applied'[w]) = Len(applied[w]) + 1
        /\ applied'[w][Len(applied[w]) + 1] = n
        /\ \A i \in 1 .. Len(applied[w]) : applied'[w][i] = applied[w][i]
    BY <1>1
  <1>4. HandleType' /\ StopInv'
    BY <1>1, <1>2, <1>3 DEF StopInv
  <1>5. OneStream'
    <2> SUFFICES ASSUME NEW u \in Windows
                 PROVE  /\ \A q \in Slots : Feeding(stream'[u][q]) =>
                              stop[u] = q /\ mode[u] = stream'[u][q].kind
                        /\ mode[u] # "none" => stop[u] # 0 /\ Feeding(stream'[u][stop[u]])
      BY <1>1 DEF OneStream
    <2>1. \A q \in Slots : /\ Feeding(stream'[u][q]) <=> Feeding(stream[u][q])
                           /\ stream'[u][q].kind = stream[u][q].kind
      BY <1>1, <1>2 DEF Feeding
    <2>2. stop[u] # 0 => stop[u] \in Slots
      OBVIOUS
    <2>. QED
      BY <2>1, <2>2 DEF OneStream
  <1>6. \A i \in 1 .. Len(applied[w]) : applied[w][i] < n
    BY <1>1 DEF AheadInv
  <1>7. AppliedOnce'
    <2> SUFFICES ASSUME NEW u \in Windows, NEW i \in 1 .. Len(applied'[u]),
                        NEW j \in 1 .. Len(applied'[u]), i < j
                 PROVE  applied'[u][i] < applied'[u][j]
      BY DEF AppliedOnce
    <2>1. CASE u # w
      BY <2>1, <1>3 DEF AppliedOnce
    <2>2. CASE u = w
      <3>1. Len(applied[w]) \in Nat
        OBVIOUS
      <3>2. i \in 1 .. Len(applied[w]) + 1 /\ j \in 1 .. Len(applied[w]) + 1
        BY <2>2, <1>3
      <3>3. i \in 1 .. Len(applied[w])
        BY <3>1, <3>2
      <3>4. applied'[w][i] = applied[w][i] /\ applied[w][i] < n
        BY <3>3, <1>3, <1>6
      <3>5. CASE j \in 1 .. Len(applied[w])
        <4>1. applied'[w][j] = applied[w][j]
          BY <3>5, <1>3
        <4>2. applied[w][i] < applied[w][j]
          BY <3>3, <3>5 DEF AppliedOnce
        <4>. QED
          BY <2>2, <3>4, <4>1, <4>2
      <3>6. CASE j = Len(applied[w]) + 1
        BY <2>2, <3>4, <3>6, <1>3
      <3>7. j \in 1 .. Len(applied[w]) \/ j = Len(applied[w]) + 1
        BY <3>1, <3>2, OneMore
      <3>. QED
        BY <3>5, <3>6, <3>7
    <2>. QED
      BY <2>1, <2>2
  <1>8. AheadInv'
    <2> SUFFICES ASSUME NEW u \in Windows, NEW i \in 1 .. Len(applied'[u])
                 PROVE  /\ applied'[u][i] <= Len(log)
                        /\ \A q \in Slots : stream'[u][q].st = "open" =>
                             applied'[u][i] <= stream'[u][q].pos
      BY <1>1 DEF AheadInv
    <2>1. CASE u # w
      BY <2>1, <1>2, <1>3 DEF AheadInv
    <2>2. CASE u = w
      <3>1. applied'[w][i] <= n
        <4>1. CASE i \in 1 .. Len(applied[w])
          BY SMTT(30), <4>1, <1>3, <1>6, <1>1
        <4>2. CASE i = Len(applied[w]) + 1
          BY <4>2, <1>3, <1>1
        <4>. QED
          BY <2>2, <4>1, <4>2, <1>3
      <3>2. \A q \in Slots : stream'[w][q].st = "open" => q = s
        BY <1>1, <1>2 DEF OneStream, Feeding
      <3>. QED
        BY <2>2, <3>1, <3>2, <1>1, <1>2
    <2>. QED
      BY <2>1, <2>2
  <1>. QED
    BY <1>4, <1>5, <1>7, <1>8

-----------------------------------------------------------------------------
(* The steps *)

LEMMA ServerTurnStep ==
  ASSUME IInv, NEW t \in Turns, ServerTurn(t)
  PROVE  IInv'
  <1> USE DEF windowVars, handleVars, Publish, Events, Outcomes
  <1>1. CASE PublishUser(t)
    BY <1>1, LogStep DEF PublishUser
  <1>2. CASE SaveAssistant(t)
    BY <1>2, LogStep DEF SaveAssistant
  <1>3. CASE PublishDone(t)
    BY <1>3, LogStep DEF PublishDone
  <1>4. CASE ReleaseClaim(t)
    BY <1>4, LogStep DEF ReleaseClaim
  <1>5. CASE PublishError(t)
    BY <1>5, LogStep DEF PublishError
  <1>6. CASE RequestApproval(t)
    BY <1>6, LogStep DEF RequestApproval
  <1>7. CASE Settle(t)
    BY <1>7, LogStep DEF Settle
  <1>8. CASE RunWrite(t)
    BY <1>8, LogStep DEF RunWrite
  <1>. QED
    BY <1>1, <1>2, <1>3, <1>4, <1>5, <1>6, <1>7, <1>8 DEF ServerTurn

LEMMA ServerStreamStep ==
  ASSUME IInv, NEW w \in Windows, NEW s \in Slots, ServerStream(w, s)
  PROVE  IInv'
  <1> DEFINE r == stream[w][s]
  <1>1. r \in Stream /\ Len(log) \in Nat
    BY DEF IInv, HandleType
  <1> USE DEF serverVars, Feeding, Stream, StreamStates
  <1>2. ASSUME NEW t \in Turns, AcceptSend(w, s, t)
        PROVE  IInv'
    BY <1>1, <1>2, StreamStep, NoStreamType DEF AcceptSend
  <1>3. CASE RefuseSend(w, s)
    BY <1>1, <1>3, StreamStep, NoStreamType DEF RefuseSend
  <1>4. CASE OpenEvents(w, s)
    BY <1>1, <1>4, StreamStep DEF OpenEvents
  <1>. QED
    BY <1>2, <1>3, <1>4 DEF ServerStream

\* The end of a stream: the only one that was alive is gone when it is handled.
LEMMA EndStep ==
  ASSUME IInv, NEW w \in Windows, NEW s \in Slots, EndStream(w, s)
  PROVE  IInv'
  <1> DEFINE slots == [stream[w] EXCEPT ![s] = NoStream]
  <1>1. Feeding(stream[w][s]) /\ stream[w][s].kind = mode[w]
    BY DEF EndStream, Feeding, IInv, OneStream
  <1>2. Quiet(slots)
    BY <1>1, NoStreamType DEF Quiet, IInv, HandleType, OneStream
  <1>3. mode[w] # "none"
    BY <1>1 DEF IInv, OneStream, StopInv, Slots
  <1>4. mode[w] \in {"events", "send", "none"}
    BY DEF IInv, HandleType
  <1>5. /\ log' = log /\ applied' = applied
        /\ Begin(w, slots, "events") \/ ClearHandle(w, slots)
    BY <1>1, <1>3, <1>4 DEF EndStream, SubscribeEvents, serverVars
  <1>. QED
    BY <1>2, <1>5, HandleStep

LEMMA UserStep ==
  ASSUME IInv, NEW w \in Windows, User(w)
  PROVE  IInv'
  <1> USE DEF serverVars, handleVars, windowVars
  <1>1. ASSUME NEW v \in Views, Attach(w, v)
        PROVE  IInv'
    <2>1. CASE attached[w] = {} /\ mode[w] = "none"
      <3>1. Quiet(stream[w])
        <4>1. stream[w] \in [Slots -> Stream]
          BY DEF IInv, HandleType
        <4>2. stop[w] = 0
          BY <2>1 DEF IInv, StopInv
        <4>3. \A s \in Slots : Feeding(stream[w][s]) => stop[w] = s
          BY DEF IInv, OneStream
        <4>4. 0 \notin Slots
          BY DEF Slots
        <4>. QED
          BY <4>1, <4>2, <4>3, <4>4 DEF Quiet
      <3>. QED
        BY <1>1, <2>1, <3>1, HandleStep DEF Attach
    <2>2. CASE ~ (attached[w] = {} /\ mode[w] = "none")
      BY <1>1, <2>2, LogStep DEF Attach
    <2>. QED
      BY <2>1, <2>2
  <1>2. ASSUME NEW v \in Views, Detach(w, v)
        PROVE  IInv'
    <2>1. CASE attached[w] = {v} /\ mode[w] = "events"
      BY <1>2, <2>1, HandleStep, StoppedIsQuiet DEF Detach
    <2>2. CASE ~ (attached[w] = {v} /\ mode[w] = "events")
      BY <1>2, <2>2, LogStep DEF Detach
    <2>. QED
      BY <2>1, <2>2
  <1>3. \A msgs : StartSend(w, msgs) => IInv'
    BY HandleStep, StoppedIsQuiet DEF StartSend
  <1>4. CASE Send(w)
    BY <1>3, <1>4 DEF Send
  <1>5. CASE Retry(w)
    BY <1>3, <1>5 DEF Retry
  <1>6. CASE Abort(w)
    <2>1. CASE mode[w] = "events"
      BY <1>6, <2>1, LogStep DEF Abort
    <2>2. CASE mode[w] # "events"
      BY <1>6, <2>2, HandleStep, StoppedIsQuiet DEF Abort, SubscribeEvents
    <2>. QED
      BY <2>1, <2>2
  <1>7. ASSUME NEW t \in Turns, NEW approve \in BOOLEAN, Answer(w, t, approve)
        PROVE  IInv'
    BY <1>7, LogStep DEF Answer
  <1>8. CASE DeleteThread(w)
    BY <1>8, LogStep DEF DeleteThread
  <1>. QED
    BY <1>1, <1>2, <1>4, <1>5, <1>6, <1>7, <1>8 DEF User

LEMMA NextStep ==
  ASSUME IInv, [Next]_vars
  PROVE  IInv'
  <1> USE DEF serverVars, handleVars, windowVars
  <1>1. CASE UNCHANGED vars
    BY <1>1, LogStep DEF vars
  <1>2. ASSUME NEW w \in Windows, Reset(w)
        PROVE  IInv'
    BY <1>2, HandleStep, StoppedIsQuiet DEF Reset
  <1>3. ASSUME NEW a \in answers, TakeAnswer(a) \/ HearAnswer(a)
        PROVE  IInv'
    BY <1>3, LogStep DEF TakeAnswer, HearAnswer
  <1>4. ASSUME NEW l \in loads, LoadReply(l)
        PROVE  IInv'
    BY <1>4, LogStep DEF LoadReply
  <1>5. CASE System
    BY <1>2, <1>3, <1>4, <1>5, ServerTurnStep, ServerStreamStep, DeliverStep, EndStep
    DEF System
  <1>. QED
    BY <1>1, <1>5, UserStep DEF Next

LEMMA InitInv == Init => IInv
  <1> SUFFICES ASSUME Init
               PROVE  IInv
    OBVIOUS
  <1>1. HandleType
    BY NoStreamType DEF Init, HandleType, Slots
  <1>2. StopInv /\ OneStream /\ AppliedOnce /\ AheadInv
    BY NoStreamType DEF Init, StopInv, OneStream, AppliedOnce, AheadInv, NoStream, Feeding
  <1>. QED
    BY <1>1, <1>2 DEF IInv

\* The inductive invariant: a window's handle names the only stream that can call its
\* store, and that stream is ahead of everything the window has applied.
THEOREM Invariance == Spec => []IInv
  BY InitInv, NextStep, PTL DEF Spec

\* "One RPC stream per thread at a time", for every number of windows, views and turns.
THEOREM OneStreamTheorem == Spec => []OneStream
  <1>1. IInv => OneStream
    BY DEF IInv
  <1>. QED
    BY <1>1, Invariance, PTL

\* No event is applied twice, and none after a newer one.
THEOREM AppliedOnceTheorem == Spec => []AppliedOnce
  <1>1. IInv => AppliedOnce
    BY DEF IInv
  <1>. QED
    BY <1>1, Invariance, PTL

-----------------------------------------------------------------------------
(* "Committed." *)

\* The two ways a card can learn of an execution, an event of the log and the card that
\* was saved with the assistant message, tell the truth; a write that is executed
\* stays so, because nothing still waits for an answer to it.
CardInv ==
  /\ status \in [Turns -> Cards]
  /\ card \in [Windows -> [Turns -> Cards]]
  /\ \A t \in waiting : status[t] = "pending"
  /\ \A i \in 1 .. Len(log) : log[i].tag = "executed" => status[log[i].of] = "executed"
  /\ savedCard \in [Turns -> Cards]
  /\ \A t \in Turns : savedCard[t] = "executed" => status[t] = "executed"
  /\ ExecutedIsTrue

\* A step of the server.
LEMMA PublishStep ==
  ASSUME IInv, CardInv, UNCHANGED card,
         status' \in [Turns -> Cards],
         \A t \in Turns : status[t] = "executed" => status'[t] = "executed",
         \A t \in waiting' : status'[t] = "pending",
         \/ log' = log
         \/ \E e \in Events : /\ log' = Append(log, e)
                              /\ e.tag = "executed" => status'[e.of] = "executed",
         savedCard' \in [Turns -> Cards],
         \A t \in Turns : savedCard'[t] = "executed" => status'[t] = "executed"
  PROVE  CardInv'
  <1>1. log \in Seq(Events)
    BY DEF IInv, HandleType
  <1>2. ASSUME NEW i \in 1 .. Len(log'), log'[i].tag = "executed"
        PROVE  status'[log'[i].of] = "executed"
    <2>1. CASE log' = log
      <3>1. log[i] \in Events
        BY <1>1, <1>2, <2>1
      <3>2. log[i].of \in Turns
        BY <3>1 DEF Events
      <3>. QED
        BY <1>2, <2>1, <3>2 DEF CardInv
    <2>2. ASSUME NEW e \in Events, log' = Append(log, e),
                 e.tag = "executed" => status'[e.of] = "executed"
          PROVE  status'[log'[i].of] = "executed"
      <3>1. Len(log) \in Nat /\ Len(log') = Len(log) + 1 /\ log'[Len(log) + 1] = e
        BY <1>1, <2>2
      <3>2. CASE i \in 1 .. Len(log)
        <4>1. log'[i] = log[i] /\ log[i] \in Events
          BY <1>1, <2>2, <3>2
        <4>2. log[i].of \in Turns
          BY <4>1 DEF Events
        <4>. QED
          BY <1>2, <3>2, <4>1, <4>2 DEF CardInv
      <3>3. CASE i = Len(log) + 1
        BY <1>2, <2>2, <3>1, <3>3
      <3>. QED
        BY <3>1, <3>2, <3>3, OneMore
    <2>. QED
      BY <2>1, <2>2
  <1>3. ExecutedIsTrue'
    BY DEF CardInv, ExecutedIsTrue
  <1>. QED
    BY <1>2, <1>3 DEF CardInv

\* A step of a window.
LEMMA CardStep ==
  ASSUME CardInv, UNCHANGED <<log, status, savedCard, waiting>>,
         card' \in [Windows -> [Turns -> Cards]],
         \A w \in Windows, t \in Turns : card'[w][t] = "executed" => status[t] = "executed"
  PROVE  CardInv'
  BY DEF CardInv, ExecutedIsTrue

\* The cards of one window are replaced.
LEMMA CardsOf ==
  ASSUME CardInv, NEW w \in Windows, NEW f \in [Turns -> Cards],
         \A t \in Turns : f[t] = "executed" => status[t] = "executed",
         card' = [card EXCEPT ![w] = f]
  PROVE  /\ card' \in [Windows -> [Turns -> Cards]]
         /\ \A u \in Windows, t \in Turns : card'[u][t] = "executed" => status[t] = "executed"
  BY DEF CardInv, ExecutedIsTrue

\* One card changes.
LEMMA OneCard ==
  ASSUME CardInv, NEW w \in Windows, NEW t \in Turns, NEW c \in Cards,
         c = "executed" => status[t] = "executed",
         card' = [card EXCEPT ![w][t] = c]
  PROVE  /\ card' \in [Windows -> [Turns -> Cards]]
         /\ \A u \in Windows, q \in Turns : card'[u][q] = "executed" => status[q] = "executed"
  BY DEF CardInv, ExecutedIsTrue

LEMMA CardServerStep ==
  ASSUME IInv, CardInv, NEW t \in Turns, ServerTurn(t)
  PROVE  CardInv'
  <1> USE DEF windowVars, threadVars, CardInv
  <1>1. CASE PublishUser(t)
    BY <1>1, PublishStep DEF PublishUser, Publish, Events
  <1>2. CASE SaveAssistant(t)
    BY <1>2, PublishStep DEF SaveAssistant
  <1>3. CASE PublishDone(t)
    BY <1>3, PublishStep DEF PublishDone, Publish, Events
  <1>4. CASE ReleaseClaim(t)
    BY <1>4, PublishStep DEF ReleaseClaim
  <1>5. CASE PublishError(t)
    BY <1>5, PublishStep DEF PublishError, Publish, Events
  <1>6. CASE RequestApproval(t)
    BY <1>6, PublishStep DEF RequestApproval, Publish, Events, Cards
  <1>7. CASE Settle(t)
    BY <1>7, PublishStep DEF Settle, Publish, Events, Cards, Outcomes
  <1>8. CASE RunWrite(t)
    BY <1>8, PublishStep DEF RunWrite, Publish, Events, Cards, Outcomes
  <1>. QED
    BY <1>1, <1>2, <1>3, <1>4, <1>5, <1>6, <1>7, <1>8 DEF ServerTurn

LEMMA CardDeliver ==
  ASSUME IInv, CardInv, NEW w \in Windows, NEW s \in Slots, Deliver(w, s)
  PROVE  CardInv'
  <1> DEFINE n == stream[w][s].pos + 1
             e == log[n]
             c == ReduceCard(card[w][e.of], e)
  <1>1. n \in 1 .. Len(log) /\ e \in Events
    <2>1. log \in Seq(Events) /\ stream[w][s] \in Stream
      BY DEF IInv, HandleType
    <2>2. stream[w][s].pos \in Nat
      BY <2>1 DEF Stream
    <2>3. stream[w][s].pos < Len(log)
      BY DEF Deliver
    <2>4. n \in 1 .. Len(log)
      BY <2>1, <2>2, <2>3
    <2> HIDE DEF n
    <2>. QED
      BY <2>1, <2>4
  <1>2. e.of \in Turns /\ e.tag \in {"user", "requested", "error", "done"} \cup Outcomes
    BY <1>1 DEF Events
  <1>3. card[w][e.of] \in Cards
    BY <1>2 DEF CardInv
  <1>4. c \in Cards /\ (c = "executed" => e.tag = "executed" \/ card[w][e.of] = "executed")
    BY <1>2, <1>3 DEF ReduceCard, Cards, Outcomes
  <1>5. card' = [card EXCEPT ![w][e.of] = c]
    BY DEF Deliver
  <1>6. c = "executed" => status[e.of] = "executed"
    BY <1>1, <1>2, <1>4 DEF CardInv, ExecutedIsTrue
  <1>7. UNCHANGED <<log, status, savedCard, waiting>>
    BY DEF Deliver, serverVars
  <1> HIDE DEF e, c
  <1>. QED
    BY <1>2, <1>4, <1>5, <1>6, <1>7, OneCard, CardStep

LEMMA CardUserStep ==
  ASSUME IInv, CardInv, NEW w \in Windows, User(w)
  PROVE  CardInv'
  <1> USE DEF serverVars, threadVars
  <1> DEFINE Same == UNCHANGED <<log, status, savedCard, waiting, card>>
  <1>1. Same => CardInv'
    BY DEF CardInv, ExecutedIsTrue
  <1>2. CASE \E v \in Views : Attach(w, v) \/ Detach(w, v)
    BY <1>1, <1>2 DEF Attach, Detach
  <1>3. CASE Send(w) \/ Abort(w) \/ DeleteThread(w)
    BY <1>1, <1>3 DEF Send, StartSend, Abort, DeleteThread
  <1>4. CASE Retry(w)
    <2> DEFINE Left(last) == IF last = 0 THEN messages[w] ELSE SubSeq(messages[w], 1, last - 1)
    <2>0. PICK last : card' = [card EXCEPT ![w] = [t \in Turns |->
                        IF Has(Left(last), "assistant", t) THEN card[w][t] ELSE "none"]]
      BY <1>4 DEF Retry
    <2> HIDE DEF Left
    <2>1. PICK left : card' = [card EXCEPT ![w] = [t \in Turns |->
                        IF Has(left, "assistant", t) THEN card[w][t] ELSE "none"]]
      BY <2>0
    <2>2. UNCHANGED <<log, status, savedCard, waiting>>
      BY <1>4 DEF Retry, StartSend
    <2> DEFINE f == [t \in Turns |->
                       IF Has(left, "assistant", t) THEN card[w][t] ELSE "none"]
    <2>3. f \in [Turns -> Cards] /\ \A t \in Turns : f[t] = "executed" => status[t] = "executed"
      BY DEF CardInv, ExecutedIsTrue, Cards
    <2> HIDE DEF f
    <2>4. card' = [card EXCEPT ![w] = f]
      BY <2>1 DEF f
    <2>. QED
      BY <2>2, <2>3, <2>4, CardsOf, CardStep
  <1>5. ASSUME NEW t \in Turns, NEW approve \in BOOLEAN, Answer(w, t, approve)
        PROVE  CardInv'
    BY <1>5, OneCard, CardStep DEF Answer, OptimisticCard, Cards
  <1>. QED
    BY <1>2, <1>3, <1>4, <1>5 DEF User

\* Calls under way belong to a window.
AnswerCalls == [win : Windows, of : Turns, approve : BOOLEAN, reply : {"none", "ok", "refused"}]

CallInv ==
  /\ \A l \in loads : l.win \in Windows
  /\ answers \subseteq AnswerCalls

LEMMA CallStep ==
  ASSUME CallInv, [Next]_vars
  PROVE  CallInv'
  <1> USE DEF CallInv
  <1> USE DEF serverVars, handleVars, threadVars, callVars, windowVars
  <1>1. UNCHANGED <<loads, answers>> => CallInv'
    OBVIOUS
  <1>2. CASE UNCHANGED vars
    BY <1>1, <1>2 DEF vars
  <1>3. ASSUME NEW t \in Turns, ServerTurn(t)
        PROVE  CallInv'
    BY <1>1, <1>3 DEF ServerTurn, PublishUser, SaveAssistant, PublishDone, ReleaseClaim,
                      PublishError, RequestApproval, Settle, RunWrite
  <1>4. ASSUME NEW w \in Windows, NEW s \in Slots, ServerStream(w, s)
        PROVE  CallInv'
    BY <1>1, <1>4 DEF ServerStream, AcceptSend, RefuseSend, OpenEvents
  <1>5. ASSUME NEW w \in Windows, NEW s \in Slots, Deliver(w, s) \/ EndStream(w, s)
        PROVE  CallInv'
    BY <1>1, <1>5 DEF Deliver, EndStream
  <1>6. ASSUME NEW w \in Windows, Reset(w)
        PROVE  CallInv'
    BY <1>1, <1>6 DEF Reset
  <1>7. ASSUME NEW a \in answers, TakeAnswer(a) \/ HearAnswer(a)
        PROVE  CallInv'
    <2>1. UNCHANGED loads
      BY <1>7 DEF TakeAnswer, HearAnswer
    <2>2. \A x \in {"ok", "refused"} : [a EXCEPT !.reply = x] \in AnswerCalls
      BY DEF AnswerCalls
    <2>3. answers' \subseteq AnswerCalls
      BY <1>7, <2>2 DEF TakeAnswer, HearAnswer
    <2>. QED
      BY <2>1, <2>3
  <1>8. ASSUME NEW l \in loads, LoadReply(l)
        PROVE  CallInv'
    BY <1>8 DEF LoadReply
  <1>9. ASSUME NEW w \in Windows, User(w)
        PROVE  CallInv'
    <2>1. CASE \E v \in Views : Attach(w, v) \/ Detach(w, v)
      BY <2>1 DEF Attach, Detach
    <2>2. CASE Send(w) \/ Retry(w) \/ Abort(w) \/ DeleteThread(w)
      BY <1>1, <2>2 DEF Send, Retry, StartSend, Abort, DeleteThread
    <2>3. ASSUME NEW t \in Turns, NEW approve \in BOOLEAN, Answer(w, t, approve)
          PROVE  CallInv'
      BY <2>3 DEF Answer, AnswerCalls
    <2>. QED
      BY <1>9, <2>1, <2>2, <2>3 DEF User
  <1>. QED
    BY <1>2, <1>3, <1>4, <1>5, <1>6, <1>7, <1>8, <1>9 DEF Next, System

LEMMA CardNextStep ==
  ASSUME IInv, CallInv, CardInv, [Next]_vars
  PROVE  CardInv'
  <1> USE DEF serverVars, threadVars
  <1>1. UNCHANGED <<log, status, savedCard, waiting, card>> => CardInv'
    BY DEF CardInv, ExecutedIsTrue
  <1>2. CASE UNCHANGED vars
    BY <1>1, <1>2 DEF vars, windowVars
  <1>3. ASSUME NEW w \in Windows, Reset(w)
        PROVE  CardInv'
    <2> DEFINE f == [t \in Turns |-> "none"]
    <2>1. f \in [Turns -> Cards] /\ \A t \in Turns : f[t] # "executed"
      BY DEF Cards
    <2>2. card' = [card EXCEPT ![w] = f] /\ UNCHANGED <<log, status, savedCard, waiting>>
      BY <1>3 DEF Reset
    <2> HIDE DEF f
    <2>. QED
      BY <2>1, <2>2, CardsOf, CardStep
  <1>4. ASSUME NEW w \in Windows, NEW s \in Slots, ServerStream(w, s) \/ EndStream(w, s)
        PROVE  CardInv'
    BY <1>1, <1>4 DEF ServerStream, AcceptSend, RefuseSend, OpenEvents, EndStream
  <1>5. ASSUME NEW a \in answers, TakeAnswer(a)
        PROVE  CardInv'
    BY <1>1, <1>5 DEF TakeAnswer
  <1>6. ASSUME NEW a \in answers, HearAnswer(a)
        PROVE  CardInv'
    <2>1. a.win \in Windows /\ a.of \in Turns
      BY DEF CallInv, AnswerCalls
    <2>2. UNCHANGED <<log, status, savedCard, waiting>>
      BY <1>6 DEF HearAnswer
    <2>3. CASE UNCHANGED card
      BY <1>1, <2>2, <2>3
    <2>4. CASE card' # card
      <3> DEFINE old == card[a.win][a.of]
                 c == IF old = "none" THEN old ELSE IF a.approve THEN "failed" ELSE "rejected"
      <3>1. card' = [card EXCEPT ![a.win][a.of] = c]
        BY <1>6, <2>4 DEF HearAnswer
      <3>2. c \in Cards /\ c # "executed"
        BY DEF Cards
      <3> HIDE DEF c
      <3>. QED
        BY <2>1, <2>2, <3>1, <3>2, OneCard, CardStep
    <2>. QED
      BY <2>3, <2>4
  <1>7. ASSUME NEW l \in loads, LoadReply(l)
        PROVE  CardInv'
    <2>1. l.win \in Windows
      BY DEF CallInv
    <2>2. UNCHANGED <<log, status, savedCard, waiting>>
      BY <1>7 DEF LoadReply
    <2>3. CASE UNCHANGED card
      BY <1>1, <2>2, <2>3
    <2>4. CASE card' # card
      <3>1. PICK n \in 1 .. Len(rows) : card' = [card EXCEPT ![l.win] = [t \in Turns |->
                   IF Has(SubSeq(rows, 1, n), "assistant", t) THEN savedCard[t] ELSE "none"]]
        BY <1>7, <2>4 DEF LoadReply
      <3> DEFINE f == [t \in Turns |->
                   IF Has(SubSeq(rows, 1, n), "assistant", t) THEN savedCard[t] ELSE "none"]
      <3>2. f \in [Turns -> Cards] /\ \A t \in Turns : f[t] = "executed" => status[t] = "executed"
        BY DEF CardInv, Cards
      <3> HIDE DEF f
      <3>3. card' = [card EXCEPT ![l.win] = f]
        BY <3>1 DEF f
      <3>. QED
        BY <2>1, <2>2, <3>2, <3>3, CardsOf, CardStep
    <2>. QED
      BY <2>3, <2>4
  <1>8. CASE System
    BY <1>3, <1>4, <1>5, <1>6, <1>7, <1>8, CardServerStep, CardDeliver DEF System
  <1>. QED
    BY <1>2, <1>8, CardUserStep DEF Next

\* "Committed." is only ever shown for a write that the server has recorded as executed,
\* whatever events, reloads, answers and failures a window has been through.
THEOREM ExecutedIsTrueTheorem == Spec => []ExecutedIsTrue
  <1>1. Init => CallInv /\ CardInv
    BY DEF Init, CallInv, CardInv, ExecutedIsTrue, Cards
  <1>2. IInv /\ CallInv /\ CardInv /\ [Next]_vars => CallInv' /\ CardInv'
    BY CallStep, CardNextStep
  <1>3. CardInv => ExecutedIsTrue
    BY DEF CardInv
  <1>. QED
    BY <1>1, <1>2, <1>3, Invariance, PTL DEF Spec
-----------------------------------------------------------------------------
(* A window shows each message once.                                       *)
\* No message of a turn is there twice.
Single(msgs) ==
  \A i, j \in 1 .. Len(msgs) : msgs[i] = msgs[j] /\ msgs[i].of # NoTurn => i = j

\* The rows of a turn appear as its phase says, each once.
RowsInv ==
  /\ rows \in Seq(Messages)
  /\ phase \in [Turns -> Phases]
  /\ Single(rows)
  /\ \A t \in Turns : /\ Has(rows, "user", t) => phase[t] \notin {"idle", "started"}
                      /\ Has(rows, "assistant", t) => phase[t] \in {"saved", "done"}

MessagesInv ==
  /\ messages \in [Windows -> Seq(Messages)]
  /\ \A w \in Windows : Single(messages[w])

LEMMA NothingShown == <<>> \in Seq(Messages) /\ Single(<<>>)
  BY DEF Single

LEMMA AppendOne ==
  ASSUME NEW msgs \in Seq(Messages), Single(msgs), NEW m \in Messages,
         m.of = NoTurn \/ \A i \in 1 .. Len(msgs) : msgs[i] # m
  PROVE  /\ Append(msgs, m) \in Seq(Messages)
         /\ Single(Append(msgs, m))
         /\ \A i \in 1 .. Len(Append(msgs, m)) :
              Append(msgs, m)[i] = m \/ \E j \in 1 .. Len(msgs) : Append(msgs, m)[i] = msgs[j]
  <1> HIDE DEF Messages
  <1>1. /\ Append(msgs, m) \in Seq(Messages)
        /\ Len(Append(msgs, m)) = Len(msgs) + 1
        /\ Append(msgs, m)[Len(msgs) + 1] = m
        /\ \A i \in 1 .. Len(msgs) : Append(msgs, m)[i] = msgs[i]
        /\ Len(msgs) \in Nat
    OBVIOUS
  <1>2. \A i \in 1 .. Len(Append(msgs, m)) : i \in 1 .. Len(msgs) \/ i = Len(msgs) + 1
    BY <1>1
  <1>3. Single(Append(msgs, m))
    BY <1>1, <1>2 DEF Single
  <1>. QED
    BY <1>1, <1>2, <1>3

LEMMA CutOne ==
  ASSUME NEW msgs \in Seq(Messages), Single(msgs), NEW n \in 0 .. Len(msgs)
  PROVE  SubSeq(msgs, 1, n) \in Seq(Messages) /\ Single(SubSeq(msgs, 1, n))
  <1> HIDE DEF Messages
  <1>1. /\ SubSeq(msgs, 1, n) \in Seq(Messages)
        /\ Len(SubSeq(msgs, 1, n)) = n
        /\ \A i \in 1 .. n : SubSeq(msgs, 1, n)[i] = msgs[i] /\ i \in 1 .. Len(msgs)
    OBVIOUS
  <1>. QED
    BY <1>1 DEF Single

LEMMA ReplaceOne ==
  ASSUME NEW msgs \in Seq(Messages), Single(msgs), NEW m \in Messages,
         \A i \in 1 .. Len(msgs) : msgs[i] # m, NEW at
  PROVE  ReplaceAt(msgs, at, m) \in Seq(Messages) /\ Single(ReplaceAt(msgs, at, m))
  <1> HIDE DEF Messages
  <1>1. CASE at \in 1 .. Len(msgs)
    <2>1. /\ [msgs EXCEPT ![at] = m] \in Seq(Messages)
          /\ Len([msgs EXCEPT ![at] = m]) = Len(msgs)
          /\ \A i \in 1 .. Len(msgs) :
               [msgs EXCEPT ![at] = m][i] = IF i = at THEN m ELSE msgs[i]
      BY <1>1
    <2>. QED
      BY <2>1 DEF Single, ReplaceAt
  <1>2. CASE at \notin 1 .. Len(msgs)
    <2>1. msgs \in [1 .. Len(msgs) -> Messages]
      OBVIOUS
    <2>2. [msgs EXCEPT ![at] = m] = msgs
      BY <1>2, <2>1
    <2>. QED
      BY <2>2 DEF ReplaceAt
  <1>. QED
    BY <1>1, <1>2

\* TakeUser adds or replaces a message only where it is not there yet.
LEMMA TakeOne ==
  ASSUME NEW msgs \in Seq(Messages), Single(msgs), NEW t \in Turns
  PROVE  TakeUser(msgs, t) \in Seq(Messages) /\ Single(TakeUser(msgs, t))
  <1> DEFINE incoming == [role |-> "user", of |-> t]
  <1>1. incoming \in Messages
    BY DEF Messages
  <1>2. PICK at : TakeUser(msgs, t) = IF Has(msgs, "user", t) THEN msgs
                    ELSE IF at > 0 THEN ReplaceAt(msgs, at, incoming)
                    ELSE Append(msgs, incoming)
    BY DEF TakeUser
  <1>3. CASE Has(msgs, "user", t)
    BY <1>2, <1>3
  <1>4. CASE ~ Has(msgs, "user", t)
    <2>1. \A i \in 1 .. Len(msgs) : msgs[i] # incoming
      BY <1>4 DEF Has
    <2>. QED
      BY <1>1, <1>2, <1>4, <2>1, AppendOne, ReplaceOne
  <1>. QED
    BY <1>3, <1>4

-----------------------------------------------------------------------------
(* The rows *)

LEMMA RowsFrame ==
  ASSUME RowsInv, UNCHANGED <<rows, phase>>
  PROVE  RowsInv'
  BY DEF RowsInv, Single, Has

\* A turn stores its message m as its phase passes from "from" to "to".
LEMMA StoreStep ==
  ASSUME RowsInv, NEW t \in Turns, NEW m \in Messages, m.of = t,
         rows' = Append(rows, m), \A i \in 1 .. Len(rows) : rows[i] # m,
         \/ m.role = "user" /\ phase[t] = "started" /\ phase' = [phase EXCEPT ![t] = "going"]
         \/ /\ m.role = "assistant" /\ phase[t] \in {"going", "closing"}
            /\ phase' = [phase EXCEPT ![t] = "saved"]
  PROVE  RowsInv'
  <1>1. rows' \in Seq(Messages) /\ Single(rows)'
    BY AppendOne DEF RowsInv, Single
  <1>2. \A i \in 1 .. Len(rows') : rows'[i] = m \/ \E j \in 1 .. Len(rows) : rows'[i] = rows[j]
    BY AppendOne DEF RowsInv
  <1>3. phase' \in [Turns -> Phases]
    BY DEF RowsInv, Phases
  <1>4. ASSUME NEW u \in Turns
        PROVE  /\ Has(rows, "user", u)' => phase'[u] \notin {"idle", "started"}
               /\ Has(rows, "assistant", u)' => phase'[u] \in {"saved", "done"}
    BY <1>2 DEF RowsInv, Has, Messages
  <1>. QED
    BY <1>1, <1>3, <1>4 DEF RowsInv

LEMMA ServerTurnRows ==
  ASSUME RowsInv, NEW t \in Turns, ServerTurn(t)
  PROVE  RowsInv'
  <1>1. CASE PublishUser(t)
    <2> DEFINE m == [role |-> "user", of |-> t]
    <2>1. m \in Messages /\ \A i \in 1 .. Len(rows) : rows[i] # m
      BY <1>1 DEF PublishUser, Advance, RowsInv, Has, Messages
    <2>. QED
      BY <1>1, <2>1, StoreStep DEF PublishUser, Advance
  <1>2. CASE SaveAssistant(t)
    <2> DEFINE m == [role |-> "assistant", of |-> t]
    <2>1. m \in Messages /\ \A i \in 1 .. Len(rows) : rows[i] # m
      BY <1>2 DEF SaveAssistant, RowsInv, Has, Messages
    <2>2. CASE rows' = rows
      BY <1>2, <2>2 DEF SaveAssistant, RowsInv, Single, Has, Phases
    <2>3. CASE rows' = Append(rows, m)
      BY <1>2, <2>1, <2>3, StoreStep DEF SaveAssistant
    <2>. QED
      BY <1>2, <2>2, <2>3 DEF SaveAssistant
  <1>3. CASE PublishError(t)
    BY <1>3 DEF PublishError, windowVars, RowsInv, Single, Has, Phases
  <1>4. CASE PublishDone(t)
    BY <1>4 DEF PublishDone, Advance, windowVars, RowsInv, Single, Has, Phases
  <1>5. CASE ReleaseClaim(t) \/ RequestApproval(t) \/ Settle(t) \/ RunWrite(t)
    BY <1>5, RowsFrame DEF ReleaseClaim, RequestApproval, Settle, RunWrite
  <1>. QED
    BY <1>1, <1>2, <1>3, <1>4, <1>5 DEF ServerTurn

\* A turn stores its user message as it leaves "started" and its assistant message as
\* it reaches "saved"; a deletion stores nothing.
LEMMA RowsStep ==
  ASSUME RowsInv, [Next]_vars
  PROVE  RowsInv'
  <1> USE DEF serverVars
  <1>1. ASSUME NEW w \in Windows, NEW s \in Slots, ServerStream(w, s)
        PROVE  RowsInv'
    <2>1. CASE RefuseSend(w, s) \/ OpenEvents(w, s)
      BY <2>1, RowsFrame DEF RefuseSend, OpenEvents
    <2>2. ASSUME NEW t \in Turns, AcceptSend(w, s, t)
          PROVE  RowsInv'
      BY <2>2 DEF AcceptSend, Advance, RowsInv, Single, Has, Phases
    <2>. QED
      BY <1>1, <2>1, <2>2 DEF ServerStream
  <1>2. ASSUME NEW w \in Windows, DeleteThread(w)
        PROVE  RowsInv'
    BY <1>2, NothingShown DEF DeleteThread, RowsInv, Single, Has
  <1>3. ASSUME NEW w \in Windows, User(w), ~ DeleteThread(w)
        PROVE  RowsInv'
    BY <1>3, RowsFrame DEF User, Attach, Detach, Send, Retry, StartSend, Abort, Answer
  <1>4. ASSUME NEW w \in Windows, NEW s \in Slots, Deliver(w, s) \/ EndStream(w, s)
        PROVE  RowsInv'
    BY <1>4, RowsFrame DEF Deliver, EndStream
  <1>5. ASSUME NEW a, TakeAnswer(a) \/ HearAnswer(a) \/ LoadReply(a) \/ Reset(a)
        PROVE  RowsInv'
    BY <1>5, RowsFrame DEF TakeAnswer, HearAnswer, LoadReply, Reset
  <1>6. CASE UNCHANGED vars
    BY <1>6, RowsFrame DEF vars
  <1>. QED
    BY <1>1, <1>2, <1>3, <1>4, <1>5, <1>6, ServerTurnRows DEF Next, System

-----------------------------------------------------------------------------
(* The windows *)

LEMMA MessagesFrame ==
  ASSUME MessagesInv, UNCHANGED messages
  PROVE  MessagesInv'
  BY DEF MessagesInv, Single

\* A window shows another list without duplicates, the others what they showed.
LEMMA ShowStep ==
  ASSUME MessagesInv, NEW w, NEW msgs \in Seq(Messages), Single(msgs),
         messages' = [messages EXCEPT ![w] = msgs]
  PROVE  MessagesInv'
  BY DEF MessagesInv, Single

LEMMA SendStep ==
  ASSUME MessagesInv, NEW w \in Windows, NEW msgs \in Seq(Messages), Single(msgs),
         StartSend(w, msgs)
  PROVE  MessagesInv'
  <1> DEFINE m == [role |-> "user", of |-> NoTurn]
  <1>1. m \in Messages /\ m.of = NoTurn
    BY DEF Messages
  <1>2. Append(msgs, m) \in Seq(Messages) /\ Single(Append(msgs, m))
    BY <1>1, AppendOne
  <1>. QED
    BY <1>2, ShowStep DEF StartSend

\* applyEvent adds a message of its turn or none.
LEMMA DeliverMessages ==
  ASSUME IInv, MessagesInv, NEW w \in Windows, NEW s \in Slots, Deliver(w, s)
  PROVE  MessagesInv'
  <1> DEFINE e == log[stream[w][s].pos + 1]
  <1>1. e \in Events
    <2>1. stream[w][s].pos \in Nat /\ log \in Seq(Events)
      BY DEF IInv, HandleType, Stream
    <2>2. stream[w][s].pos < Len(log)
      BY DEF Deliver
    <2> HIDE DEF Events
    <2>. QED
      BY <2>1, <2>2
  <1>2. messages' = [messages EXCEPT ![w] = ReduceMessages(messages[w], e)]
    BY DEF Deliver, MessagesInv
  <1> HIDE DEF e
  <1>3. e.of \in Turns
    BY <1>1 DEF Events
  <1>4. messages[w] \in Seq(Messages) /\ Single(messages[w])
    BY DEF MessagesInv
  <1>5. /\ UpsertAssistant(messages[w], e.of) \in Seq(Messages)
        /\ Single(UpsertAssistant(messages[w], e.of))
    <2>1. [role |-> "assistant", of |-> e.of] \in Messages
      BY <1>3 DEF Messages
    <2>. QED
      BY <1>4, <2>1, AppendOne DEF UpsertAssistant, Has
  <1>6. ReduceMessages(messages[w], e) \in
          {messages[w], TakeUser(messages[w], e.of), UpsertAssistant(messages[w], e.of)}
    BY DEF ReduceMessages
  <1>7. /\ ReduceMessages(messages[w], e) \in Seq(Messages)
        /\ Single(ReduceMessages(messages[w], e))
    BY <1>3, <1>4, <1>5, <1>6, TakeOne
  <1>. QED
    BY <1>2, <1>7, ShowStep

LEMMA MessagesStep ==
  ASSUME IInv, RowsInv, MessagesInv, [Next]_vars
  PROVE  MessagesInv'
  <1> USE DEF windowVars, threadVars
  <1>1. ASSUME NEW t \in Turns, ServerTurn(t)
        PROVE  MessagesInv'
    BY <1>1, MessagesFrame DEF ServerTurn, PublishUser, SaveAssistant, PublishDone, ReleaseClaim,
       PublishError, RequestApproval, Settle, RunWrite
  <1>2. ASSUME NEW w \in Windows, NEW s \in Slots, ServerStream(w, s) \/ EndStream(w, s)
        PROVE  MessagesInv'
    BY <1>2, MessagesFrame DEF ServerStream, AcceptSend, RefuseSend, OpenEvents, EndStream
  <1>3. ASSUME NEW w \in Windows, Send(w)
        PROVE  MessagesInv'
    BY <1>3, SendStep DEF Send, MessagesInv
  <1>4. ASSUME NEW w \in Windows, Retry(w)
        PROVE  MessagesInv'
    <2>1. PICK last \in 0 .. Len(messages[w]) :
            StartSend(w, IF last = 0 THEN messages[w] ELSE SubSeq(messages[w], 1, last - 1))
      BY <1>4 DEF Retry
    <2>2. messages[w] \in Seq(Messages) /\ Single(messages[w]) /\ Len(messages[w]) \in Nat
      BY DEF MessagesInv
    <2>3. last # 0 => last - 1 \in 0 .. Len(messages[w])
      BY <2>2
    <2> DEFINE left == IF last = 0 THEN messages[w] ELSE SubSeq(messages[w], 1, last - 1)
    <2>4. left \in Seq(Messages) /\ Single(left)
      BY <2>2, <2>3, CutOne
    <2>. QED
      BY <2>1, <2>4, SendStep
  <1>5. ASSUME NEW w \in Windows, User(w), ~ Send(w), ~ Retry(w)
        PROVE  MessagesInv'
    BY <1>5, MessagesFrame DEF User, Attach, Detach, Abort, Answer, DeleteThread
  <1>6. ASSUME NEW w \in Windows, Reset(w)
        PROVE  MessagesInv'
    BY <1>6, ShowStep, NothingShown DEF Reset
  <1>7. ASSUME NEW a, TakeAnswer(a) \/ HearAnswer(a)
        PROVE  MessagesInv'
    BY <1>7, MessagesFrame DEF TakeAnswer, HearAnswer
  <1>8. ASSUME NEW l, LoadReply(l)
        PROVE  MessagesInv'
    <2>1. CASE UNCHANGED messages
      BY <2>1, MessagesFrame
    <2>2. ASSUME NEW n \in 1 .. Len(rows),
                 messages' = [messages EXCEPT ![l.win] = SubSeq(rows, 1, n)]
          PROVE  MessagesInv'
      <3>1. n \in 0 .. Len(rows)
        BY DEF RowsInv
      <3>2. SubSeq(rows, 1, n) \in Seq(Messages) /\ Single(SubSeq(rows, 1, n))
        BY <3>1, CutOne DEF RowsInv
      <3>. QED
        BY <2>2, <3>2, ShowStep
    <2>. QED
      BY <1>8, <2>1, <2>2 DEF LoadReply
  <1>9. CASE UNCHANGED vars
    BY <1>9, MessagesFrame DEF vars
  <1>. QED
    BY <1>1, <1>2, <1>3, <1>4, <1>5, <1>6, <1>7, <1>8, <1>9, DeliverMessages DEF Next, System

LEMMA InitMessages == Init => RowsInv /\ MessagesInv
  BY NothingShown DEF Init, RowsInv, MessagesInv, Single, Has, Phases

\* Rows and windows hold each message of a turn once.
THEOREM MessageInvariance == Spec => [](IInv /\ RowsInv /\ MessagesInv)
  BY InitInv, NextStep, InitMessages, RowsStep, MessagesStep, PTL DEF Spec

\* A window shows each message once, whatever it hears, loads, sends and retries.
THEOREM EachMessageOnce == Spec => []NoDuplicateMessages
  <1>1. MessagesInv => NoDuplicateMessages
    BY DEF MessagesInv, Single, NoDuplicateMessages
  <1>. QED
    BY <1>1, MessageInvariance, PTL
-----------------------------------------------------------------------------
(* Types *)

\* What the invariants above do not say of the types.
RestType ==
  /\ exists \in BOOLEAN
  /\ running \in Turns \cup {NoTurn}
  /\ decision \in [Turns -> {"none", "yes", "no"}]
  /\ waiting \subseteq Turns
  /\ attached \in [Windows -> SUBSET Views]
  /\ streaming \in [Windows -> BOOLEAN]
  /\ loaded \in [Windows -> BOOLEAN]
  /\ lastUserText \in [Windows -> BOOLEAN]
  /\ loads \subseteq [win : Windows, view : Views, from : Nat]
  /\ resetting \subseteq Windows
  /\ ops \in 0 .. MaxOps

LEMMA RestFrame ==
  ASSUME RestType,
         UNCHANGED <<exists, running, decision, waiting, attached, streaming, loaded,
                     lastUserText, loads, resetting, ops>>
  PROVE  RestType'
  BY DEF RestType

LEMMA MayType ==
  ASSUME NEW op, May(op), ops \in 0 .. MaxOps
  PROVE  ops' \in 0 .. MaxOps
  BY ConstantsAssumption DEF May

LEMMA UserType ==
  ASSUME RestType, RowsInv, NEW w \in Windows, User(w)
  PROVE  RestType'
  <1> USE DEF RestType, serverVars, threadVars, callVars, handleVars
  <1>1. ASSUME NEW v \in Views, Attach(w, v)
        PROVE  RestType'
    <2>1. [win |-> w, view |-> v, from |-> Len(rows)] \in [win : Windows, view : Views, from : Nat]
      BY DEF RowsInv
    <2>. QED
      BY <1>1, <2>1, MayType DEF Attach
  <1>2. ASSUME NEW v \in Views, Detach(w, v)
        PROVE  RestType'
    BY <1>2, MayType DEF Detach
  <1>3. CASE Send(w)
    BY <1>3, MayType DEF Send, StartSend
  <1>4. CASE Retry(w)
    <2>1. May("retry") /\ \E msgs : StartSend(w, msgs)
      BY <1>4 DEF Retry
    <2>. QED
      BY <2>1, MayType DEF StartSend
  <1>5. CASE Abort(w)
    BY <1>5, MayType DEF Abort
  <1>6. CASE DeleteThread(w)
    BY <1>6, MayType DEF DeleteThread
  <1>7. ASSUME NEW t \in Turns, NEW approve \in BOOLEAN, Answer(w, t, approve)
        PROVE  RestType'
    BY <1>7, MayType DEF Answer
  <1>. QED
    BY <1>1, <1>2, <1>3, <1>4, <1>5, <1>6, <1>7 DEF User

LEMMA RestStep ==
  ASSUME RestType, RowsInv, CallInv, [Next]_vars
  PROVE  RestType'
  <1> USE DEF serverVars, threadVars, callVars, handleVars, windowVars
  <1>1. ASSUME NEW t \in Turns, ServerTurn(t)
        PROVE  RestType'
    <2>1. CASE ReleaseClaim(t)
      BY <2>1 DEF ReleaseClaim, RestType
    <2>2. CASE RequestApproval(t) \/ Settle(t)
      BY <2>2 DEF RequestApproval, Settle, RestType
    <2>3. CASE PublishUser(t) \/ SaveAssistant(t) \/ PublishDone(t) \/ PublishError(t) \/ RunWrite(t)
      BY <2>3, RestFrame DEF PublishUser, SaveAssistant, PublishDone, PublishError, RunWrite
    <2>. QED
      BY <1>1, <2>1, <2>2, <2>3 DEF ServerTurn
  <1>2. ASSUME NEW w \in Windows, NEW s \in Slots, ServerStream(w, s)
        PROVE  RestType'
    <2>1. CASE RefuseSend(w, s) \/ OpenEvents(w, s)
      BY <2>1, RestFrame DEF RefuseSend, OpenEvents
    <2>2. ASSUME NEW t \in Turns, AcceptSend(w, s, t)
          PROVE  RestType'
      BY <2>2 DEF AcceptSend, RestType
    <2>. QED
      BY <1>2, <2>1, <2>2 DEF ServerStream
  <1>3. ASSUME NEW w \in Windows, NEW s \in Slots, Deliver(w, s)
        PROVE  RestType'
    BY <1>3 DEF Deliver, StreamingAfter, RestType
  <1>4. ASSUME NEW w \in Windows, NEW s \in Slots, EndStream(w, s)
        PROVE  RestType'
    BY <1>4 DEF EndStream, RestType
  <1>5. ASSUME NEW w \in Windows, Reset(w)
        PROVE  RestType'
    BY <1>5 DEF Reset, RestType
  <1>6. ASSUME NEW a \in answers, TakeAnswer(a)
        PROVE  RestType'
    BY <1>6 DEF TakeAnswer, RestType
  <1>7. ASSUME NEW a \in answers, HearAnswer(a)
        PROVE  RestType'
    BY <1>7, RestFrame DEF HearAnswer
  <1>8. ASSUME NEW l \in loads, LoadReply(l)
        PROVE  RestType'
    BY <1>8 DEF LoadReply, RestType
  <1>9. CASE UNCHANGED vars
    BY <1>9, RestFrame DEF vars
  <1>. QED
    BY <1>1, <1>2, <1>3, <1>4, <1>5, <1>6, <1>7, <1>8, <1>9, UserType DEF Next, System

\* Every variable of the chat model stays in its set.
THEOREM TypeCorrect == Spec => []TypeOK
  <1>1. Init => CallInv /\ CardInv /\ RestType
    BY ConstantsAssumption DEF Init, CallInv, CardInv, ExecutedIsTrue, Cards, RestType
  <1>2. IInv /\ RowsInv /\ CallInv /\ CardInv /\ RestType /\ [Next]_vars =>
          CallInv' /\ CardInv' /\ RestType'
    BY CallStep, CardNextStep, RestStep
  <1>3. IInv /\ RowsInv /\ MessagesInv /\ CallInv /\ CardInv /\ RestType => TypeOK
    BY DEF IInv, HandleType, RowsInv, MessagesInv, CallInv, AnswerCalls, CardInv, RestType, TypeOK
  <1>. QED
    BY <1>1, <1>2, <1>3, MessageInvariance, PTL DEF Spec
=============================================================================
