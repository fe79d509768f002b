----------------------------- MODULE ChatClient -----------------------------
(***************************************************************************)
(* One chat thread as its windows see it: the store of each window         *)
(* (web/src/lib/chat-store.ts), the streams chat.send and chat.events that *)
(* feed it, the hub the server publishes a turn's events to, and the calls *)
(* chat.messages.list and chat.approval.resolve.                           *)
(*                                                                         *)
(* The hub is a log of events and a subscription is a position in it, so   *)
(* every delivery may be late.  A window runs one thread of JavaScript:    *)
(* each action of it is one callback.  A turn is named by its message id   *)
(* and proposes at most one write; what the server does inside a turn is   *)
(* the subject of AgentTurn and appears here as far as windows see it.     *)
(***************************************************************************)
EXTENDS Naturals, FiniteSets, Sequences, SequencesExt

CONSTANTS
  Windows,   \* browser or desktop windows, each with its own store
  Views,     \* places of a window that can show the thread: tab, side panel
  Turns,     \* message ids, one for each turn the server accepts
  MaxSlots,  \* bound: streams of a window that exist at once
  MaxPending, \* bound: optimistic messages a window shows at once
  MaxOps,    \* bound: what the users do in one behaviour
  UserOps,   \* what they may do, out of AllUserOps
  Faults,    \* what may go wrong, out of AllFaults
  NoTurn

\* The turn fails; its approval comes to the user after its end; the connection of a
\* window to the server breaks.
AllFaults == {"error", "late", "drop"}

AllUserOps == {"attach", "detach", "send", "retry", "abort", "answer", "delete"}

ASSUME ConstantsAssumption ==
  /\ MaxSlots \in Nat \ {0}
  /\ MaxPending \in Nat \ {0}
  /\ MaxOps \in Nat
  /\ Faults \subseteq AllFaults
  /\ UserOps \subseteq AllUserOps
  /\ NoTurn \notin Turns

VARIABLES
  \* -- the server ---------------------------------------------------------
  exists,      \* the row of the thread
  log,         \* what was published for the thread
  running,     \* the entry of activeTurns
  phase,       \* where a turn stands
  status,      \* the write of a turn: approvals.status
  decision,    \* the answer to it that was accepted
  waiting,     \* turns in pendingApprovals
  rows,        \* the messages table
  savedCard,   \* the card inside the assistant message that was saved
  \* -- the windows --------------------------------------------------------
  attached,    \* handle.refs: the views that show the thread
  mode, stop,  \* handle.mode; the stream handle.stop would interrupt, or 0
  stream,      \* the streams of a window
  streaming, loaded, lastUserText,
  messages,    \* the messages a window shows
  card,        \* the status of the approval cards in them
  loads,       \* calls of chat.messages.list under way
  answers,     \* calls of chat.approval.resolve under way
  resetting,   \* windows whose chat.threads.delete has succeeded
  ops,         \* how much the users have done
  \* -- history ------------------------------------------------------------
  applied      \* the events a window has applied, as positions in the log

serverVars == <<exists, log, running, phase, status, decision, waiting, rows, savedCard>>
handleVars == <<attached, mode, stop, stream>>
threadVars == <<streaming, loaded, lastUserText, messages, card>>
callVars   == <<loads, answers, resetting>>
windowVars == <<handleVars, threadVars, callVars, applied>>
vars == <<serverVars, windowVars, ops>>

Slots    == 1 .. MaxSlots
Cards    == {"none", "pending", "approved", "rejected", "executed", "failed"}
Phases   == {"idle", "started", "going", "closing", "saved", "done"}
Outcomes == {"approved", "rejected", "executed", "failed"}
Events   == [tag : {"user", "requested", "error", "done"} \cup Outcomes, of : Turns]
Messages == [role : {"user", "assistant"}, of : Turns \cup {NoTurn}]

\* "orphan": a send its window has given up before the server saw it.
\* "ended", "refused": the end of the stream is on its way to the window.
StreamStates == {"free", "asked", "open", "ended", "refused", "orphan"}
Stream == [st : StreamStates, kind : {"events", "send", "none"}, pos : Nat]
NoStream == [st |-> "free", kind |-> "none", pos |-> 0]

TypeOK ==
  /\ exists \in BOOLEAN
  /\ log \in Seq(Events)
  /\ running \in Turns \cup {NoTurn}
  /\ phase \in [Turns -> Phases]
  /\ status \in [Turns -> Cards]
  /\ decision \in [Turns -> {"none", "yes", "no"}]
  /\ waiting \subseteq Turns
  /\ rows \in Seq(Messages)
  /\ savedCard \in [Turns -> Cards]
  /\ attached \in [Windows -> SUBSET Views]
  /\ mode \in [Windows -> {"none", "events", "send"}]
  /\ stop \in [Windows -> Slots \cup {0}]
  /\ stream \in [Windows -> [Slots -> Stream]]
  /\ streaming \in [Windows -> BOOLEAN]
  /\ loaded \in [Windows -> BOOLEAN]
  /\ lastUserText \in [Windows -> BOOLEAN]
  /\ messages \in [Windows -> Seq(Messages)]
  /\ card \in [Windows -> [Turns -> Cards]]
  /\ loads \subseteq [win : Windows, view : Views, from : Nat]
  /\ answers \subseteq [win : Windows, of : Turns, approve : BOOLEAN,
                        reply : {"none", "ok", "refused"}]
  /\ resetting \subseteq Windows
  /\ ops \in 0 .. MaxOps
  /\ applied \in [Windows -> Seq(Nat)]

Init ==
  /\ exists = TRUE
  /\ log = <<>>
  /\ running = NoTurn
  /\ phase = [t \in Turns |-> "idle"]
  /\ status = [t \in Turns |-> "none"]
  /\ decision = [t \in Turns |-> "none"]
  /\ waiting = {}
  /\ rows = <<>>
  /\ savedCard = [t \in Turns |-> "none"]
  /\ attached = [w \in Windows |-> {}]
  /\ mode = [w \in Windows |-> "none"]
  /\ stop = [w \in Windows |-> 0]
  /\ stream = [w \in Windows |-> [s \in Slots |-> NoStream]]
  /\ streaming = [w \in Windows |-> FALSE]
  /\ loaded = [w \in Windows |-> FALSE]
  /\ lastUserText = [w \in Windows |-> FALSE]
  /\ messages = [w \in Windows |-> <<>>]
  /\ card = [w \in Windows |-> [t \in Turns |-> "none"]]
  /\ loads = {}
  /\ answers = {}
  /\ resetting = {}
  /\ ops = 0
  /\ applied = [w \in Windows |-> <<>>]

-----------------------------------------------------------------------------
(* The server *)

\* hub.publish reaches every subscription there is.
Publish(tag, t) == log' = Append(log, [tag |-> tag, of |-> t])

Advance(t, from, to) ==
  /\ phase[t] = from
  /\ phase' = [phase EXCEPT ![t] = to]

SetStream(w, s, r) == stream' = [stream EXCEPT ![w][s] = r]

\* chat.send is accepted: the thread is claimed, the feed subscribed, the turn
\* forked.  The turn runs on whether or not somebody reads the feed.  (A send that is
\* interrupted between the claim and the fork is AgentTurn's SendDies.)
AcceptSend(w, s, t) ==
  LET r == stream[w][s] IN
  /\ exists
  /\ running = NoTurn
  /\ Advance(t, "idle", "started")
  /\ running' = t
  /\ \/ /\ r.st = "asked" /\ r.kind = "send"
        /\ SetStream(w, s, [st |-> "open", kind |-> "send", pos |-> Len(log)])
     \/ /\ r.st = "orphan"
        /\ SetStream(w, s, NoStream)
  /\ UNCHANGED <<exists, log, status, decision, waiting, rows, savedCard, attached, mode, stop,
                 threadVars, callVars, applied, ops>>

\* NotFound, a model that is not in the catalog, or busy; or the interrupt of an
\* abandoned send arrives in time.
RefuseSend(w, s) ==
  LET r == stream[w][s] IN
  /\ \/ /\ r.st = "asked" /\ r.kind = "send"
        /\ SetStream(w, s, [r EXCEPT !.st = "refused"])
     \/ /\ r.st = "orphan"
        /\ SetStream(w, s, NoStream)
  /\ UNCHANGED <<serverVars, attached, mode, stop, threadVars, callVars, applied, ops>>

\* chat.events: from now on.
OpenEvents(w, s) ==
  LET r == stream[w][s] IN
  /\ r.st = "asked" /\ r.kind = "events"
  /\ SetStream(w, s, IF exists THEN [r EXCEPT !.st = "open", !.pos = Len(log)]
                     ELSE [r EXCEPT !.st = "refused"])
  /\ UNCHANGED <<serverVars, attached, mode, stop, threadVars, callVars, applied, ops>>

\* The user's message is stored and published.
PublishUser(t) ==
  /\ exists
  /\ Advance(t, "started", "going")
  /\ rows' = Append(rows, [role |-> "user", of |-> t])
  /\ Publish("user", t)
  /\ UNCHANGED <<exists, running, status, decision, waiting, savedCard, windowVars, ops>>

\* An Error of the provider, or of runTurn itself.
PublishError(t) ==
  /\ "error" \in Faults
  /\ phase[t] \in {"started", "going"}
  /\ phase' = [phase EXCEPT ![t] = "closing"]
  /\ Publish("error", t)
  /\ UNCHANGED <<exists, running, status, decision, waiting, rows, savedCard, windowVars, ops>>

\* The assistant message is stored when it has parts and the thread is there; a
\* turn that failed may have none, or may have failed storing it.
SaveAssistant(t) ==
  /\ phase[t] \in {"going", "closing"}
  /\ phase' = [phase EXCEPT ![t] = "saved"]
  /\ \/ /\ exists
        /\ rows' = Append(rows, [role |-> "assistant", of |-> t])
        /\ savedCard' = [savedCard EXCEPT ![t] = status[t]]
     \/ /\ ~ exists \/ status[t] = "none" \/ phase[t] = "closing"
        /\ UNCHANGED <<rows, savedCard>>
  /\ UNCHANGED <<exists, log, running, status, decision, waiting, windowVars, ops>>

PublishDone(t) ==
  /\ Advance(t, "saved", "done")
  /\ Publish("done", t)
  /\ UNCHANGED <<exists, running, status, decision, waiting, rows, savedCard, windowVars, ops>>

ReleaseClaim(t) ==
  /\ phase[t] = "done"
  /\ running = t
  /\ running' = NoTurn
  /\ UNCHANGED <<exists, log, phase, status, decision, waiting, rows, savedCard, windowVars, ops>>

\* propose_write puts a write in front of the user.  A call that was made in time may
\* come to this after the turn has ended.
RequestApproval(t) ==
  /\ \/ phase[t] = "going"
     \/ "late" \in Faults /\ \E i \in 1 .. Len(log) : log[i] = [tag |-> "user", of |-> t]
  /\ status[t] = "none"
  /\ status' = [status EXCEPT ![t] = "pending"]
  /\ waiting' = waiting \cup {t}
  /\ Publish("requested", t)
  /\ UNCHANGED <<exists, running, phase, decision, rows, savedCard, windowVars, ops>>

\* The decision, or "no": the ten minutes may be over before it is looked at, and
\* an abort answers no.  Nothing waits for the end of the turn.
Settle(t) ==
  /\ t \in waiting
  /\ waiting' = waiting \ {t}
  /\ \E o \in {"approved", "rejected"} :
       /\ o = "approved" => decision[t] = "yes"
       /\ status' = [status EXCEPT ![t] = o]
       /\ Publish(o, t)
  /\ UNCHANGED <<exists, running, phase, decision, rows, savedCard, windowVars, ops>>

RunWrite(t) ==
  /\ status[t] = "approved"
  /\ \E o \in {"executed", "failed"} :
       /\ status' = [status EXCEPT ![t] = o]
       /\ Publish(o, t)
  /\ UNCHANGED <<exists, running, phase, decision, waiting, rows, savedCard, windowVars, ops>>

\* chat.approval.resolve arrives.  The first answer is kept; an id nobody waits
\* for is NotFound.
TakeAnswer(a) ==
  /\ a \in answers
  /\ a.reply = "none"
  /\ answers' = (answers \ {a}) \cup
                {[a EXCEPT !.reply = IF a.of \in waiting THEN "ok" ELSE "refused"]}
  /\ decision' = IF a.of \in waiting /\ decision[a.of] = "none"
                 THEN [decision EXCEPT ![a.of] = IF a.approve THEN "yes" ELSE "no"]
                 ELSE decision
  /\ UNCHANGED <<exists, log, running, phase, status, waiting, rows, savedCard, handleVars,
                 threadVars, loads, resetting, applied, ops>>

-----------------------------------------------------------------------------
(* The store of a window: stream bookkeeping                               *)

\* stopStream: the fiber of the stream is interrupted and calls nobody back.  The
\* request of a send may already be on its way.
Stopped(w) ==
  IF stop[w] = 0 THEN stream[w]
  ELSE [stream[w] EXCEPT ![stop[w]] =
          IF @.st = "asked" /\ @.kind = "send" THEN [@ EXCEPT !.st = "orphan"] ELSE NoStream]

\* streamRpc: a new stream beside those in `slots`.
Begin(w, slots, what) ==
  \E s \in Slots :
    /\ slots[s].st = "free"
    /\ \A r \in Slots : r < s => slots[r].st # "free"
    /\ stream' = [stream EXCEPT ![w] = [slots EXCEPT ![s] =
                    [st |-> "asked", kind |-> what, pos |-> 0]]]
    /\ mode' = [mode EXCEPT ![w] = what]
    /\ stop' = [stop EXCEPT ![w] = s]

ClearHandle(w, slots) ==
  /\ stream' = [stream EXCEPT ![w] = slots]
  /\ mode' = [mode EXCEPT ![w] = "none"]
  /\ stop' = [stop EXCEPT ![w] = 0]

\* subscribeEvents of a handle whose mode is null.
SubscribeEvents(w, slots, views) ==
  IF views = {} THEN ClearHandle(w, slots) ELSE Begin(w, slots, "events")

-----------------------------------------------------------------------------
(* The store of a window: events                                           *)

Has(msgs, role, t) == \E i \in 1 .. Len(msgs) : msgs[i] = [role |-> role, of |-> t]

UpsertAssistant(msgs, t) ==
  IF Has(msgs, "assistant", t) THEN msgs ELSE Append(msgs, [role |-> "assistant", of |-> t])

\* Mutant: a UserMessage that is there already is not recognised.
TakeUserBlindly(msgs, t) ==
  LET bubble == SelectInSeq(msgs, LAMBDA m : m = [role |-> "user", of |-> NoTurn])
      incoming == [role |-> "user", of |-> t]
  IN IF bubble > 0 THEN ReplaceAt(msgs, bubble, incoming) ELSE Append(msgs, incoming)

\* The first optimistic bubble, a user message of no turn yet, becomes the message.
TakeUser(msgs, t) ==
  LET bubble == SelectInSeq(msgs, LAMBDA m : m = [role |-> "user", of |-> NoTurn])
      incoming == [role |-> "user", of |-> t]
  IN CASE Has(msgs, "user", t) -> msgs
       [] ~ Has(msgs, "user", t) /\ bubble > 0 -> ReplaceAt(msgs, bubble, incoming)
       [] OTHER -> Append(msgs, incoming)

\* reduceEvent, on the messages and on the card of the event's turn.
ReduceMessages(msgs, e) ==
  CASE e.tag = "user" -> TakeUser(msgs, e.of)
    [] e.tag \in {"requested", "done"} -> UpsertAssistant(msgs, e.of)
    [] OTHER -> msgs

ReduceCard(status_, e) ==
  CASE e.tag = "requested" -> "pending"
    [] e.tag \in Outcomes /\ status_ # "none" -> e.tag
    [] OTHER -> status_

\* Mutant: the end of a turn that another window started goes unnoticed.
StillStreaming(e) == e.tag # "error"

StreamingAfter(e) == e.tag \notin {"error", "done"}

IsTerminal(e) == e.tag \in {"done", "error"}

\* applyEvent.  The feed of a send ends behind the first terminal event.
Deliver(w, s) ==
  LET r == stream[w][s]
      e == log[r.pos + 1]
  IN
  /\ r.st = "open"
  /\ r.pos < Len(log)
  /\ SetStream(w, s, [st |-> IF r.kind = "send" /\ IsTerminal(e) THEN "ended" ELSE "open",
                      kind |-> r.kind, pos |-> r.pos + 1])
  /\ messages' = [messages EXCEPT ![w] = ReduceMessages(@, e)]
  /\ card' = [card EXCEPT ![w][e.of] = ReduceCard(@, e)]
  /\ streaming' = [streaming EXCEPT ![w] = StreamingAfter(e)]
  /\ applied' = [applied EXCEPT ![w] = Append(@, r.pos + 1)]
  /\ UNCHANGED <<serverVars, attached, mode, stop, loaded, lastUserText, callVars, ops>>

\* onDone and onError.  A send is finished (finishTurn) and the passive stream taken
\* up again; an event stream that fails is not.
EndStream(w, s) ==
  LET r == stream[w][s]
      slots == [stream[w] EXCEPT ![s] = NoStream]
  IN
  /\ \/ r.st \in {"ended", "refused"}
     \/ "drop" \in Faults /\ r.st \in {"asked", "open"}
  /\ IF r.kind = "send"
     THEN /\ streaming' = [streaming EXCEPT ![w] = FALSE]
          /\ SubscribeEvents(w, slots, attached[w])
     ELSE /\ UNCHANGED streaming
          /\ IF mode[w] = "events" THEN ClearHandle(w, slots)
             ELSE SetStream(w, s, NoStream) /\ UNCHANGED <<mode, stop>>
  /\ UNCHANGED <<serverVars, attached, loaded, lastUserText, messages, card, callVars, applied, ops>>

-----------------------------------------------------------------------------
(* The store of a window: what its user does                               *)

May(op) == op \in UserOps /\ ops < MaxOps /\ ops' = ops + 1

\* A view is mounted: attach, then load, which asks for the messages once.
Attach(w, v) ==
  /\ May("attach")
  /\ v \notin attached[w]
  /\ \A l \in loads : l.win = w => l.view # v
  /\ attached' = [attached EXCEPT ![w] = @ \cup {v}]
  /\ IF attached[w] = {} /\ mode[w] = "none"
     THEN Begin(w, stream[w], "events")
     ELSE UNCHANGED <<stream, mode, stop>>
  /\ loads' = IF loaded[w] THEN loads ELSE loads \cup {[win |-> w, view |-> v, from |-> Len(rows)]}
  /\ UNCHANGED <<serverVars, threadVars, answers, resetting, applied>>

\* A send goes on without a view; the passive stream does not.
Detach(w, v) ==
  /\ May("detach")
  /\ v \in attached[w]
  /\ attached' = [attached EXCEPT ![w] = @ \ {v}]
  /\ IF attached[w] = {v} /\ mode[w] = "events"
     THEN ClearHandle(w, Stopped(w))
     ELSE UNCHANGED <<stream, mode, stop>>
  /\ UNCHANGED <<serverVars, threadVars, callVars, applied>>

\* The rows as they were at some moment since the call replace the messages, cards
\* included; no rows leave them.  A call that fails only ends the loading.
LoadReply(l) ==
  LET w == l.win IN
  /\ l \in loads
  /\ loads' = loads \ {l}
  /\ loaded' = [loaded EXCEPT ![w] = TRUE]
  /\ \/ \E n \in 1 .. Len(rows) :
          /\ n >= l.from
          /\ messages' = [messages EXCEPT ![w] = SubSeq(rows, 1, n)]
          /\ card' = [card EXCEPT ![w] = [t \in Turns |->
                        IF Has(SubSeq(rows, 1, n), "assistant", t) THEN savedCard[t] ELSE "none"]]
     \/ /\ l.from = 0 \/ ~ exists \/ "drop" \in Faults
        /\ UNCHANGED <<messages, card>>
  /\ UNCHANGED <<serverVars, handleVars, streaming, lastUserText, answers, resetting, applied, ops>>

\* Mutant: the stream that feeds the window is left running.
StartSendBeside(w, msgs) ==
  /\ messages' = [messages EXCEPT ![w] = Append(msgs, [role |-> "user", of |-> NoTurn])]
  /\ streaming' = [streaming EXCEPT ![w] = TRUE]
  /\ lastUserText' = [lastUserText EXCEPT ![w] = TRUE]
  /\ Begin(w, stream[w], "send")
  /\ UNCHANGED <<serverVars, attached, loaded, callVars, applied>>

\* startSend: whatever feeds the window is stopped first.
StartSend(w, msgs) ==
  /\ messages' = [messages EXCEPT ![w] = Append(msgs, [role |-> "user", of |-> NoTurn])]
  /\ streaming' = [streaming EXCEPT ![w] = TRUE]
  /\ lastUserText' = [lastUserText EXCEPT ![w] = TRUE]
  /\ Begin(w, Stopped(w), "send")
  /\ UNCHANGED <<serverVars, attached, loaded, callVars, applied>>

Bubbles(w) == {i \in 1 .. Len(messages[w]) : messages[w][i].of = NoTurn}

\* Enter sends, also while a turn is streaming.  The first message of a draft is sent
\* by the window that has just created the thread, before a view shows it.
IsNew == \A u \in Windows : attached[u] = {} /\ messages[u] = <<>> /\ loads = {}

Send(w) ==
  /\ May("send")
  /\ attached[w] # {} \/ IsNew
  /\ Cardinality(Bubbles(w)) < MaxPending
  /\ StartSend(w, messages[w])
  /\ UNCHANGED card

\* Offered below the last assistant message: the last user message goes, and all
\* that follows it.
Retry(w) ==
  \E last \in 0 .. Len(messages[w]) :
    LET left == IF last = 0 THEN messages[w] ELSE SubSeq(messages[w], 1, last - 1) IN
    /\ last > 0 => messages[w][last].role = "user"
    /\ \A i \in last + 1 .. Len(messages[w]) : messages[w][i].role = "assistant"
    /\ May("retry")
    /\ attached[w] # {} /\ ~ streaming[w] /\ lastUserText[w]
    /\ messages[w] # <<>> /\ messages[w][Len(messages[w])].role = "assistant"
    /\ Cardinality(Bubbles(w)) < MaxPending
    /\ StartSend(w, left)
    /\ card' = [card EXCEPT ![w] = [t \in Turns |->
                  IF Has(left, "assistant", t) THEN card[w][t] ELSE "none"]]

\* Stop.  chat.abort lets the provider stop and answers a waiting approval no; in this
\* model both may happen at any time.
Abort(w) ==
  /\ May("abort")
  /\ attached[w] # {} /\ streaming[w]
  /\ streaming' = [streaming EXCEPT ![w] = FALSE]
  /\ IF mode[w] = "events" THEN UNCHANGED <<stream, mode, stop>>
     ELSE SubscribeEvents(w, Stopped(w), attached[w])
  /\ UNCHANGED <<serverVars, attached, loaded, lastUserText, messages, card, callVars, applied>>

\* Mutant: the optimistic card anticipates the outcome.
AnsweredCard(approve) == IF approve THEN "executed" ELSE "rejected"

OptimisticCard(approve) == IF approve THEN "approved" ELSE "rejected"

\* A pending card offers Run and Reject.
Answer(w, t, approve) ==
  /\ May("answer")
  /\ attached[w] # {}
  /\ card[w][t] = "pending"
  /\ card' = [card EXCEPT ![w][t] = OptimisticCard(approve)]
  /\ answers' = answers \cup {[win |-> w, of |-> t, approve |-> approve, reply |-> "none"]}
  /\ UNCHANGED <<serverVars, handleVars, streaming, loaded, lastUserText, messages, loads,
                 resetting, applied>>

\* The call comes back.  One that failed puts the card where the user's choice would
\* have put it.
HearAnswer(a) ==
  LET w == a.win IN
  /\ a \in answers
  /\ answers' = answers \ {a}
  /\ \/ a.reply = "ok" /\ UNCHANGED card
     \/ /\ a.reply = "refused" \/ "drop" \in Faults
        /\ card' = [card EXCEPT ![w][a.of] =
                      IF @ = "none" THEN @ ELSE IF a.approve THEN "failed" ELSE "rejected"]
  /\ UNCHANGED <<serverVars, handleVars, streaming, loaded, lastUserText, messages, loads,
                 resetting, applied, ops>>

\* chat.threads.delete cascades to the messages; a turn that runs goes on.
DeleteThread(w) ==
  /\ May("delete")
  /\ exists
  /\ exists' = FALSE
  /\ rows' = <<>>
  /\ resetting' = resetting \cup {w}
  /\ UNCHANGED <<log, running, phase, status, decision, waiting, savedCard, handleVars,
                 threadVars, loads, answers, applied>>

\* reset, once the deletion has succeeded.
Reset(w) ==
  /\ w \in resetting
  /\ resetting' = resetting \ {w}
  /\ ClearHandle(w, Stopped(w))
  /\ streaming' = [streaming EXCEPT ![w] = FALSE]
  /\ loaded' = [loaded EXCEPT ![w] = FALSE]
  /\ lastUserText' = [lastUserText EXCEPT ![w] = FALSE]
  /\ messages' = [messages EXCEPT ![w] = <<>>]
  /\ card' = [card EXCEPT ![w] = [t \in Turns |-> "none"]]
  /\ UNCHANGED <<serverVars, attached, loads, answers, applied, ops>>

-----------------------------------------------------------------------------
ServerTurn(t) ==
  \/ PublishUser(t)   \/ SaveAssistant(t) \/ PublishDone(t) \/ ReleaseClaim(t)
  \/ PublishError(t)  \/ RequestApproval(t)
  \/ Settle(t)        \/ RunWrite(t)

ServerStream(w, s) ==
  \/ \E t \in Turns : AcceptSend(w, s, t)
  \/ RefuseSend(w, s)
  \/ OpenEvents(w, s)

User(w) ==
  \/ \E v \in Views : Attach(w, v) \/ Detach(w, v)
  \/ Send(w) \/ Retry(w) \/ Abort(w) \/ DeleteThread(w)
  \/ \E t \in Turns, approve \in BOOLEAN : Answer(w, t, approve)

System ==
  \/ \E t \in Turns : ServerTurn(t)
  \/ \E w \in Windows :
       \/ Reset(w)
       \/ \E s \in Slots : ServerStream(w, s) \/ Deliver(w, s) \/ EndStream(w, s)
  \/ \E a \in answers : TakeAnswer(a) \/ HearAnswer(a)
  \/ \E l \in loads : LoadReply(l)

Next == System \/ \E w \in Windows : User(w)

Spec == Init /\ [][Next]_vars

\* Requests, replies and events arrive, the server settles approvals (ten minutes),
\* runs the writes, and ends a turn whose provider has stopped.  Neither users nor
\* providers owe anything.
Fairness ==
  /\ \A t \in Turns :
       /\ WF_vars(PublishDone(t) \/ ReleaseClaim(t))
       /\ WF_vars(Settle(t))
       /\ WF_vars(RunWrite(t))
  /\ \A w \in Windows, s \in Slots :
       /\ WF_vars(ServerStream(w, s))
       /\ WF_vars(Deliver(w, s))
       /\ WF_vars(stream[w][s].st \in {"ended", "refused"} /\ EndStream(w, s))
  /\ WF_vars(\E a \in answers : TakeAnswer(a))
  /\ WF_vars(\E a \in answers : a.reply # "none" /\ HearAnswer(a))

FairSpec == Spec /\ Fairness

-----------------------------------------------------------------------------
(* Properties *)

Feeding(r) == r.st \in {"asked", "open", "ended", "refused"}

\* "One RPC stream per thread at a time": the handle names the only stream that can
\* still call the store back, whatever order sends, aborts, views, refusals and broken
\* connections come in.
OneStream ==
  \A w \in Windows :
    /\ \A s \in Slots : Feeding(stream[w][s]) => stop[w] = s /\ mode[w] = stream[w][s].kind
    /\ mode[w] # "none" => stop[w] # 0 /\ Feeding(stream[w][stop[w]])

\* "Every event applied exactly once no matter how many views are mounted", as far as
\* streams can see to it: no window applies an event twice or an older one after a newer.
AppliedOnce ==
  \A w \in Windows : \A i, j \in 1 .. Len(applied[w]) :
    i < j => applied[w][i] < applied[w][j]

\* A window shows each message once: the optimistic one, the event, a reload and an
\* event after the reload do not add up to two.
NoDuplicateMessages ==
  \A w \in Windows : \A i, j \in 1 .. Len(messages[w]) :
    messages[w][i] = messages[w][j] /\ messages[w][i].of # NoTurn => i = j

\* "Committed." is shown only for a write the server has recorded as executed.
ExecutedIsTrue ==
  \A w \in Windows, t \in Turns : card[w][t] = "executed" => status[t] = "executed"

\* Card events that were published behind the TurnDone of their turn.
Late == {t \in Turns : \E i, j \in 1 .. Len(log) :
           i < j /\ log[i] = [tag |-> "done", of |-> t] /\ log[j].of = t}

\* Turns of which a window has missed an event: it has not applied it and no stream of
\* it is going to bring it.
Missed(w) ==
  {log[i].of : i \in {i \in 1 .. Len(log) :
     /\ i \notin ToSet(applied[w])
     /\ \A s \in Slots : ~ (stream[w][s].st = "open" /\ stream[w][s].pos < i)}}

\* A window does not show a turn as streaming for ever when none is running, unless it
\* missed events of a turn or a card event came after the TurnDone.
StreamingEnds ==
  \A w \in Windows :
    streaming[w] /\ running = NoTurn ~>
      \/ ~ streaming[w] \/ running # NoTurn
      \/ Missed(w) # {} \/ Late # {}

\* A card does not say "Executing..." for ever, unless the window missed events of the
\* turn or the message was saved with the card in that state.
SpinnerEnds ==
  \A w \in Windows, t \in Turns :
    card[w][t] = "approved" ~>
      card[w][t] # "approved" \/ t \in Missed(w) \/ savedCard[t] = "approved"

\* chat-store.ts: no indicator of the thread turns for ever.
IndicatorsEnd == StreamingEnds /\ SpinnerEnds

-----------------------------------------------------------------------------
(* What a label says and the code does not do *)

\* approval-card.tsx:115, on a failed card: "Rolled back."
FailedMeansRolledBack ==
  \A w \in Windows, t \in Turns : card[w][t] = "failed" => status[t] # "executed"
=============================================================================
