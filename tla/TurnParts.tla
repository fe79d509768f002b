----------------------------- MODULE TurnParts -----------------------------
(***************************************************************************)
(* The parts of an assistant message, built twice from what a provider     *)
(* tells: on the server to be saved, by the TurnNormalizer of              *)
(* agent/events.ts (claude) or the collector of agent/driverEvents.ts      *)
(* (codex, opencode), and in the web app by reduceEvent of                 *)
(* lib/chat-store.ts from the events the server sends.                     *)
(*                                                                         *)
(* The provider is external.  Claude streams a block and then repeats it   *)
(* whole; it may leave the stream out.  A text is the sequence of deltas,  *)
(* a delta the number of its block.                                        *)
(***************************************************************************)
EXTENDS Naturals, Sequences, FiniteSets, SequencesExt

CONSTANTS Tools,     \* ids of tool calls
          Approvals, \* ids of approvals
          MaxParts   \* bound: blocks and tool events of the turn

VARIABLES
  normalizer,   \* TRUE: claude
  parts,        \* saved
  shownParts,   \* in the web app
  sawPartials,
  block,        \* the block being streamed: kind and text so far, or NoBlock
  said,         \* blocks and tool events so far
  merged,       \* two blocks of a kind in a row, or one that was not streamed
  turnOver

partsVars == <<normalizer, parts, shownParts, sawPartials, block, said, merged, turnOver>>

NoBlock == [kind |-> "none", text |-> <<>>]
Kinds == {"Text", "Thinking"}
Part(tag, id, text, status) == [tag |-> tag, id |-> id, text |-> text, status |-> status]

PartsInit ==
  /\ normalizer \in BOOLEAN
  /\ parts = <<>> /\ shownParts = <<>> /\ sawPartials = FALSE
  /\ block = NoBlock /\ said = 0 /\ merged = FALSE /\ turnOver = FALSE

\* appendText, text and thinking, appendDelta: all of them continue the last
\* part if it is of the kind.
AppendDelta(ps, kind, text) ==
  IF ps # <<>> /\ Last(ps).tag = kind
  THEN [ps EXCEPT ![Len(ps)].text = @ \o text]
  ELSE Append(ps, Part(kind, "none", text, "none"))

\* The server changes the first part with the id, the web app each.
SetFirst(ps, tag, id, status) ==
  LET found == {i \in DOMAIN ps : ps[i].tag = tag /\ ps[i].id = id}
  IN IF found = {} THEN ps ELSE [ps EXCEPT ![CHOOSE i \in found : \A j \in found : i <= j].status = status]
SetAll(ps, tag, id, status) ==
  [i \in DOMAIN ps |-> IF ps[i].tag = tag /\ ps[i].id = id THEN [ps[i] EXCEPT !.status = status] ELSE ps[i]]

\* reduceEvent, for an event that brings a part, text, or the end of something.
ReduceEvent(ps, ev) ==
  CASE ev.tag \in Kinds -> AppendDelta(ps, ev.tag, ev.text)
    [] ev.tag \in {"ToolStart", "ResultTable", "ApprovalRequested"} -> Append(ps, ev.part)
    [] ev.tag = "ToolEnd" -> SetAll(ps, "ToolCall", ev.id, ev.status)
    [] ev.tag = "ApprovalResolved" -> SetAll(ps, "Approval", ev.id, ev.status)

Emit(ev) == shownParts' = ReduceEvent(shownParts, ev)

Going == ~turnOver
New == said < MaxParts /\ said' = said + 1
IsLast(kind) == parts # <<>> /\ Last(parts).tag = kind
-----------------------------------------------------------------------------
(* Text *)

\* A delta; the first one of a block opens it.
Delta(kind) ==
  /\ Going
  /\ \/ block = NoBlock /\ New /\ merged' = (merged \/ (normalizer /\ IsLast(kind)))
     \/ block.kind = kind /\ Len(block.text) < 2 /\ UNCHANGED <<said, merged>>
  /\ block' = IF normalizer THEN [kind |-> kind, text |-> Append(block.text, said')] ELSE NoBlock
  /\ sawPartials' = TRUE
  /\ parts' = AppendDelta(parts, kind, <<said'>>)
  /\ Emit([tag |-> kind, text |-> <<said'>>])
  /\ UNCHANGED <<normalizer, turnOver>>

\* The last part of the kind gets the final text, wherever it is.
Final(kind, text) ==
  LET found == {i \in DOMAIN parts : parts[i].tag = kind}
  IN IF found = {} THEN parts ELSE [parts EXCEPT ![CHOOSE i \in found : \A j \in found : i >= j].text = text]

\* The whole block, streamed before or not.  Once anything has been streamed it
\* only corrects what is there, else it is a part and an event.
Assistant(kind, text) ==
  /\ Going /\ normalizer
  /\ \/ block.kind = kind /\ text = block.text /\ UNCHANGED <<said, merged>>
     \/ block = NoBlock /\ New /\ text = <<said'>> /\ merged' = (merged \/ sawPartials \/ IsLast(kind))
  /\ block' = NoBlock
  /\ IF sawPartials
     THEN parts' = Final(kind, text) /\ UNCHANGED shownParts
     ELSE parts' = Append(parts, Part(kind, "none", text, "none")) /\ Emit([tag |-> kind, text |-> text])
  /\ UNCHANGED <<normalizer, sawPartials, turnOver>>
-----------------------------------------------------------------------------
(* Tools *)

Uses(id) == \E i \in DOMAIN parts : parts[i].id = id

\* tool_use, toolStart.
ToolUse(id) ==
  /\ Going /\ block = NoBlock /\ ~Uses(id) /\ New
  /\ LET part == Part("ToolCall", id, <<>>, "running")
     IN parts' = Append(parts, part) /\ Emit([tag |-> "ToolStart", part |-> part])
  /\ UNCHANGED <<normalizer, sawPartials, block, merged, turnOver>>

\* tool_result, toolEnd.
ToolResult(id, status) ==
  /\ Going /\ \E i \in DOMAIN parts : parts[i].id = id /\ parts[i].status = "running"
  /\ parts' = SetFirst(parts, "ToolCall", id, status)
  /\ Emit([tag |-> "ToolEnd", id |-> id, status |-> status])
  /\ UNCHANGED <<normalizer, sawPartials, block, said, merged, turnOver>>

IngestToolEvent(ev) ==
  CASE ev.tag \in {"ResultTable", "ApprovalRequested"} -> Append(parts, ev.part)
    [] ev.tag = "ApprovalResolved" -> SetFirst(parts, "Approval", ev.id, ev.status)

\* What a tool does while it runs, even inside a block that is being streamed.
ToolEvent(ev) ==
  /\ Going
  /\ parts' = IngestToolEvent(ev) /\ Emit(ev)
  /\ UNCHANGED <<normalizer, sawPartials, block, turnOver>>

ResultTable ==
  /\ New /\ merged' = (merged \/ block # NoBlock)
  /\ ToolEvent([tag |-> "ResultTable", part |-> Part("ResultTable", "none", <<>>, "none")])

ApprovalRequested(a) ==
  /\ New /\ ~Uses(a) /\ merged' = (merged \/ block # NoBlock)
  /\ ToolEvent([tag |-> "ApprovalRequested", part |-> Part("Approval", a, <<>>, "pending")])

ApprovalResolved(a, status) ==
  /\ \E i \in DOMAIN parts : parts[i].id = a /\ parts[i].status = "pending"
  /\ ToolEvent([tag |-> "ApprovalResolved", id |-> a, status |-> status])
  /\ UNCHANGED <<said, merged>>

\* result, or the end of the child: parts are saved as they are.
Result ==
  /\ Going /\ turnOver' = TRUE
  /\ UNCHANGED <<normalizer, parts, shownParts, sawPartials, block, said, merged>>

PartsNext ==
  \/ \E kind \in Kinds :
       Delta(kind) \/ \E text \in {block.text, <<said + 1>>} : Assistant(kind, text)
  \/ \E id \in Tools : ToolUse(id) \/ \E status \in {"done", "error"} : ToolResult(id, status)
  \/ ResultTable
  \/ \E a \in Approvals :
       ApprovalRequested(a) \/ \E s \in {"executed", "rejected"} : ApprovalResolved(a, s)
  \/ Result

PartsSpec == PartsInit /\ [][PartsNext]_partsVars
-----------------------------------------------------------------------------
(* Properties *)

\* What is saved is what was shown, at every moment and so when the turn ends:
\* a reload changes nothing.  The exceptions are claude's: two blocks of a kind
\* in a row share a part that gets the text of the second, a block that was not
\* streamed after one that was replaces an old text, and a tool that shows a
\* table in the middle of a block splits it.
SavedIsShown == merged \/ parts = shownParts

\* The parts that are no texts, in order.
Solid(ps) ==
  LET solid[i \in 0..Len(ps)] ==
        IF i = 0 THEN <<>>
        ELSE IF ps[i].tag \in Kinds THEN solid[i-1] ELSE Append(solid[i-1], ps[i])
  IN solid[Len(ps)]

\* No saved part is lost, whatever the exceptions do to texts: the same tools,
\* tables and cards with the same states stand in the same order.
ToolsAreSaved == Solid(parts) = Solid(shownParts)
=============================================================================
