---------------------------- MODULE SqlExecution ----------------------------
(***************************************************************************)
(* What sql.run promises its client, independently of fibers, sessions and *)
(* transactions:                                                           *)
(*                                                                         *)
(*   - a read changes nothing;                                             *)
(*   - a write takes effect at one point or not at all: before a result    *)
(*     that says "ok", and after no other result than "canceled";          *)
(*   - a run has one result, which is "canceled" exactly if it was stopped *)
(*     before; the client is told that result and the history keeps it, or *)
(*     either hears nothing.                                               *)
(*                                                                         *)
(* SqlRun implements this specification (SqlRun!Execution).                *)
(***************************************************************************)
CONSTANT Runs  \* calls of sql.run

VARIABLES
  kind,     \* [Runs -> {"none", "read", "write"}]: what was asked for
  stopped,  \* the runs someone has cancelled, or whose client went away
  result,   \* [Runs -> {"none", "ok", "error", "canceled"}]
  told,     \* the same of what the client was told
  logged,   \* and of what the history says
  changed   \* the runs whose changes are in the database

vars == <<kind, stopped, result, told, logged, changed>>

Init ==
  /\ kind = [r \in Runs |-> "none"]
  /\ stopped = {}
  /\ result = [r \in Runs |-> "none"]
  /\ told = [r \in Runs |-> "none"]
  /\ logged = [r \in Runs |-> "none"]
  /\ changed = {}

Underway(r) == kind[r] # "none" /\ result[r] = "none"

\* A read may be refused for its text.
Ask(r) ==
  /\ kind[r] = "none" /\ result[r] = "none"
  /\ \/ \E k \in {"read", "write"} : kind' = [kind EXCEPT ![r] = k] /\ UNCHANGED result
     \/ /\ kind' = [kind EXCEPT ![r] = "read"]
        /\ result' = [result EXCEPT ![r] = "error"]
  /\ UNCHANGED <<stopped, told, logged, changed>>

Stop(r) ==
  /\ kind[r] # "none"
  /\ stopped' = stopped \cup {r}
  /\ UNCHANGED <<kind, result, told, logged, changed>>

Change(r) ==
  /\ kind[r] = "write" /\ result[r] \in {"none", "canceled"} /\ r \notin changed
  /\ changed' = changed \cup {r}
  /\ UNCHANGED <<kind, stopped, result, told, logged>>

End(r) ==
  /\ Underway(r)
  /\ \E o \in {"ok", "error", "canceled"} :
       /\ o = "canceled" <=> r \in stopped
       /\ o = "ok" /\ kind[r] = "write" => r \in changed
       /\ result' = [result EXCEPT ![r] = o]
  /\ UNCHANGED <<kind, stopped, told, logged, changed>>

\* No driver, no run: the client hears of it, the history does not.
Refuse(r) ==
  /\ Underway(r) /\ r \notin stopped \cup changed
  /\ result' = [result EXCEPT ![r] = "error"]
  /\ told' = [told EXCEPT ![r] = "error"]
  /\ UNCHANGED <<kind, stopped, logged, changed>>

\* The history may fail to be written, or the client be gone.
Report(r) ==
  /\ result[r] # "none" /\ told[r] = "none" /\ logged[r] = "none"
  /\ told' \in {told, [told EXCEPT ![r] = result[r]]}
  /\ logged' \in {logged, [logged EXCEPT ![r] = result[r]]}
  /\ UNCHANGED <<kind, stopped, result, changed>>

Next == \E r \in Runs : Ask(r) \/ Stop(r) \/ Change(r) \/ End(r) \/ Refuse(r) \/ Report(r)

Spec == Init /\ [][Next]_vars
=============================================================================
