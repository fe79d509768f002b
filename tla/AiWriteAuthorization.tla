------------------------ MODULE AiWriteAuthorization ------------------------
(***************************************************************************)
(* What dbchat promises about data-changing statements that come from the  *)
(* model, independently of turns, processes, sqlite rows and timeouts:     *)
(*                                                                         *)
(*   - a write runs at most once, and only after it was granted;           *)
(*   - a write that was put in front of the user is granted by the user's  *)
(*     yes and by nothing else, whatever happens to the policy meanwhile;  *)
(*   - a write that was not put in front of the user is granted only while *)
(*     its connection has "Read-only for AI" switched off;                 *)
(*   - the first answer given to a write is the only one.                  *)
(*                                                                         *)
(* AgentTurn implements this specification (AgentTurn!Authorization).      *)
(***************************************************************************)
CONSTANTS
  Calls,     \* the propose_write invocations
  Conns,     \* the database connections
  NoConn     \* a call that has not been made yet

VARIABLES
  askFirst,  \* [Conns -> BOOLEAN]: "Read-only for AI"
  target,    \* [Calls -> Conns \cup {NoConn}]: where the write would go
  carded,    \* the calls put in front of the user
  answer,    \* [Calls -> {"none", "yes", "no"}]
  grant,     \* [Calls -> {"none", "user", "policy"}]
  ran        \* the writes that changed the database

vars == <<askFirst, target, carded, answer, grant, ran>>

TypeOK ==
  /\ askFirst \in [Conns -> BOOLEAN]
  /\ target \in [Calls -> Conns \cup {NoConn}]
  /\ carded \subseteq Calls
  /\ answer \in [Calls -> {"none", "yes", "no"}]
  /\ grant \in [Calls -> {"none", "user", "policy"}]
  /\ ran \subseteq Calls

Init ==
  /\ askFirst \in [Conns -> BOOLEAN]
  /\ target = [c \in Calls |-> NoConn]
  /\ carded = {}
  /\ answer = [c \in Calls |-> "none"]
  /\ grant = [c \in Calls |-> "none"]
  /\ ran = {}

SetPolicy ==
  /\ askFirst' \in [Conns -> BOOLEAN]
  /\ UNCHANGED <<target, carded, answer, grant, ran>>

Propose(c) ==
  /\ target[c] = NoConn
  /\ \E k \in Conns : target' = [target EXCEPT ![c] = k]
  /\ UNCHANGED <<askFirst, carded, answer, grant, ran>>

Card(c) ==
  /\ target[c] # NoConn
  /\ grant[c] = "none"
  /\ carded' = carded \cup {c}
  /\ UNCHANGED <<askFirst, target, answer, grant, ran>>

Answer(c) ==
  /\ c \in carded
  /\ answer[c] = "none"
  /\ \E a \in {"yes", "no"} : answer' = [answer EXCEPT ![c] = a]
  /\ UNCHANGED <<askFirst, target, carded, grant, ran>>

GrantByUser(c) ==
  /\ answer[c] = "yes"
  /\ grant[c] = "none"
  /\ grant' = [grant EXCEPT ![c] = "user"]
  /\ UNCHANGED <<askFirst, target, carded, answer, ran>>

GrantByPolicy(c) ==
  /\ target[c] # NoConn
  /\ c \notin carded
  /\ ~ askFirst[target[c]]
  /\ grant[c] = "none"
  /\ grant' = [grant EXCEPT ![c] = "policy"]
  /\ UNCHANGED <<askFirst, target, carded, answer, ran>>

\* Several writes may reach their databases in one step: a server that dies
\* leaves all the statements it had sent to be finished by their databases.
Run ==
  /\ \E S \in SUBSET {c \in Calls : grant[c] # "none" /\ c \notin ran} :
       ran' = ran \cup S
  /\ UNCHANGED <<askFirst, target, carded, answer, grant>>

Next ==
  \/ SetPolicy
  \/ Run
  \/ \E c \in Calls : \/ Propose(c)
                      \/ Card(c)
                      \/ Answer(c)
                      \/ GrantByUser(c)
                      \/ GrantByPolicy(c)

Spec == Init /\ [][Next]_vars
=============================================================================
