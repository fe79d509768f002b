------------------------------ MODULE MCParts ------------------------------
(* A small instance of Parts for TLC: what the .cfg cannot spell. *)
EXTENDS Parts

MCLimits  == {NoLimit, NotInteger, 0, 1, 3}
MCColumns == [n |-> "int", t |-> "text", b |-> "bool"]
MCKinds   == [home |-> "chat", q |-> "sql", t |-> "table"]
MCModels  == [anthropic |-> <<"a1", "a2">>, openai |-> <<"o1">>]
=============================================================================
