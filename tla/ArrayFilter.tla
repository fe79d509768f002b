---------------------------- MODULE ArrayFilter ----------------------------
(* Array.prototype.filter, as far as its scan has come: a function, which    *)
(* proofs can take apart where they cannot look into SelectSeq.              *)
EXTENDS Naturals, Sequences

\* The elements of s that are in S, in their order.
Kept(s, S) ==
    LET kept[i \in 0..Len(s)] ==
          IF i = 0 THEN <<>> ELSE IF s[i] \in S THEN Append(kept[i-1], s[i]) ELSE kept[i-1]
    IN kept[Len(s)]

Elements(s) == {s[i] : i \in DOMAIN s}
=============================================================================
