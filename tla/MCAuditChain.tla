---------------------------- MODULE MCAuditChain ----------------------------
(* Instances of AuditChain: two MCP processes, one of them with two threads, *)
(* and a hash that is the pair it is computed from.                          *)
EXTENDS AuditChain, Sequences

CONSTANTS w1, w2, w3, p1, p2, e1, e2, b1

PairHash(prev, event) == <<prev, event>>
TwoThenOne == [w \in Writers |-> IF w = w3 THEN p2 ELSE p1]
Reset == {[NoRow EXCEPT !.id = 1, !.event = e1]}
NoRows == {}
=============================================================================
