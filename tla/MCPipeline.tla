----------------------------- MODULE MCPipeline -----------------------------
(* Instances of Pipeline for TLC: under rules A p1 resolves to two entries *)
(* and p2 to one of them, under rules B p1 resolves to a third; q is a     *)
(* query, which does not parse.                                            *)
EXTENDS Pipeline, TLC

CONSTANTS p1, p2, q, k1, k2, kq, A, B, x, y, z

Resolves(rs, p) ==
  CASE rs = A /\ p = p1 -> <<x, y>>
    [] rs = A /\ p = p2 -> <<x>>
    [] rs = B /\ p = p1 -> <<z>>
    [] OTHER -> <<>>

MCFnv  == [p \in Payloads |-> CASE p = p1 -> k1 [] p = p2 -> k2 [] p = q -> kq]
MCPlan == [rs \in RuleSets |-> [p \in Payloads |-> Resolves(rs, p)]]
=============================================================================
