------------------------------ MODULE MCRules -------------------------------
(* Instance of Rules for TLC: files of up to MaxRules rules over a parent  *)
(* domain, two children and a sibling, written in several ways.            *)
EXTENDS Rules, FiniteSets

CONSTANTS MaxRules

MCLabels == {"com", "COM", "a", "A", "b"}
MCLower  == [l \in MCLabels |-> CASE l = "COM" -> "com" [] l = "A" -> "a" [] OTHER -> l]

N(labels, dots, space) == [labels |-> labels, dots |-> dots, space |-> space]

MCDomains == {
  N(<<>>, 0, TRUE), N(<<>>, 1, FALSE), N(<<"com">>, 0, FALSE), N(<<"b">>, 1, FALSE),
  N(<<"a", "com">>, 0, FALSE), N(<<"A", "COM">>, 1, TRUE), N(<<"b", "a", "com">>, 0, FALSE),
  N(<<"com", "a">>, 0, FALSE), N(<<"com">>, 2, FALSE)}

MCRule == {[domain |-> d, v4 |-> "s4", v6 |-> "none"] : d \in MCDomains}
            \cup {[domain |-> N(<<"com">>, 0, FALSE), v4 |-> "none", v6 |-> x] : x \in {"none", "s6"}}

MCFiles == [version : {1}, rules : UNION {[1 .. n -> MCRule \cup {Null}] : n \in 0 .. MaxRules}]
             \cup [version : {0, 2}, rules : {<<>>}]

MCQueries == {N(s, d, FALSE) : d \in 0 .. 1, s \in UNION {[1 .. n -> MCLabels] : n \in 0 .. 3}}
=============================================================================
