------------------------------ MODULE MCHandle -------------------------------
(* Instances of Handle for TLC: names a, b, c and c written in capitals,   *)
(* one rule with both sets on a, and one for IPv4 only on c.               *)
EXTENDS Handle, TLC

CONSTANTS MaxAnswers, Owners, Targets

MCNames  == {"", "a", "b", "c", "C", "d"}
MCNormal == [n \in MCNames |-> IF n = "C" THEN "c" ELSE n]
MCMatch  == [n \in MCNames |-> CASE n = "a" -> "r1" [] n = "c" -> "r2" [] OTHER -> "none"]
MCSetOf  == "r1" :> (4 :> "s4" @@ 6 :> "s6") @@ "r2" :> (4 :> "t4" @@ 6 :> "none")

MCRRs == [type : {"A"}, owner : Owners, ip : {"ip1"}, ttl : {0, 90}]
           \cup [type : {"AAAA"}, owner : Owners, ip : {"ip6"}, ttl : {300}]
           \cup [type : {"CNAME"}, owner : Owners, target : Targets]
           \cup [type : {"other"}, owner : {"b"}]

\* In order, in order with less than a second, and in the wrong order.
MCFlags == {[ttlMin |-> 60000, ttlMax |-> 120000], [ttlMin |-> 500, ttlMax |-> 120000],
            [ttlMin |-> 120000, ttlMax |-> 60000]}

Answers == UNION {[1 .. n -> MCRRs] : n \in 0 .. MaxAnswers}

MCMessages ==
  [ok : {TRUE}, response : {TRUE}, rcode : {0}, question : {<<>>, <<"a">>}, answer : Answers]
    \cup [ok : BOOLEAN, response : BOOLEAN, rcode : {0, 3}, question : {<<"a">>}, answer : {<<>>}]

\* A chain of n aliases from a to the owner of the address, as a CDN returns it.
Link     == <<"a", "b", "c", "d">>
Chain(n) ==
  [j \in 1 .. n |-> [type |-> "CNAME", owner |-> Link[j], target |-> Link[j + 1]]]
    \o <<[type |-> "A", owner |-> Link[n + 1], ip |-> "ip1", ttl |-> 90]>>

ChainMessages ==
  [ok : {TRUE}, response : {TRUE}, rcode : {0}, question : {<<"a">>}, answer : {Chain(n) : n \in 0 .. 3}]
=============================================================================
