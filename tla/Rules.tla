-------------------------------- MODULE Rules --------------------------------
(***************************************************************************)
(* The rules package: Load validates a rules file and normalises its       *)
(* domains (internal/rules/loader.go), BuildTrie inserts them one by one   *)
(* into the suffix trie that Lookup walks (internal/rules/trie.go).        *)
(*                                                                         *)
(* A domain name is the labels it is made of, the dots it ends with and    *)
(* whether white space surrounds it.  A node of the trie is named by the   *)
(* suffix that leads to it, and holds the index of a rule or none.         *)
(***************************************************************************)
EXTENDS Integers, Sequences

CONSTANTS
  Labels,     \* labels as written
  Lower,      \* [Labels -> Labels]: strings.ToLower
  Sets,       \* names of ipsets
  NoSet,      \* an ipset_v4 or ipset_v6 that is not given
  Null,       \* an empty item in the list of rules
  Files,      \* the rules files
  Queries     \* the names looked up

\* No name ends with more than two dots: Load and splitDomain trim one each.
Name    == [labels : Seq(Labels), dots : 0 .. 2, space : BOOLEAN]
Rule    == [domain : Name, v4 : Sets \cup {NoSet}, v6 : Sets \cup {NoSet}]
RuleSet == [version : Int, rules : Seq(Rule \cup {Null})]

ASSUME RulesAssumption ==
  /\ Lower \in [Labels -> Labels]
  /\ \A l \in Labels : Lower[Lower[l]] = Lower[l]
  /\ NoSet \notin Sets
  /\ Null \notin Rule
  /\ Files \subseteq RuleSet
  /\ Queries \subseteq {n \in Name : n.dots <= 1 /\ ~n.space}

VARIABLES
  file,       \* the file as it was unmarshalled
  pc,         \* at the loop of loadFromBytes or BuildTrie, failed or ready
  i,          \* rules the loop is done with
  domains,    \* the domains of rs.Rules as normalised so far
  seen,       \* domain -> index of its last occurrence so far
  warnings,   \* <<index, index of the rule it overrides>>
  trie        \* [nodes -> index of the rule at a terminal node, or NoRule]

vars == <<file, pc, i, domains, seen, warnings, trie>>

NoRule == 0

----------------------------------------------------------------------------
(* Names.                                                                  *)

TrimSpace(n) == [n EXCEPT !.space = FALSE]

ToLower(n) == [n EXCEPT !.labels = [k \in DOMAIN n.labels |-> Lower[n.labels[k]]]]

\* strings.TrimSuffix(n, "."): one dot, and only at the very end.
TrimDot(n) == IF n.dots > 0 /\ ~n.space THEN [n EXCEPT !.dots = n.dots - 1] ELSE n

Empty(n) == n.labels = <<>> /\ n.dots = 0 /\ ~n.space

\* Mutant of Normalize: the dot is trimmed before the white space.
NormalizeDotFirst(n) == TrimSpace(ToLower(TrimDot(n)))

\* What loadFromBytes makes of a domain.
Normalize(n) == TrimDot(ToLower(TrimSpace(n)))

\* Names come here with one dot at the end or none.
SplitDomain(n) == TrimDot(ToLower(n)).labels

----------------------------------------------------------------------------
(* The trie.                                                               *)

Suffix(s, k) == SubSeq(s, Len(s) - k + 1, Len(s))

Suffixes(s) == {Suffix(s, k) : k \in 0 .. Len(s)}

NewTrie == [p \in {<<>>} |-> NoRule]

\* Mutant of Insert: an existing terminal node keeps its value.
InsertFirstWins(t, n, r) ==
  LET s == SplitDomain(n)
  IN  IF s = <<>> THEN t
      ELSE [p \in DOMAIN t \cup Suffixes(s) |->
              IF p \in DOMAIN t /\ t[p] # NoRule THEN t[p]
              ELSE IF p = s THEN r ELSE NoRule]

\* Insert walks from the root, makes the nodes it misses, and the last one
\* becomes terminal with the value.
Insert(t, n, r) ==
  LET s == SplitDomain(n)
  IN  IF s = <<>> THEN t
      ELSE [p \in DOMAIN t \cup Suffixes(s) |->
              IF p = s THEN r ELSE IF p \in DOMAIN t THEN t[p] ELSE NoRule]

\* The loop of Lookup is left at a child that is missing or terminal.
Leaves(t, s, k) == Suffix(s, k) \notin DOMAIN t \/ t[Suffix(s, k)] # NoRule

\* Lookup walks from the root until it leaves the trie or meets a terminal node.
Lookup(t, n) ==
  LET s == SplitDomain(n)
  IN  IF \E k \in 1 .. Len(s) : Leaves(t, s, k)
      THEN LET k == CHOOSE k \in 1 .. Len(s) :
                      Leaves(t, s, k) /\ \A j \in 1 .. k - 1 : ~Leaves(t, s, j)
           IN  IF Suffix(s, k) \in DOMAIN t THEN t[Suffix(s, k)] ELSE NoRule
      ELSE NoRule

----------------------------------------------------------------------------
(* Load and BuildTrie.                                                     *)

Init ==
  /\ file \in Files
  /\ pc = "unmarshal"
  /\ i = 0 /\ domains = <<>> /\ seen = [d \in {} |-> 0] /\ warnings = {}
  /\ trie = NewTrie

Fail == pc' = "failed" /\ UNCHANGED <<file, i, domains, seen, warnings, trie>>

\* os.ReadFile or yaml.Unmarshal fails.
Unreadable == pc = "unmarshal" /\ Fail

BadVersion == pc = "unmarshal" /\ file.version # 1 /\ Fail

GoodVersion ==
  /\ pc = "unmarshal" /\ file.version = 1
  /\ pc' = "load"
  /\ UNCHANGED <<file, i, domains, seen, warnings, trie>>

Accepted(r) == r # Null /\ ~Empty(Normalize(r.domain)) /\ ~(r.v4 = NoSet /\ r.v6 = NoSet)

BadRule ==
  /\ pc = "load" /\ i < Len(file.rules)
  /\ ~Accepted(file.rules[i + 1])
  /\ Fail

\* The body of the loop of loadFromBytes.
GoodRule ==
  /\ pc = "load" /\ i < Len(file.rules)
  /\ LET r == file.rules[i + 1]
         d == Normalize(r.domain)
     IN  /\ Accepted(r)
         /\ domains' = Append(domains, d)
         /\ warnings' = IF d \in DOMAIN seen THEN warnings \cup {<<i + 1, seen[d]>>} ELSE warnings
         /\ seen' = [x \in DOMAIN seen \cup {d} |-> IF x = d THEN i + 1 ELSE seen[x]]
  /\ i' = i + 1
  /\ UNCHANGED <<file, pc, trie>>

Loaded ==
  /\ pc = "load" /\ i = Len(file.rules)
  /\ pc' = "build" /\ i' = 0
  /\ UNCHANGED <<file, domains, seen, warnings, trie>>

\* Mutant of InsertRule: the value is the rule after the domain's.
InsertRuleNext ==
  /\ pc = "build" /\ i < Len(domains)
  /\ trie' = Insert(trie, domains[i + 1], i + 2)
  /\ i' = i + 1
  /\ UNCHANGED <<file, pc, domains, seen, warnings>>

\* The body of the loop of BuildTrie.
InsertRule ==
  /\ pc = "build" /\ i < Len(domains)
  /\ trie' = Insert(trie, domains[i + 1], i + 1)
  /\ i' = i + 1
  /\ UNCHANGED <<file, pc, domains, seen, warnings>>

Built ==
  /\ pc = "build" /\ i = Len(domains)
  /\ pc' = "ready"
  /\ UNCHANGED <<file, i, domains, seen, warnings, trie>>

Returned == pc \in {"failed", "ready"} /\ UNCHANGED vars

Next ==
  \/ Unreadable \/ BadVersion \/ GoodVersion
  \/ BadRule \/ GoodRule \/ Loaded
  \/ InsertRule \/ Built
  \/ Returned

Spec == Init /\ [][Next]_vars

----------------------------------------------------------------------------
(* Properties, stated on the file as the operator wrote it.                *)

(* Type invariant.                                                         *)
TypeOK ==
  /\ file \in Files
  /\ pc \in {"unmarshal", "load", "build", "ready", "failed"}
  /\ i \in 0 .. Len(file.rules)
  /\ domains \in Seq(Name)
  /\ DOMAIN seen \subseteq Name /\ \A d \in DOMAIN seen : seen[d] \in 1 .. Len(domains)
  /\ warnings \subseteq (1 .. Len(domains)) \X (1 .. Len(domains))
  /\ DOMAIN trie \subseteq Seq(Labels) /\ \A p \in DOMAIN trie : trie[p] \in 0 .. Len(domains)

\* d is n or a parent domain of n, label by label and whatever the case.
Covers(d, n) ==
  /\ Len(d.labels) \in 1 .. Len(n.labels)
  /\ \A k \in 0 .. Len(d.labels) - 1 :
       Lower[d.labels[Len(d.labels) - k]] = Lower[n.labels[Len(n.labels) - k]]

Domain(j) == file.rules[j].domain

\* The rules done so far that match a name.
Matching(n) == {j \in 1 .. i : Covers(Domain(j), n)}

\* The shortest suffix wins and, for one domain, the last rule.
Better(j, k) ==
  \/ Len(Domain(j).labels) < Len(Domain(k).labels)
  \/ Len(Domain(j).labels) = Len(Domain(k).labels) /\ j >= k

(* While the trie is built and when it is used, Lookup of any name finds   *)
(* the rule that the documented matching picks among those inserted: label *)
(* aligned, whatever the case and the final dot, the shortest suffix first *)
(* and the last of the duplicates; and it finds none only if none matches. *)
LookupExact ==
  pc \in {"build", "ready"} =>
    \A n \in Queries :
      IF Matching(n) = {} THEN Lookup(trie, n) = NoRule
      ELSE Lookup(trie, n) \in Matching(n) /\ \A k \in Matching(n) : Better(Lookup(trie, n), k)

SameDomain(j, k) == Covers(Domain(j), Domain(k)) /\ Covers(Domain(k), Domain(j))

(* Load warns of the rules that lose their node of the trie to a later     *)
(* one, of each once, and of nothing else: its map of domains and the trie *)
(* agree on what a duplicate is, for domains with at most one final dot.   *)
WarningsExact ==
  pc = "ready" /\ (\A j \in 1 .. i : Domain(j).dots <= 1) =>
    warnings = {w \in (1 .. i) \X (1 .. i) :
                  /\ w[2] < w[1] /\ SameDomain(w[1], w[2])
                  /\ \A k \in w[2] + 1 .. w[1] - 1 : ~SameDomain(k, w[1])}
=============================================================================
