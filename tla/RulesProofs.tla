---------------------------- MODULE RulesProofs -----------------------------
(***************************************************************************)
(* Proofs about the rules package.                                         *)
(***************************************************************************)
EXTENDS Rules, WellFoundedInduction, TLAPS

----------------------------------------------------------------------------
(* Sequences and suffixes.                                                 *)

(* A set of natural numbers that is not empty has a least element.         *)
LEMMA LeastNatural ==
  ASSUME NEW T, T \subseteq Nat, T # {}
  PROVE  \E x \in T : \A y \in T : x <= y
<1> DEFINE R == OpToRel(<, Nat)
<1>1. R = {ss \in Nat \X Nat : ss[1] < ss[2]}
  BY DEF OpToRel
<1>2. IsWellFoundedOn(R, Nat)
  BY NatLessThanWellFounded
<1> HIDE DEF R
<1>3. PICK x \in T : \A y \in T : ~(<<y, x>> \in R)
  BY <1>2, WFMin
<1>4. \A y \in T : ~(y < x)
  BY <1>1, <1>3
<1> QED
  BY <1>3, <1>4

(* Sequences of one length with the same elements are equal.               *)
LEMMA SeqEqual ==
  ASSUME NEW S, NEW s \in Seq(S), NEW t \in Seq(S), Len(s) = Len(t),
         \A k \in 1 .. Len(s) : s[k] = t[k]
  PROVE  s = t
  OBVIOUS

(* What a suffix is made of.                                               *)
LEMMA SuffixIs ==
  ASSUME NEW S, NEW s \in Seq(S), NEW k \in 0 .. Len(s)
  PROVE  /\ Suffix(s, k) \in Seq(S)
         /\ Len(Suffix(s, k)) = k
         /\ \A m \in 1 .. k : Suffix(s, k)[m] = s[Len(s) - k + m]
<1>1. Len(s) - k + 1 \in 1 .. Len(s) + 1 /\ Len(s) \in Nat
  OBVIOUS
<1>2. Len(Suffix(s, k)) = k /\ \A m \in 1 .. k : Suffix(s, k)[m] = s[Len(s) - k + m]
  BY <1>1 DEF Suffix
<1>3. Suffix(s, k) \in Seq(S)
  BY <1>1 DEF Suffix
<1> QED
  BY <1>2, <1>3

(* A sequence is its longest suffix.                                       *)
LEMMA SuffixWhole ==
  ASSUME NEW S, NEW s \in Seq(S)
  PROVE  Suffix(s, Len(s)) = s
<1>1. Len(s) \in 0 .. Len(s) /\ Len(s) \in Nat
  OBVIOUS
<1>2. /\ Suffix(s, Len(s)) \in Seq(S) /\ Len(Suffix(s, Len(s))) = Len(s)
      /\ \A m \in 1 .. Len(s) : Suffix(s, Len(s))[m] = s[Len(s) - Len(s) + m]
  BY <1>1, SuffixIs
<1>3. \A m \in 1 .. Len(s) : Suffix(s, Len(s))[m] = s[m]
  BY <1>1, <1>2
<1> QED
  BY <1>2, <1>3, SeqEqual

(* A suffix of a suffix is a suffix of the whole.                          *)
LEMMA SuffixOfSuffix ==
  ASSUME NEW S, NEW s \in Seq(S), NEW k \in 0 .. Len(s), NEW m \in 0 .. k
  PROVE  Suffix(Suffix(s, k), m) = Suffix(s, m)
<1> DEFINE t == Suffix(s, k)
<1>1. t \in Seq(S) /\ Len(t) = k /\ \A l \in 1 .. k : t[l] = s[Len(s) - k + l]
  BY SuffixIs
<1>2. m \in 0 .. Len(t) /\ m \in 0 .. Len(s)
  BY <1>1
<1>3. /\ Suffix(t, m) \in Seq(S) /\ Len(Suffix(t, m)) = m
      /\ \A l \in 1 .. m : Suffix(t, m)[l] = t[Len(t) - m + l]
  BY <1>1, <1>2, SuffixIs
<1>4. /\ Suffix(s, m) \in Seq(S) /\ Len(Suffix(s, m)) = m
      /\ \A l \in 1 .. m : Suffix(s, m)[l] = s[Len(s) - m + l]
  BY <1>2, SuffixIs
<1>5. \A l \in 1 .. m : Suffix(t, m)[l] = Suffix(s, m)[l]
  <2> HIDE DEF t
  <2> TAKE l \in 1 .. m
  <2>1. k - m + l \in 1 .. k
    OBVIOUS
  <2>2. t[k - m + l] = s[Len(s) - k + (k - m + l)]
    BY <1>1, <2>1
  <2>3. Len(s) - k + (k - m + l) = Len(s) - m + l /\ Len(s) \in Nat
    OBVIOUS
  <2> QED
    BY <1>1, <1>3, <1>4, <2>2, <2>3
<1> QED
  BY <1>3, <1>4, <1>5, SeqEqual

----------------------------------------------------------------------------
(* Names.                                                                  *)

(* Lowering the labels of a sequence gives a sequence.                     *)
LEMMA LoweredIs ==
  ASSUME NEW s \in Seq(Labels)
  PROVE  LET L == [k \in DOMAIN s |-> Lower[s[k]]]
         IN  L \in Seq(Labels) /\ Len(L) = Len(s) /\ \A k \in 1 .. Len(s) : L[k] = Lower[s[k]]
<1> DEFINE L == [k \in DOMAIN s |-> Lower[s[k]]]
<1>1. DOMAIN s = 1 .. Len(s) /\ Len(s) \in Nat /\ \A k \in 1 .. Len(s) : s[k] \in Labels
  OBVIOUS
<1>2. L = [k \in 1 .. Len(s) |-> Lower[s[k]]]
  BY <1>1
<1>3. \A k \in 1 .. Len(s) : Lower[s[k]] \in Labels
  <2>1. Lower \in [Labels -> Labels]
    BY RulesAssumption
  <2> QED
    BY <1>1, <2>1
<1>4. L \in [1 .. Len(s) -> Labels]
  BY <1>2, <1>3
<1> QED
  BY <1>1, <1>2, <1>4

(* Splitting a name lowers its labels and drops nothing.                   *)
LEMMA SplitIs ==
  ASSUME NEW n \in Name
  PROVE  /\ SplitDomain(n) \in Seq(Labels)
         /\ Len(SplitDomain(n)) = Len(n.labels)
         /\ \A k \in 1 .. Len(n.labels) : SplitDomain(n)[k] = Lower[n.labels[k]]
<1> DEFINE L == [k \in DOMAIN n.labels |-> Lower[n.labels[k]]]
<1>1. n.labels \in Seq(Labels)
  BY DEF Name
<1>2. L \in Seq(Labels) /\ Len(L) = Len(n.labels)
      /\ \A k \in 1 .. Len(n.labels) : L[k] = Lower[n.labels[k]]
  BY <1>1, LoweredIs
<1>3. SplitDomain(n) = L
  BY DEF SplitDomain, ToLower, TrimDot, Name
<1> HIDE DEF L
<1> QED
  BY <1>2, <1>3

(* What Load makes of a domain is a name with the lowered labels.          *)
LEMMA NormalizeIs ==
  ASSUME NEW n \in Name
  PROVE  /\ Normalize(n) \in Name
         /\ SplitDomain(Normalize(n)) = SplitDomain(n)
<1> DEFINE L == [k \in DOMAIN n.labels |-> Lower[n.labels[k]]]
<1>1. n.labels \in Seq(Labels)
  BY DEF Name
<1>2. L \in Seq(Labels) /\ Len(L) = Len(n.labels)
      /\ \A k \in 1 .. Len(n.labels) : L[k] = Lower[n.labels[k]]
  BY <1>1, LoweredIs
<1>3. Normalize(n).labels = L /\ Normalize(n) \in Name
  <2> DEFINE t == TrimSpace(n)
             u == ToLower(t)
  <2>1. t \in Name /\ t.labels = n.labels /\ t.dots = n.dots /\ t.space = FALSE
    BY DEF TrimSpace, Name
  <2> HIDE DEF t
  <2>2. u \in Name /\ u.labels = L /\ u.dots = n.dots /\ u.space = FALSE
    BY <1>2, <2>1 DEF ToLower, Name
  <2> HIDE DEF L, u
  <2>3. TrimDot(u) \in Name /\ TrimDot(u).labels = L
    BY <2>2 DEF TrimDot, Name
  <2> QED
    BY <2>3 DEF Normalize, t, u
<1> HIDE DEF L
<1>4. \A k \in 1 .. Len(n.labels) : n.labels[k] \in Labels
  BY <1>1
<1>5. /\ SplitDomain(n) \in Seq(Labels) /\ Len(SplitDomain(n)) = Len(n.labels)
      /\ \A k \in 1 .. Len(n.labels) : SplitDomain(n)[k] = Lower[n.labels[k]]
  BY SplitIs
<1>6. /\ SplitDomain(Normalize(n)) \in Seq(Labels) /\ Len(SplitDomain(Normalize(n))) = Len(L)
      /\ \A k \in 1 .. Len(L) : SplitDomain(Normalize(n))[k] = Lower[L[k]]
  BY <1>3, SplitIs
<1>7. \A k \in 1 .. Len(n.labels) : SplitDomain(Normalize(n))[k] = SplitDomain(n)[k]
  BY <1>2, <1>4, <1>5, <1>6, RulesAssumption
<1> QED
  BY <1>2, <1>3, <1>5, <1>6, <1>7, SeqEqual

----------------------------------------------------------------------------
(* The inductive invariant.                                                *)

Key(j) == SplitDomain(Domain(j))

InUse == pc \in {"build", "ready"}

(* The loops have gone through a prefix of the rules, all of them good,    *)
(* whose domains are normalised.                                           *)
DomainsInv ==
  /\ Len(domains) = IF InUse THEN Len(file.rules) ELSE i
  /\ \A j \in 1 .. Len(domains) : file.rules[j] \in Rule /\ domains[j] = Normalize(Domain(j))

(* The nodes of a trie are closed under suffixes.                          *)
Closed(t) == \A p \in DOMAIN t : \A k \in 0 .. Len(p) : Suffix(p, k) \in DOMAIN t

(* A terminal node holds a rule inserted for it.                           *)
TerminalInv == \A p \in DOMAIN trie : trie[p] # NoRule => trie[p] \in 1 .. i /\ Key(trie[p]) = p /\ p # <<>>

(* Every rule inserted has its node, which holds it or a later one.        *)
InsertedInv == \A j \in 1 .. i : Key(j) # <<>> => Key(j) \in DOMAIN trie /\ trie[Key(j)] >= j

TrieInv ==
  /\ Closed(trie)
  /\ InUse => TerminalInv /\ InsertedInv
  /\ ~InUse => trie = NewTrie

IInv == TypeOK /\ DomainsInv /\ TrieInv

(* The initial state: nothing is loaded and the trie has a root only.      *)
LEMMA InitInv == Init => IInv
<1> SUFFICES ASSUME Init PROVE IInv
  OBVIOUS
<1>1. file \in RuleSet /\ Len(file.rules) \in Nat
  BY RulesAssumption DEF Init, RuleSet
<1>2. DOMAIN trie = {<<>>} /\ trie[<<>>] = NoRule /\ <<>> \in Seq(Labels)
  BY DEF Init, NewTrie
<1>3. Len(domains) = 0 /\ domains \in Seq(Name)
  BY DEF Init
<1>4. TypeOK
  BY <1>1, <1>2, <1>3 DEF Init, TypeOK, NoRule
<1>5. DomainsInv
  BY <1>3 DEF Init, DomainsInv, InUse
<1>6. Closed(trie)
  <2>1. Suffix(<<>>, 0) = <<>>
    BY DEF Suffix
  <2> QED
    BY <1>2, <2>1 DEF Closed
<1> QED
  BY <1>4, <1>5, <1>6 DEF Init, IInv, TrieInv, InUse

(* A step that only moves on from one loop to another, or fails.           *)
LEMMA MoveInv ==
  ASSUME IInv, UNCHANGED <<file, domains, seen, warnings, trie>>,
         pc' \in {"unmarshal", "load", "build", "ready", "failed"},
         \/ i' = i /\ InUse' = InUse
         \/ i' = 0 /\ ~InUse /\ InUse' /\ i = Len(file.rules)
  PROVE  IInv'
<1>1. TypeOK'
  BY DEF IInv, TypeOK, RuleSet
<1>2. DomainsInv'
  BY DEF IInv, TypeOK, DomainsInv, Domain
<1>3. TrieInv'
  <2>1. Closed(trie)'
    BY DEF IInv, TrieInv, Closed
  <2>2. CASE i' = i /\ InUse' = InUse
    BY <2>1, <2>2 DEF IInv, TrieInv, TerminalInv, InsertedInv, Key, Domain
  <2>3. CASE i' = 0 /\ ~InUse /\ InUse'
    <3>1. trie' = NewTrie
      BY <2>3 DEF IInv, TrieInv
    <3>2. TerminalInv'
      BY <3>1 DEF TerminalInv, NewTrie
    <3>3. InsertedInv'
      BY <2>3 DEF InsertedInv
    <3> QED
      BY <2>1, <2>3, <3>2, <3>3 DEF TrieInv
  <2> QED
    BY <2>2, <2>3
<1> QED
  BY <1>1, <1>2, <1>3 DEF IInv

(* One rule more is normalised and checked.                                *)
LEMMA GoodRuleInv == ASSUME IInv, GoodRule PROVE IInv'
<1> DEFINE r == file.rules[i + 1]
           d == Normalize(r.domain)
<1>1. /\ Accepted(r) /\ domains' = Append(domains, d)
      /\ warnings' = IF d \in DOMAIN seen THEN warnings \cup {<<i + 1, seen[d]>>} ELSE warnings
      /\ seen' = [x \in DOMAIN seen \cup {d} |-> IF x = d THEN i + 1 ELSE seen[x]]
      /\ i' = i + 1 /\ UNCHANGED <<file, pc, trie>> /\ pc = "load" /\ i < Len(file.rules)
  BY DEF GoodRule
<1>2. /\ file \in RuleSet /\ file.rules \in Seq(Rule \cup {Null}) /\ i \in 0 .. Len(file.rules)
      /\ Len(domains) = i /\ domains \in Seq(Name) /\ Len(file.rules) \in Nat
  BY <1>1, RulesAssumption DEF IInv, TypeOK, DomainsInv, InUse, RuleSet
<1>3. r \in Rule
  BY <1>1, <1>2 DEF Accepted
<1>4. d \in Name
  BY <1>3, NormalizeIs DEF Rule
<1> HIDE DEF d
<1>5. /\ domains' \in Seq(Name) /\ Len(domains') = i + 1 /\ domains'[i + 1] = d
      /\ \A j \in 1 .. i : domains'[j] = domains[j]
  BY <1>1, <1>2, <1>4
<1>6. TypeOK'
  <2>1. DOMAIN seen' = DOMAIN seen \cup {d} /\ DOMAIN seen' \subseteq Name
    BY <1>1, <1>4 DEF IInv, TypeOK
  <2>2. \A x \in DOMAIN seen' : seen'[x] \in 1 .. i + 1
    BY <1>1, <1>2, <2>1 DEF IInv, TypeOK
  <2>3. warnings' \subseteq (1 .. i + 1) \X (1 .. i + 1)
    <3>1. warnings \subseteq (1 .. i + 1) \X (1 .. i + 1)
      BY <1>2 DEF IInv, TypeOK
    <3>2. d \in DOMAIN seen => <<i + 1, seen[d]>> \in (1 .. i + 1) \X (1 .. i + 1)
      BY <1>2 DEF IInv, TypeOK
    <3> QED
      BY <1>1, <3>1, <3>2
  <2>4. DOMAIN trie' \subseteq Seq(Labels) /\ \A p \in DOMAIN trie' : trie'[p] \in 0 .. i + 1
    BY <1>1, <1>2 DEF IInv, TypeOK
  <2> QED
    BY <1>1, <1>2, <1>5, <2>1, <2>2, <2>3, <2>4 DEF IInv, TypeOK
<1>7. DomainsInv'
  <2>1. ~InUse' /\ Len(domains') = i'
    BY <1>1, <1>5 DEF InUse
  <2>2. ASSUME NEW j \in 1 .. i + 1
        PROVE  file'.rules[j] \in Rule /\ domains'[j] = Normalize(Domain(j)')
    <3>1. CASE j = i + 1
      BY <1>1, <1>3, <1>5, <3>1 DEF d, Domain
    <3>2. CASE j # i + 1
      BY <1>1, <1>2, <1>5, <3>2 DEF IInv, DomainsInv, Domain
    <3> QED
      BY <3>1, <3>2
  <2> QED
    BY <1>5, <2>1, <2>2 DEF DomainsInv
<1>8. TrieInv'
  BY <1>1 DEF IInv, TrieInv, InUse, Closed
<1> QED
  BY <1>6, <1>7, <1>8 DEF IInv

(* A sequence is a suffix of itself, and so are the suffixes of its        *)
(* suffixes.                                                               *)
LEMMA SuffixesClosed ==
  ASSUME NEW S, NEW s \in Seq(S)
  PROVE  /\ s \in Suffixes(s) /\ Suffixes(s) \subseteq Seq(S)
         /\ \A p \in Suffixes(s) : \A k \in 0 .. Len(p) : Suffix(p, k) \in Suffixes(s)
<1>1. Len(s) \in Nat
  OBVIOUS
<1>2. Suffix(s, Len(s)) = s
  BY SuffixWhole
<1>3. s \in Suffixes(s)
  BY <1>1, <1>2 DEF Suffixes
<1>4. \A k \in 0 .. Len(s) : Suffix(s, k) \in Seq(S) /\ Len(Suffix(s, k)) = k
  BY SuffixIs
<1>5. ASSUME NEW p \in Suffixes(s), NEW k \in 0 .. Len(p)
      PROVE  Suffix(p, k) \in Suffixes(s)
  <2>1. PICK m \in 0 .. Len(s) : p = Suffix(s, m)
    BY DEF Suffixes
  <2>2. k \in 0 .. m /\ k \in 0 .. Len(s)
    BY <1>1, <1>4, <2>1
  <2>3. Suffix(p, k) = Suffix(s, k)
    BY <2>1, <2>2, SuffixOfSuffix
  <2> QED
    BY <2>2, <2>3 DEF Suffixes
<1> QED
  BY <1>3, <1>4, <1>5 DEF Suffixes

(* One rule more is inserted.                                              *)
LEMMA InsertRuleInv == ASSUME IInv, InsertRule PROVE IInv'
<1> DEFINE n == domains[i + 1]
           s == SplitDomain(n)
<1>1. /\ pc = "build" /\ i < Len(domains) /\ trie' = Insert(trie, n, i + 1)
      /\ i' = i + 1 /\ UNCHANGED <<file, pc, domains, seen, warnings>>
  BY DEF InsertRule
<1>2. /\ i \in Nat /\ Len(domains) = Len(file.rules) /\ i < Len(file.rules) /\ Len(file.rules) \in Nat
      /\ \A j \in 1 .. Len(domains) : file.rules[j] \in Rule /\ domains[j] = Normalize(Domain(j))
  BY <1>1, RulesAssumption DEF IInv, TypeOK, DomainsInv, InUse, RuleSet
<1>3. /\ \A j \in 1 .. i + 1 : Domain(j) \in Name
      /\ s = Key(i + 1) /\ n \in Name
  <2>1. i + 1 \in 1 .. Len(domains)
    BY <1>1, <1>2
  <2> QED
    BY <1>2, <2>1, NormalizeIs DEF Rule, Domain, Key
<1>4. \A j \in 1 .. i + 1 : Key(j)' = Key(j)
  BY <1>1 DEF Key, Domain
<1>5. s \in Seq(Labels)
  BY <1>3, SplitIs
<1> HIDE DEF s, n
<1>6. CASE s = <<>>
  <2>1. trie' = trie
    BY <1>1, <1>6 DEF Insert, s
  <2>2. TypeOK'
    BY <1>1, <1>2, <2>1 DEF IInv, TypeOK
  <2>3. DomainsInv'
    BY <1>1 DEF IInv, DomainsInv, InUse, Domain
  <2>4. TerminalInv'
    BY <1>1, <1>2, <1>4, <2>1 DEF IInv, TrieInv, InUse, TerminalInv
  <2>5. InsertedInv'
    BY <1>1, <1>2, <1>3, <1>4, <1>6, <2>1 DEF IInv, TrieInv, InUse, InsertedInv
  <2> QED
    BY <1>1, <2>1, <2>2, <2>3, <2>4, <2>5 DEF IInv, TrieInv, InUse, Closed
<1>7. CASE s # <<>>
  <2>1. /\ s \in Suffixes(s) /\ Suffixes(s) \subseteq Seq(Labels)
        /\ \A p \in Suffixes(s) : \A k \in 0 .. Len(p) : Suffix(p, k) \in Suffixes(s)
    BY <1>5, SuffixesClosed
  <2>2. /\ DOMAIN trie' = DOMAIN trie \cup Suffixes(s)
        /\ trie'[s] = i + 1
        /\ \A p \in DOMAIN trie \ {s} : trie'[p] = trie[p]
        /\ \A p \in Suffixes(s) : p \notin DOMAIN trie /\ p # s => trie'[p] = NoRule
    <3>1. s = SplitDomain(n)
      BY DEF s
    <3>2. /\ DOMAIN Insert(trie, n, i + 1) = DOMAIN trie \cup Suffixes(s)
          /\ s \in Suffixes(s) => Insert(trie, n, i + 1)[s] = i + 1
          /\ \A p \in DOMAIN trie \ {s} : Insert(trie, n, i + 1)[p] = trie[p]
          /\ \A p \in Suffixes(s) : p \notin DOMAIN trie /\ p # s => Insert(trie, n, i + 1)[p] = NoRule
      BY <1>7, <3>1 DEF Insert
    <3> QED
      BY <1>1, <2>1, <3>2
  <2>3. \A p \in DOMAIN trie' : p = s \/ (p \in DOMAIN trie /\ trie'[p] = trie[p]) \/ trie'[p] = NoRule
    BY <2>2
  <2>4. TypeOK'
    <3>1. \A p \in DOMAIN trie' : trie'[p] \in 0 .. Len(domains)
      BY <1>1, <1>2, <2>2, <2>3 DEF IInv, TypeOK, NoRule
    <3>2. DOMAIN trie' \subseteq Seq(Labels)
      BY <2>1, <2>2 DEF IInv, TypeOK
    <3> QED
      BY <1>1, <1>2, <3>1, <3>2 DEF IInv, TypeOK
  <2>5. DomainsInv'
    BY <1>1 DEF IInv, DomainsInv, InUse, Domain
  <2>6. Closed(trie')
    BY <2>1, <2>2 DEF IInv, TrieInv, Closed
  <2>7. TerminalInv'
    <3> SUFFICES ASSUME NEW p \in DOMAIN trie', trie'[p] # NoRule
                 PROVE  trie'[p] \in 1 .. i + 1 /\ Key(trie'[p]) = p /\ p # <<>>
      BY <1>1, <1>4 DEF TerminalInv
    <3>1. CASE p = s
      BY <1>2, <1>3, <1>7, <2>2, <3>1
    <3>2. CASE p # s
      <4>1. p \in DOMAIN trie /\ trie'[p] = trie[p]
        BY <2>3, <3>2
      <4> QED
        BY <1>1, <1>2, <4>1 DEF IInv, TrieInv, InUse, TerminalInv
    <3> QED
      BY <3>1, <3>2
  <2>8. InsertedInv'
    <3> SUFFICES ASSUME NEW j \in 1 .. i + 1, Key(j) # <<>>
                 PROVE  Key(j) \in DOMAIN trie' /\ trie'[Key(j)] >= j
      BY <1>1, <1>4 DEF InsertedInv
    <3>1. CASE Key(j) = s
      BY <1>2, <2>1, <2>2, <3>1
    <3>2. CASE Key(j) # s
      <4>1. j \in 1 .. i
        BY <1>2, <1>3, <3>2
      <4> QED
        BY <1>1, <2>2, <3>2, <4>1 DEF IInv, TrieInv, InUse, InsertedInv
    <3> QED
      BY <3>1, <3>2
  <2> QED
    BY <1>1, <2>4, <2>5, <2>6, <2>7, <2>8 DEF IInv, TrieInv, InUse
<1> QED
  BY <1>6, <1>7

(* Every step preserves the invariant.                                     *)
LEMMA NextInv == IInv /\ [Next]_vars => IInv'
<1> SUFFICES ASSUME IInv, [Next]_vars PROVE IInv'
  OBVIOUS
<1>1. CASE Unreadable
  BY <1>1, MoveInv DEF Unreadable, Fail, InUse
<1>2. CASE BadVersion
  BY <1>2, MoveInv DEF BadVersion, Fail, InUse
<1>3. CASE GoodVersion
  BY <1>3, MoveInv DEF GoodVersion, InUse
<1>4. CASE BadRule
  BY <1>4, MoveInv DEF BadRule, Fail, InUse
<1>5. CASE GoodRule
  BY <1>5, GoodRuleInv
<1>6. CASE Loaded
  BY <1>6, MoveInv DEF Loaded, InUse
<1>7. CASE InsertRule
  BY <1>7, InsertRuleInv
<1>8. CASE Built
  BY <1>8, MoveInv DEF Built, InUse
<1>9. CASE UNCHANGED vars
  <2>1. pc \in {"unmarshal", "load", "build", "ready", "failed"}
    BY DEF IInv, TypeOK
  <2> QED
    BY <1>9, <2>1, MoveInv DEF vars, InUse
<1> QED
  BY <1>1, <1>2, <1>3, <1>4, <1>5, <1>6, <1>7, <1>8, <1>9 DEF Next, Returned

(* The invariant holds in every reachable state.                           *)
LEMMA AlwaysInv == Spec => []IInv
  BY InitInv, NextInv, PTL DEF Spec

(* Types of the loops, the map of domains and the trie of package rules.   *)
THEOREM TypeCorrect == Spec => []TypeOK
<1>1. IInv => TypeOK
  BY DEF IInv
<1> QED
  BY <1>1, AlwaysInv, PTL

----------------------------------------------------------------------------
(* Lookup.                                                                 *)

(* A domain covers a name when its labels are a suffix of the name's.      *)
LEMMA CoversIs ==
  ASSUME NEW d \in Name, NEW n \in Name
  PROVE  Covers(d, n) <=> /\ Len(SplitDomain(d)) \in 1 .. Len(SplitDomain(n))
                          /\ Suffix(SplitDomain(n), Len(SplitDomain(d))) = SplitDomain(d)
<1> DEFINE D == SplitDomain(d)
           s == SplitDomain(n)
<1>1. /\ D \in Seq(Labels) /\ Len(D) = Len(d.labels)
      /\ \A k \in 1 .. Len(D) : D[k] = Lower[d.labels[k]]
  BY SplitIs
<1>2. /\ s \in Seq(Labels) /\ Len(s) = Len(n.labels)
      /\ \A k \in 1 .. Len(s) : s[k] = Lower[n.labels[k]]
  BY SplitIs
<1> HIDE DEF D, s
<1>3. Len(D) \in Nat /\ Len(s) \in Nat
  BY <1>1, <1>2
<1>4. SUFFICES ASSUME Len(D) \in 1 .. Len(s)
               PROVE  (\A k \in 0 .. Len(D) - 1 : D[Len(D) - k] = s[Len(s) - k]) <=> Suffix(s, Len(D)) = D
  <2>1. Covers(d, n) <=> /\ Len(D) \in 1 .. Len(s)
                         /\ \A k \in 0 .. Len(D) - 1 : Lower[d.labels[Len(D) - k]] = Lower[n.labels[Len(s) - k]]
    BY <1>1, <1>2 DEF Covers
  <2>2. ASSUME Len(D) \in 1 .. Len(s), NEW k \in 0 .. Len(D) - 1
        PROVE  D[Len(D) - k] = Lower[d.labels[Len(D) - k]] /\ s[Len(s) - k] = Lower[n.labels[Len(s) - k]]
    <3>1. Len(D) - k \in 1 .. Len(D) /\ Len(s) - k \in 1 .. Len(s)
      BY <1>3, <2>2
    <3> QED
      BY <1>1, <1>2, <3>1
  <2> QED
    BY <2>1, <2>2 DEF D, s
<1>5. /\ Suffix(s, Len(D)) \in Seq(Labels) /\ Len(Suffix(s, Len(D))) = Len(D)
      /\ \A m \in 1 .. Len(D) : Suffix(s, Len(D))[m] = s[Len(s) - Len(D) + m]
  <2>1. Len(D) \in 0 .. Len(s)
    BY <1>3, <1>4
  <2> QED
    BY <1>2, <2>1, SuffixIs
<1>6. ASSUME \A k \in 0 .. Len(D) - 1 : D[Len(D) - k] = s[Len(s) - k]
      PROVE  Suffix(s, Len(D)) = D
  <2>1. ASSUME NEW m \in 1 .. Len(D) PROVE Suffix(s, Len(D))[m] = D[m]
    <3>1. /\ Len(D) - m \in 0 .. Len(D) - 1 /\ Len(D) - (Len(D) - m) = m
          /\ Len(s) - (Len(D) - m) = Len(s) - Len(D) + m
      BY <1>3
    <3>2. D[Len(D) - (Len(D) - m)] = s[Len(s) - (Len(D) - m)]
      BY <1>6, <3>1
    <3> QED
      BY <1>5, <3>1, <3>2
  <2> QED
    BY <1>1, <1>5, <2>1, SeqEqual
<1>7. ASSUME Suffix(s, Len(D)) = D, NEW k \in 0 .. Len(D) - 1
      PROVE  D[Len(D) - k] = s[Len(s) - k]
  <2>1. Len(D) - k \in 1 .. Len(D) /\ Len(s) - Len(D) + (Len(D) - k) = Len(s) - k
    BY <1>3
  <2>2. Suffix(s, Len(D))[Len(D) - k] = s[Len(s) - Len(D) + (Len(D) - k)]
    BY <1>5, <2>1
  <2> QED
    BY <1>7, <2>1, <2>2
<1> QED
  BY <1>6, <1>7

(* Lookup leaves its loop at the first suffix that is missing or terminal. *)
LEMMA LookupIs ==
  ASSUME NEW t, NEW n, SplitDomain(n) \in Seq(Labels)
  PROVE  LET s == SplitDomain(n)
         IN  \/ Lookup(t, n) = NoRule /\ \A k \in 1 .. Len(s) : ~Leaves(t, s, k)
             \/ \E k \in 1 .. Len(s) :
                  /\ Leaves(t, s, k) /\ \A j \in 1 .. k - 1 : ~Leaves(t, s, j)
                  /\ Lookup(t, n) = IF Suffix(s, k) \in DOMAIN t THEN t[Suffix(s, k)] ELSE NoRule
<1> DEFINE s == SplitDomain(n)
           First(k) == Leaves(t, s, k) /\ \A j \in 1 .. k - 1 : ~Leaves(t, s, j)
<1>0. s \in Seq(Labels) /\ Len(s) \in Nat
  OBVIOUS
<1>1. CASE \A k \in 1 .. Len(s) : ~Leaves(t, s, k)
  BY <1>1 DEF Lookup
<1>2. CASE \E k \in 1 .. Len(s) : Leaves(t, s, k)
  <2> DEFINE T == {k \in 1 .. Len(s) : Leaves(t, s, k)}
  <2> HIDE DEF s
  <2>1. T \subseteq Nat /\ T # {}
    BY <1>0, <1>2
  <2>2. PICK x \in T : \A y \in T : x <= y
    <3> HIDE DEF T
    <3> QED
      BY <2>1, LeastNatural
  <2>3. x \in 1 .. Len(s) /\ First(x)
    BY <1>0, <2>2
  <2> HIDE DEF First
  <2> DEFINE c == CHOOSE k \in 1 .. Len(s) : First(k)
  <2>4. c \in 1 .. Len(s) /\ First(c)
    BY <2>3
  <2>5. Lookup(t, n) = IF Suffix(s, c) \in DOMAIN t THEN t[Suffix(s, c)] ELSE NoRule
    BY <1>2 DEF Lookup, First, s
  <2> QED
    BY <2>4, <2>5 DEF First, s
<1> QED
  BY <1>1, <1>2

(* What the invariant says of a lookup.                                    *)
LEMMA InvLookup == IInv => LookupExact
<1> SUFFICES ASSUME IInv, InUse, NEW n \in Queries
             PROVE  IF Matching(n) = {} THEN Lookup(trie, n) = NoRule
                    ELSE /\ Lookup(trie, n) \in Matching(n)
                         /\ \A k \in Matching(n) : Better(Lookup(trie, n), k)
  BY DEF LookupExact, InUse
<1> DEFINE s == SplitDomain(n)
<1>1. n \in Name
  BY RulesAssumption
<1>2. s \in Seq(Labels) /\ Len(s) \in Nat
  BY <1>1, SplitIs
<1>3. Closed(trie) /\ TerminalInv /\ InsertedInv /\ i \in Nat
  BY RulesAssumption DEF IInv, TrieInv, TypeOK, RuleSet
<1>4. \A j \in 1 .. i : Domain(j) \in Name
  <2>1. i \in 0 .. Len(domains)
    BY DEF IInv, TypeOK, DomainsInv
  <2>2. \A j \in 1 .. i : file.rules[j] \in Rule
    BY <2>1 DEF IInv, DomainsInv
  <2> QED
    BY <2>2 DEF Domain, Rule
<1>5. ASSUME NEW j \in 1 .. i
      PROVE  /\ Key(j) \in Seq(Labels) /\ Len(Key(j)) = Len(Domain(j).labels)
             /\ j \in Matching(n) <=> Len(Key(j)) \in 1 .. Len(s) /\ Suffix(s, Len(Key(j))) = Key(j)
  <2>1. Domain(j) \in Name
    BY <1>4
  <2>2. j \in Matching(n) <=> Covers(Domain(j), n)
    BY DEF Matching
  <2>3. Covers(Domain(j), n) <=> Len(Key(j)) \in 1 .. Len(s) /\ Suffix(s, Len(Key(j))) = Key(j)
    BY <1>1, <2>1, CoversIs DEF Key
  <2>4. Key(j) \in Seq(Labels) /\ Len(Key(j)) = Len(Domain(j).labels)
    BY <2>1, SplitIs DEF Key
  <2> QED
    BY <2>2, <2>3, <2>4
<1>6. ASSUME NEW j \in Matching(n)
      PROVE  /\ j \in 1 .. i /\ Len(Key(j)) \in 1 .. Len(s) /\ Suffix(s, Len(Key(j))) = Key(j)
             /\ Key(j) \in DOMAIN trie /\ trie[Key(j)] >= j /\ trie[Key(j)] # NoRule
             /\ Leaves(trie, s, Len(Key(j)))
  <2>1. j \in 1 .. i /\ Len(Key(j)) \in 1 .. Len(s) /\ Suffix(s, Len(Key(j))) = Key(j)
    <3> HIDE DEF s
    <3>1. j \in 1 .. i
      BY DEF Matching
    <3> QED
      BY <1>5, <3>1
  <2>2. Key(j) # <<>>
    BY <1>2, <2>1
  <2>3. Key(j) \in DOMAIN trie /\ trie[Key(j)] >= j
    BY <1>3, <2>1, <2>2 DEF InsertedInv
  <2>4. trie[Key(j)] # NoRule
    BY <1>3, <2>1, <2>3 DEF NoRule
  <2> QED
    BY <2>1, <2>3, <2>4 DEF Leaves
<1>7. \/ Lookup(trie, n) = NoRule /\ \A k \in 1 .. Len(s) : ~Leaves(trie, s, k)
      \/ \E k \in 1 .. Len(s) :
           /\ Leaves(trie, s, k) /\ \A j \in 1 .. k - 1 : ~Leaves(trie, s, j)
           /\ Lookup(trie, n) = IF Suffix(s, k) \in DOMAIN trie THEN trie[Suffix(s, k)] ELSE NoRule
  BY <1>2, LookupIs
<1> HIDE DEF s
<1>8. CASE Lookup(trie, n) = NoRule /\ \A k \in 1 .. Len(s) : ~Leaves(trie, s, k)
  BY <1>6, <1>8
<1>9. ASSUME NEW k \in 1 .. Len(s), Leaves(trie, s, k), \A j \in 1 .. k - 1 : ~Leaves(trie, s, j),
             Lookup(trie, n) = IF Suffix(s, k) \in DOMAIN trie THEN trie[Suffix(s, k)] ELSE NoRule
      PROVE  IF Matching(n) = {} THEN Lookup(trie, n) = NoRule
             ELSE /\ Lookup(trie, n) \in Matching(n)
                  /\ \A j \in Matching(n) : Better(Lookup(trie, n), j)
  <2> DEFINE p == Suffix(s, k)
  <2>1. \A j \in Matching(n) : Len(Key(j)) >= k
    BY <1>2, <1>6, <1>9
  <2>2. p \in Seq(Labels) /\ Len(p) = k /\ k \in 0 .. Len(s)
    BY <1>2, SuffixIs
  <2>3. CASE p \notin DOMAIN trie
    <3>1. ASSUME NEW j \in Matching(n) PROVE FALSE
      <4>1. Len(Key(j)) \in 0 .. Len(s) /\ k \in 0 .. Len(Key(j))
        BY <1>2, <1>6, <2>1
      <4>2. Suffix(Key(j), k) = p
        BY <1>2, <1>6, <4>1, SuffixOfSuffix
      <4>3. Suffix(Key(j), k) \in DOMAIN trie
        BY <1>3, <1>6, <4>1 DEF Closed
      <4> QED
        BY <2>3, <4>2, <4>3
    <3> QED
      BY <1>9, <2>3, <3>1
  <2>4. CASE p \in DOMAIN trie
    <3> DEFINE v == trie[p]
    <3>1. Lookup(trie, n) = v /\ v # NoRule
      BY <1>9, <2>4 DEF Leaves
    <3>2. v \in 1 .. i /\ Key(v) = p
      BY <1>3, <2>4, <3>1 DEF TerminalInv
    <3> HIDE DEF v
    <3>3. v \in Matching(n)
      BY <1>2, <1>5, <2>2, <3>2
    <3>4. ASSUME NEW j \in Matching(n) PROVE Better(v, j)
      <4>1. /\ j \in 1 .. i /\ Len(Domain(j).labels) = Len(Key(j)) /\ Len(Domain(v).labels) = k
            /\ Len(Key(j)) >= k /\ Len(Key(j)) \in Nat
        BY <1>2, <1>5, <1>6, <2>1, <2>2, <3>2
      <4>2. Len(Key(j)) = k => v >= j
        BY <1>6 DEF v
      <4> QED
        BY <4>1, <4>2 DEF Better
    <3> QED
      BY <3>1, <3>3, <3>4
  <2> QED
    BY <2>3, <2>4
<1> QED
  BY <1>7, <1>8, <1>9

(* Whatever the rules file, Lookup finds the rule the documented matching  *)
(* picks, at any point of BuildTrie and for any name.                      *)
THEOREM LookupAlwaysExact == Spec => []LookupExact
  BY AlwaysInv, InvLookup, PTL

----------------------------------------------------------------------------
(* The warnings.                                                           *)

(* The map of Load holds, for each domain met so far, its last rule.       *)
SeenInv ==
  /\ \A j \in 1 .. Len(domains) : domains[j] \in DOMAIN seen /\ j <= seen[domains[j]]
  /\ \A d \in DOMAIN seen : domains[seen[d]] = d

\* Rule a is the next after rule b with its domain.
Overrides(a, b) ==
  /\ b < a /\ domains[a] = domains[b]
  /\ \A k \in b + 1 .. a - 1 : domains[k] # domains[a]

(* Load has warned of the rules that follow another with their domain.     *)
WarnedInv ==
  \A a, b \in 1 .. Len(domains) : <<a, b>> \in warnings <=> Overrides(a, b)

(* The loops have left no rule out, and none of them has an empty domain.  *)
DoneInv ==
  /\ pc = "ready" => i = Len(domains)
  /\ \A j \in 1 .. Len(domains) : ~Empty(domains[j])

WarnInv == SeenInv /\ WarnedInv /\ DoneInv

LEMMA WarnInit == Init => WarnInv
<1> SUFFICES ASSUME Init PROVE WarnInv
  OBVIOUS
<1>1. domains = <<>> /\ Len(domains) = 0 /\ DOMAIN seen = {} /\ warnings = {} /\ pc = "unmarshal"
  BY DEF Init
<1> QED
  BY <1>1 DEF WarnInv, SeenInv, WarnedInv, DoneInv

(* What Load adds for one rule.                                            *)
LEMMA WarnGoodRule == ASSUME IInv, IInv', WarnInv, GoodRule PROVE WarnInv'
<1> DEFINE r == file.rules[i + 1]
           d == Normalize(r.domain)
<1>0. PICK n \in Nat : n = Len(domains)
  BY DEF IInv, TypeOK
<1>1. /\ Accepted(r) /\ domains' = Append(domains, d)
      /\ warnings' = IF d \in DOMAIN seen THEN warnings \cup {<<i + 1, seen[d]>>} ELSE warnings
      /\ seen' = [x \in DOMAIN seen \cup {d} |-> IF x = d THEN i + 1 ELSE seen[x]]
      /\ pc' = pc /\ pc = "load"
  BY DEF GoodRule
<1>2. n = i /\ n \in Nat /\ domains \in Seq(Name) /\ domains' \in Seq(Name)
  BY <1>0, <1>1 DEF IInv, TypeOK, DomainsInv, InUse
<1>3. ~Empty(d)
  BY <1>1 DEF Accepted
<1>4. \A x \in DOMAIN seen : seen[x] \in 1 .. n
  BY <1>0 DEF IInv, TypeOK
<1>5. \A w \in warnings : w \in (1 .. n) \X (1 .. n)
  BY <1>0 DEF IInv, TypeOK
<1> HIDE DEF d
<1>6. /\ Len(domains') = n + 1 /\ domains'[n + 1] = d
      /\ \A j \in 1 .. n : domains'[j] = domains[j]
  <2>1. file.rules \in Seq(Rule \cup {Null}) /\ i \in 0 .. Len(file.rules) /\ i < Len(file.rules)
    BY RulesAssumption DEF IInv, TypeOK, RuleSet, GoodRule
  <2>2. r \in Rule
    BY <1>1, <2>1 DEF Accepted
  <2>3. d \in Name
    BY <2>2, NormalizeIs DEF Rule, d
  <2>4. domains' = Append(domains, d)
    BY <1>1
  <2>5. domains \in Seq(Name)
    BY <1>2
  <2>6. /\ Len(domains') = Len(domains) + 1 /\ domains'[Len(domains) + 1] = d
        /\ \A j \in 1 .. Len(domains) : domains'[j] = domains[j]
    BY <2>3, <2>4, <2>5
  <2> QED BY <1>0, <2>6
<1>7. /\ DOMAIN seen' = DOMAIN seen \cup {d} /\ seen'[d] = n + 1
      /\ \A x \in DOMAIN seen \ {d} : seen'[x] = seen[x]
  BY <1>1, <1>2
<1>8. /\ \A j \in 1 .. n : domains[j] \in DOMAIN seen /\ j <= seen[domains[j]]
      /\ \A x \in DOMAIN seen : domains[seen[x]] = x
  BY <1>0 DEF WarnInv, SeenInv
<1>9. SeenInv'
  <2>1. ASSUME NEW j \in 1 .. n + 1 PROVE domains'[j] \in DOMAIN seen' /\ j <= seen'[domains'[j]]
    <3>1. CASE domains'[j] = d
      BY <1>2, <1>7, <3>1
    <3>2. CASE domains'[j] # d
      <4>1. j \in 1 .. n /\ domains'[j] = domains[j]
        BY <1>2, <1>6, <3>2
      <4> QED BY <1>7, <1>8, <3>2, <4>1
    <3> QED BY <3>1, <3>2
  <2>2. ASSUME NEW x \in DOMAIN seen' PROVE domains'[seen'[x]] = x
    <3>1. CASE x = d
      BY <1>6, <1>7, <3>1
    <3>2. CASE x # d
      BY <1>4, <1>6, <1>7, <1>8, <3>2
    <3> QED BY <3>1, <3>2
  <2> QED BY <1>6, <2>1, <2>2 DEF SeenInv
<1>10. WarnedInv'
  <2>1. ASSUME NEW a \in 1 .. n, NEW b \in 1 .. n PROVE <<a, b>> \in warnings' <=> Overrides(a, b)'
    <3>1. <<a, b>> \in warnings' <=> <<a, b>> \in warnings
      BY <1>1, <1>2
    <3>2. <<a, b>> \in warnings <=> Overrides(a, b)
      BY <1>0 DEF WarnInv, WarnedInv
    <3>3. \A k \in b + 1 .. a - 1 : k \in 1 .. n
      BY <1>2
    <3>4. Overrides(a, b)' <=> Overrides(a, b)
      BY <1>6, <3>3 DEF Overrides
    <3> QED BY <3>1, <3>2, <3>4
  <2>2. ASSUME NEW a \in 1 .. n + 1 PROVE ~(<<a, n + 1>> \in warnings') /\ ~Overrides(a, n + 1)'
    <3>1. ~(n + 1 < a)
      BY <1>2
    <3>2. \A w \in warnings' : w[2] # n + 1
      <4>1. \A w \in warnings : w[2] # n + 1
        BY <1>2, <1>5
      <4>2. d \in DOMAIN seen => seen[d] # n + 1
        BY <1>2, <1>4
      <4> QED BY <1>1, <4>1, <4>2
    <3> QED BY <3>1, <3>2 DEF Overrides
  <2>3. ASSUME NEW b \in 1 .. n PROVE <<n + 1, b>> \in warnings' <=> Overrides(n + 1, b)'
    <3>1. <<n + 1, b>> \notin warnings
      BY <1>2, <1>5
    <3>2. <<n + 1, b>> \in warnings' <=> d \in DOMAIN seen /\ b = seen[d]
      BY <1>1, <1>2, <3>1
    <3>3. Overrides(n + 1, b)' <=> domains[b] = d /\ \A k \in b + 1 .. n : domains[k] # d
      <4>1. b < n + 1 /\ (n + 1) - 1 = n /\ \A k \in b + 1 .. n : k \in 1 .. n
        BY <1>2
      <4>2. domains'[b] = domains[b] /\ domains'[n + 1] = d
        BY <1>6
      <4>3. \A k \in b + 1 .. n : domains'[k] = domains[k]
        BY <1>6, <4>1
      <4> QED BY <4>1, <4>2, <4>3 DEF Overrides
    <3>4. d \in DOMAIN seen /\ b = seen[d] => domains[b] = d /\ \A k \in b + 1 .. n : domains[k] # d
      <4>1. \A k \in b + 1 .. n : k \in 1 .. n /\ ~(k <= b)
        BY <1>2
      <4> QED BY <1>8, <4>1
    <3>5. domains[b] = d /\ (\A k \in b + 1 .. n : domains[k] # d) => d \in DOMAIN seen /\ b = seen[d]
      <4> SUFFICES ASSUME domains[b] = d, \A k \in b + 1 .. n : domains[k] # d
                   PROVE  d \in DOMAIN seen /\ b = seen[d]
        OBVIOUS
      <4>1. d \in DOMAIN seen /\ b <= seen[d] /\ domains[seen[d]] = d /\ seen[d] \in 1 .. n
        BY <1>4, <1>8
      <4>2. ~(seen[d] \in b + 1 .. n)
        BY <4>1
      <4> QED BY <1>2, <4>1, <4>2
    <3> QED BY <3>2, <3>3, <3>4, <3>5
  <2>4. \A a \in 1 .. n + 1 : a \in 1 .. n \/ a = n + 1
    BY <1>2
  <2>5. ASSUME NEW a \in 1 .. n + 1, NEW b \in 1 .. n + 1 PROVE <<a, b>> \in warnings' <=> Overrides(a, b)'
    <3>1. CASE b = n + 1
      BY <2>2, <3>1
    <3>2. CASE b \in 1 .. n /\ a = n + 1
      BY <2>3, <3>2
    <3>3. CASE b \in 1 .. n /\ a \in 1 .. n
      BY <2>1, <3>3
    <3> QED BY <2>4, <3>1, <3>2, <3>3
  <2>6. Len(domains)' = n + 1
    BY <1>6
  <2> QED BY <2>5, <2>6, Zenon DEF WarnedInv
<1>11. DoneInv'
  <2>1. \A j \in 1 .. n + 1 : ~Empty(domains'[j])
    BY <1>0, <1>2, <1>3, <1>6 DEF WarnInv, DoneInv
  <2> QED BY <1>1, <1>6, <2>1 DEF DoneInv
<1> QED
  BY <1>9, <1>10, <1>11 DEF WarnInv

(* Every step keeps what the warnings rest on.                             *)
LEMMA WarnNext == IInv /\ IInv' /\ WarnInv /\ [Next]_vars => WarnInv'
<1> SUFFICES ASSUME IInv, IInv', WarnInv, [Next]_vars PROVE WarnInv'
  OBVIOUS
<1>1. ASSUME UNCHANGED <<domains, seen, warnings>>, pc' = "ready" => i' = Len(domains) PROVE WarnInv'
  BY <1>1 DEF WarnInv, SeenInv, WarnedInv, Overrides, DoneInv, Empty
<1>2. CASE GoodRule
  BY <1>2, WarnGoodRule
<1>3. CASE Unreadable \/ BadVersion \/ GoodVersion \/ BadRule \/ Loaded \/ InsertRule \/ Built
  BY <1>1, <1>3 DEF Unreadable, BadVersion, GoodVersion, BadRule, Fail, Loaded, InsertRule, Built
<1>4. CASE UNCHANGED vars
  BY <1>1, <1>4 DEF vars, WarnInv, DoneInv
<1> QED
  BY <1>2, <1>3, <1>4 DEF Next, Returned

LEMMA AlwaysWarnInv == Spec => []WarnInv
  BY InitInv, NextInv, WarnInit, WarnNext, PTL DEF Spec

(* Names with at most one final dot are told apart by their labels once    *)
(* they are normalised.                                                    *)
LEMMA NormalizedIs ==
  ASSUME NEW n \in Name, n.dots <= 1
  PROVE  /\ Normalize(n) \in Name /\ Normalize(n).labels = SplitDomain(n)
         /\ Normalize(n).dots = 0 /\ ~Normalize(n).space
<1> DEFINE L == [k \in DOMAIN n.labels |-> Lower[n.labels[k]]]
           t == TrimSpace(n)
           u == ToLower(t)
<1>1. SplitDomain(n) = L
  BY DEF SplitDomain, ToLower, TrimDot, Name
<1>2. L \in Seq(Labels)
  BY LoweredIs DEF Name
<1>3. t \in Name /\ t.labels = n.labels /\ t.dots = n.dots /\ t.space = FALSE
  BY DEF TrimSpace, Name
<1> HIDE DEF t
<1>4. u \in Name /\ u.labels = L /\ u.dots = n.dots /\ u.space = FALSE
  BY <1>2, <1>3 DEF ToLower, Name
<1> HIDE DEF L, u
<1>5. n.dots = 0 \/ n.dots = 1
  BY DEF Name
<1>6. TrimDot(u) \in Name /\ TrimDot(u).labels = L /\ TrimDot(u).dots = 0 /\ ~TrimDot(u).space
  BY <1>4, <1>5 DEF TrimDot, Name
<1> QED
  BY <1>1, <1>6 DEF Normalize, t, u

LEMMA SameName ==
  ASSUME NEW m \in Name, NEW n \in Name, m.labels = n.labels, m.dots = n.dots, ~m.space, ~n.space
  PROVE  m = n
  BY DEF Name

(* Two domains are the same when their labels are, whatever the case.      *)
LEMMA SameDomainIs ==
  ASSUME NEW c \in Name, NEW d \in Name, SplitDomain(c) # <<>>
  PROVE  Covers(c, d) /\ Covers(d, c) <=> SplitDomain(c) = SplitDomain(d)
<1> DEFINE C == SplitDomain(c)
           D == SplitDomain(d)
<1>1. C \in Seq(Labels) /\ D \in Seq(Labels) /\ Len(C) \in Nat /\ Len(D) \in Nat
  BY SplitIs
<1>2. /\ Covers(c, d) <=> Len(C) \in 1 .. Len(D) /\ Suffix(D, Len(C)) = C
      /\ Covers(d, c) <=> Len(D) \in 1 .. Len(C) /\ Suffix(C, Len(D)) = D
  BY CoversIs
<1> HIDE DEF C, D
<1>3. Suffix(C, Len(C)) = C
  BY <1>1, SuffixWhole
<1>4. C # <<>> => Len(C) \in 1 .. Len(C)
  BY <1>1
<1>5. Len(C) \in 1 .. Len(D) /\ Len(D) \in 1 .. Len(C) => Len(C) = Len(D)
  BY <1>1
<1>6. C # <<>>
  BY DEF C
<1> QED
  BY <1>2, <1>3, <1>4, <1>5, <1>6 DEF C, D

(* What the invariants say of the warnings once the trie is ready.         *)
LEMMA InvWarnings == IInv /\ WarnInv => WarningsExact
<1> SUFFICES ASSUME IInv, WarnInv, pc = "ready", \A j \in 1 .. i : Domain(j).dots <= 1
             PROVE  warnings = {w \in (1 .. i) \X (1 .. i) :
                                  /\ w[2] < w[1] /\ SameDomain(w[1], w[2])
                                  /\ \A k \in w[2] + 1 .. w[1] - 1 : ~SameDomain(k, w[1])}
  BY DEF WarningsExact
<1>1. i = Len(domains) /\ i \in Nat
  BY DEF WarnInv, DoneInv, IInv, TypeOK
<1>2. \A j \in 1 .. i : Domain(j) \in Name /\ domains[j] = Normalize(Domain(j)) /\ ~Empty(domains[j])
  BY <1>1 DEF IInv, DomainsInv, WarnInv, DoneInv, Domain, Rule
<1>3. \A j \in 1 .. i : /\ domains[j] \in Name /\ domains[j].labels = Key(j)
                         /\ domains[j].dots = 0 /\ ~domains[j].space
  BY <1>2, NormalizedIs DEF Key
<1>4. \A j \in 1 .. i : Key(j) # <<>>
  BY <1>2, <1>3 DEF Empty
<1>5. \A j, k \in 1 .. i : SameDomain(j, k) <=> domains[j] = domains[k]
  <2> SUFFICES ASSUME NEW j \in 1 .. i, NEW k \in 1 .. i PROVE SameDomain(j, k) <=> domains[j] = domains[k]
    OBVIOUS
  <2>1. SameDomain(j, k) <=> Key(j) = Key(k)
    BY <1>2, <1>4, SameDomainIs DEF SameDomain, Key
  <2>2. domains[j].labels = Key(j) /\ domains[k].labels = Key(k)
    BY <1>3
  <2>3. Key(j) = Key(k) => domains[j] = domains[k]
    BY <1>3, SameName
  <2> QED BY <2>1, <2>2, <2>3
<1>6. ASSUME NEW a \in 1 .. i, NEW b \in 1 .. i
      PROVE  <<a, b>> \in warnings <=> /\ b < a /\ SameDomain(a, b)
                                       /\ \A k \in b + 1 .. a - 1 : ~SameDomain(k, a)
  <2>1. <<a, b>> \in warnings <=> Overrides(a, b)
    BY <1>1 DEF WarnInv, WarnedInv
  <2>2. \A k \in b + 1 .. a - 1 : k \in 1 .. i
    BY <1>1
  <2>3. \A k \in b + 1 .. a - 1 : SameDomain(k, a) <=> domains[k] = domains[a]
    BY <1>5, <2>2
  <2>4. SameDomain(a, b) <=> domains[a] = domains[b]
    BY <1>5
  <2> QED BY <2>1, <2>3, <2>4 DEF Overrides
<1>7. warnings \subseteq (1 .. i) \X (1 .. i)
  BY <1>1 DEF IInv, TypeOK
<1>8. ASSUME NEW w \in (1 .. i) \X (1 .. i)
      PROVE  w \in warnings <=> /\ w[2] < w[1] /\ SameDomain(w[1], w[2])
                                /\ \A k \in w[2] + 1 .. w[1] - 1 : ~SameDomain(k, w[1])
  <2>1. w = <<w[1], w[2]>> /\ w[1] \in 1 .. i /\ w[2] \in 1 .. i
    OBVIOUS
  <2> QED BY <1>6, <2>1
<1> QED
  BY <1>7, <1>8

(* Load warns of the duplicates that lose their node of the trie, of each  *)
(* once and of nothing else, whatever the rules file.                      *)
THEOREM AlwaysWarned == Spec => []WarningsExact
  BY AlwaysInv, AlwaysWarnInv, InvWarnings, PTL
=============================================================================
