-------------------------- MODULE SeenCallsProofs --------------------------
(***************************************************************************)
(* The deduplicator under any calls: the invariant of module DedupProofs   *)
(* holds in every behaviour of SeenCalls.                                  *)
(***************************************************************************)
EXTENDS SeenCalls, DedupProofs, FiniteSetTheorems

(* Every step preserves the invariant.                                     *)
LEMMA NextInv == DedupInv /\ [Next]_dedupVars => DedupInv'
<1> SUFFICES ASSUME DedupInv, [Next]_dedupVars PROVE DedupInv'
  OBVIOUS
<1>1. ASSUME NEW w \in Workers, NEW p \in Payloads, Begin(w, p) PROVE DedupInv'
  BY <1>1, SeenBeginInv DEF Begin
<1>2. ASSUME NEW w \in Workers, SeenGet(w) PROVE DedupInv'
  BY <1>2, SeenGetInv
<1>3. ASSUME NEW w \in Workers, SeenAdd(w) PROVE DedupInv'
  BY <1>3, SeenAddInv
<1>4. CASE Tick \/ UNCHANGED dedupVars
  BY <1>4, TickInv
<1> QED BY <1>1, <1>2, <1>3, <1>4 DEF Next

(* The deduplicator's variables stay in their types.                       *)
THEOREM TypeCorrect == Spec => []DedupTypeOK
BY DedupInitInv, NextInv, PTL DEF Spec, DedupInv

(* However calls of Seen interleave, a payload is suppressed only for one  *)
(* that was let through.                                                   *)
THEOREM SuppressionAlwaysJustified == Spec => []SuppressionJustified
BY DedupInitInv, NextInv, PTL DEF Spec, DedupInv

----------------------------------------------------------------------------
(* Duplicates are recognised.                                              *)

\* The entry of the j-th return is cached, and only keys used since are
\* before it in the eviction list.
Held(k, j) == items[k] = log[j].now /\ \A m \in Keys : Before(order, m, k) => m \in MovedAhead(j)

\* As many keys as the cache holds have been used since.
Outrun(k, j) == Cardinality(MovedAhead(j) \ {k}) >= Size

(* The last return of a key is cached, or it may have been evicted.        *)
LastHeld == \A k \in Keys, j \in 1 .. Len(log) : LastReturn(k, j) => Held(k, j) \/ Outrun(k, j)

(* A key has moved ahead when it was returned since or is about to be      *)
(* added.                                                                  *)
LEMMA MovedAheadIs ==
  ASSUME NEW j
  PROVE  \A m : m \in MovedAhead(j) <=> \/ \E n \in j + 1 .. Len(log) : log[n].key = m
                                        \/ \E w \in Workers : call[w].pc = "add" /\ call[w].key = m
<1>1. \A w \in Workers : w \in InCall /\ call[w].pc = "add" <=> call[w].pc = "add"
  BY DEF InCall
<1>2. InCall \subseteq Workers
  BY DEF InCall
<1> QED BY <1>1, <1>2 DEF MovedAhead

LEMMA MovedAheadNextIs ==
  ASSUME NEW j
  PROVE  \A m : m \in MovedAhead(j)' <=> \/ \E n \in j + 1 .. Len(log') : log'[n].key = m
                                         \/ \E w \in Workers : call'[w].pc = "add" /\ call'[w].key = m
<1>1. \A w \in Workers : w \in InCall' /\ call'[w].pc = "add" <=> call'[w].pc = "add"
  BY DEF InCall
<1>2. InCall' \subseteq Workers
  BY DEF InCall
<1> QED BY <1>1, <1>2 DEF MovedAhead

(* The keys that have moved ahead are finitely many.                       *)
AheadFinite == \A j \in 1 .. Len(log) : IsFiniteSet(MovedAhead(j))

LEMMA MovedAheadFinite == DedupInv => AheadFinite
<1> SUFFICES ASSUME DedupInv, NEW j \in 1 .. Len(log) PROVE IsFiniteSet(MovedAhead(j))
  BY DEF AheadFinite
<1> DEFINE I == j + 1 .. Len(log)
           W == {v \in InCall : call[v].pc = "add"}
           f == [n \in I |-> log[n].key]
           g == [w \in W |-> call[w].key]
           A == {log[n].key : n \in I}
           B == {call[w].key : w \in W}
<1>1. j \in Nat /\ Len(log) \in Nat
  BY DEF DedupInv, DedupTypeOK
<1>2. IsFiniteSet(I)
  BY <1>1, FS_Interval
<1>3. IsFiniteSet(W)
  <2>1. W \in SUBSET Workers
    BY DEF InCall
  <2> HIDE DEF W
  <2> QED BY <2>1, SeenCallsAssumption, FS_Subset
<1>4. f \in Surjection(I, A) /\ g \in Surjection(W, B)
  <2> HIDE DEF I, W
  <2> QED BY DEF Surjection
<1>5. MovedAhead(j) = A \cup B
  BY DEF MovedAhead
<1> HIDE DEF I, W, f, g, A, B
<1>6. IsFiniteSet(A) /\ IsFiniteSet(B)
  BY <1>2, <1>3, <1>4, FS_Surjection
<1> QED BY <1>5, <1>6, FS_Union

LEMMA MovedAheadFiniteNext == DedupInv' => AheadFinite'
  BY MovedAheadFinite, PTL

(* Once outrun, a return stays outrun while more keys move ahead.          *)
LEMMA OutrunStays ==
  ASSUME DedupInv, DedupInv', NEW k \in Keys, NEW j \in 1 .. Len(log), j \in 1 .. Len(log'),
         MovedAhead(j) \subseteq MovedAhead(j)', Outrun(k, j)
  PROVE  Outrun(k, j)'
<1> DEFINE S == MovedAhead(j) \ {k}
           T == MovedAhead(j)' \ {k}
<1>1. IsFiniteSet(MovedAhead(j)) /\ IsFiniteSet(MovedAhead(j)')
  BY MovedAheadFinite, MovedAheadFiniteNext DEF AheadFinite
<1>2. IsFiniteSet(S) /\ IsFiniteSet(T) /\ S \in SUBSET T
  BY <1>1, FS_RemoveElement
<1>3. Cardinality(S) >= Size
  BY DEF Outrun
<1>4. Size \in Nat
  BY DedupAssumption
<1>5. Cardinality(T) >= Size
  <2> HIDE DEF S, T
  <2>1. Cardinality(S) \in Nat /\ Cardinality(T) \in Nat /\ Cardinality(S) <= Cardinality(T)
    BY <1>2, FS_CardinalityType, FS_Subset
  <2> QED BY <1>3, <1>4, <2>1
<1> QED BY <1>5 DEF Outrun

(* Size different keys that have moved ahead outrun a return.              *)
LEMMA OutrunBy ==
  ASSUME DedupInv', NEW k \in Keys, NEW j \in 1 .. Len(log'), NEW s \in [1 .. Size -> Keys \ {k}],
         \A a, b \in 1 .. Size : s[a] = s[b] => a = b,
         \A a \in 1 .. Size : s[a] \in MovedAhead(j)'
  PROVE  Outrun(k, j)'
<1> DEFINE T == MovedAhead(j)' \ {k}
<1>1. IsFiniteSet(MovedAhead(j)')
  BY MovedAheadFiniteNext DEF AheadFinite
<1>2. IsFiniteSet(T)
  BY <1>1, FS_RemoveElement
<1>3. Size \in Nat \ {0}
  BY DedupAssumption
<1>4. s \in [1 .. Size -> T]
  OBVIOUS
<1> HIDE DEF T
<1>5. s \in Injection(1 .. Size, T)
  BY <1>4 DEF Injection, IsInjective
<1>6. Cardinality(1 .. Size) <= Cardinality(T)
  BY <1>2, <1>5, FS_Injection
<1>7. Cardinality(1 .. Size) = Size
  BY <1>3, FS_Interval
<1>8. Cardinality(T) \in Nat
  BY <1>2, FS_CardinalityType
<1> QED BY <1>3, <1>6, <1>7, <1>8 DEF Outrun, T

(* Get: the key moves ahead of others, and the caller is about to add it.  *)
LEMMA HeldGet ==
  ASSUME DedupInv, DedupInv', LastHeld, NEW w \in Workers, SeenGet(w)
  PROVE  LastHeld'
<1> DEFINE q == call[w].key
<1>1. /\ q \in Keys /\ LruGet(q) /\ log' = log /\ items' = items
      /\ call'[w].pc = "add" /\ call'[w].key = q /\ call[w].pc = "get"
      /\ \A v \in Workers \ {w} : call'[v] = call[v]
  <2>1. call[w] \in Call /\ call \in [Workers -> Call] /\ call[w].pc = "get" /\ q \in Keys
    BY DEF SeenGet, DedupInv, DedupTypeOK, KeyInHand
  <2>2. call'[w].pc = "add" /\ call'[w].key = q /\ \A v \in Workers \ {w} : call'[v] = call[v]
    BY <2>1 DEF SeenGet, Call
  <2> QED BY <2>1, <2>2 DEF SeenGet, LruGet
<1>2. LruTyped /\ LruConsistent
  BY DEF DedupInv, DedupTypeOK, LruTyped
<1> HIDE DEF q
<1> SUFFICES ASSUME NEW k \in Keys, NEW j \in 1 .. Len(log), LastReturn(k, j)
             PROVE  Held(k, j)' \/ Outrun(k, j)'
  BY <1>1 DEF LastHeld, LastReturn
<1>3. MovedAhead(j) \subseteq MovedAhead(j)' /\ q \in MovedAhead(j)'
  <2>1. \A m : m \in MovedAhead(j)' <=> \/ \E n \in j + 1 .. Len(log) : log[n].key = m
                                        \/ \E v \in Workers : call'[v].pc = "add" /\ call'[v].key = m
    BY <1>1, MovedAheadNextIs
  <2> QED BY <1>1, <2>1, MovedAheadIs
<1>4. CASE Held(k, j)
  <2>1. ASSUME NEW m \in Keys, Before(order', m, k) PROVE m \in MovedAhead(j)'
    <3>1. m = q \/ Before(order, m, k)
      BY <1>1, <1>2, <2>1, LruGetBefore
    <3> QED BY <1>3, <1>4, <3>1 DEF Held
  <2> QED BY <1>1, <1>4, <2>1 DEF Held
<1>5. CASE Outrun(k, j)
  BY <1>1, <1>3, <1>5, OutrunStays
<1> QED BY <1>4, <1>5 DEF LastHeld

(* Add: the key is the first of the list, and another one may drop out.    *)
LEMMA HeldAdd ==
  ASSUME DedupInv, DedupInv', LastHeld, NEW w \in Workers, SeenAdd(w)
  PROVE  LastHeld'
<1> DEFINE q == call[w].key
           t == call[w].now
           r == [key |-> q, now |-> t, seen |-> call[w].hit]
<1>0. PICK n \in Nat : n = Len(log)
  BY DEF DedupInv, DedupTypeOK
<1>1. /\ q \in Keys /\ t \in Nat /\ LruAdd(q, t) /\ call[w].pc = "add"
      /\ \A v \in Workers \ {w} : call'[v] = call[v]
  BY DEF SeenAdd, DedupInv, DedupTypeOK, KeyInHand, Call
<1>2. r \in Return /\ r.key = q /\ r.now = t
  BY <1>1 DEF Return, SeenAdd, DedupInv, DedupTypeOK, Call
<1>3. log' = Append(log, r) /\ log \in Seq(Return)
  BY DEF SeenAdd, DedupInv, DedupTypeOK
<1> HIDE DEF q, t, r
<1>4. Len(log') = n + 1 /\ log'[n + 1] = r /\ \A i \in 1 .. n : log'[i] = log[i]
  BY <1>0, <1>2, <1>3
<1>5. LruTyped /\ LruConsistent
  BY DEF DedupInv, DedupTypeOK, LruTyped
<1>6. items'[q] = t /\ \A m \in Keys \ {q} : items'[m] \in {items[m], None}
  BY <1>1, <1>5, LruAddKeeps
<1> SUFFICES ASSUME NEW k \in Keys, NEW j \in 1 .. n + 1, LastReturn(k, j)'
             PROVE  Held(k, j)' \/ Outrun(k, j)'
  BY <1>4 DEF LastHeld
<1>7. log'[j].key = k /\ \A i \in j + 1 .. n + 1 : log'[i].key # k
  BY <1>4 DEF LastReturn
<1>8. CASE j = n + 1
  <2>1. k = q /\ items'[k] = log'[j].now
    BY <1>2, <1>4, <1>6, <1>7, <1>8
  <2>2. ASSUME NEW m \in Keys, Before(order', m, k) PROVE FALSE
    BY <1>1, <1>5, <2>1, <2>2, LruAddBefore
  <2> QED BY <2>1, <2>2 DEF Held
<1>9. CASE j # n + 1
  <2>1. j \in 1 .. n /\ n + 1 \in j + 1 .. n + 1 /\ \A i \in j + 1 .. n : i \in j + 1 .. n + 1 /\ i \in 1 .. n
    BY <1>9
  <2>2. k # q
    BY <1>2, <1>4, <1>7, <2>1
  <2>3. LastReturn(k, j)
    BY <1>0, <1>4, <1>7, <2>1 DEF LastReturn
  <2>4. MovedAhead(j) \subseteq MovedAhead(j)' /\ q \in MovedAhead(j)'
    <3>1. \A m : m \in MovedAhead(j)' <=> \/ \E i \in j + 1 .. n + 1 : log'[i].key = m
                                          \/ \E v \in Workers : call'[v].pc = "add" /\ call'[v].key = m
      BY <1>4, MovedAheadNextIs
    <3>2. \A m : m \in MovedAhead(j) <=> \/ \E i \in j + 1 .. n : log[i].key = m
                                         \/ \E v \in Workers : call[v].pc = "add" /\ call[v].key = m
      BY <1>0, MovedAheadIs
    <3>3. q \in MovedAhead(j)'
      BY <1>2, <1>4, <2>1, <3>1
    <3>4. ASSUME NEW m \in MovedAhead(j) PROVE m \in MovedAhead(j)'
      <4>1. CASE \E i \in j + 1 .. n : log[i].key = m
        BY <1>4, <2>1, <3>1, <4>1
      <4>2. CASE \E v \in Workers : call[v].pc = "add" /\ call[v].key = m
        <5>1. PICK v \in Workers : call[v].pc = "add" /\ call[v].key = m
          BY <4>2
        <5>2. CASE v = w
          BY <3>3, <5>1, <5>2 DEF q
        <5>3. CASE v # w
          BY <1>1, <3>1, <5>1, <5>3
        <5> QED BY <5>2, <5>3
      <4> QED BY <3>2, <4>1, <4>2
    <3> QED BY <3>3, <3>4
  <2>5. j \in 1 .. Len(log) /\ j \in 1 .. Len(log')
    BY <1>0, <1>4, <2>1
  <2>6. CASE Outrun(k, j)
    BY <2>4, <2>5, <2>6, OutrunStays
  <2>7. CASE Held(k, j) /\ items'[k] = items[k]
    <3>1. ASSUME NEW m \in Keys, Before(order', m, k) PROVE m \in MovedAhead(j)'
      <4>1. m = q \/ Before(order, m, k)
        BY <1>1, <1>5, <3>1, LruAddBefore
      <4> QED BY <2>4, <2>7, <4>1 DEF Held
    <3>2. items'[k] = log'[j].now
      BY <1>4, <2>1, <2>7 DEF Held
    <3> QED BY <3>1, <3>2 DEF Held
  <2>8. CASE Held(k, j) /\ items'[k] # items[k]
    <3>1. items[k] # None /\ items'[k] = None /\ k \in Keys \ {q}
      BY <1>6, <2>2, <2>8
    <3>2. PICK s \in [1 .. Size -> Keys \ {k}] :
            /\ \A a, b \in 1 .. Size : s[a] = s[b] => a = b
            /\ \A a \in 1 .. Size : s[a] = q \/ Before(order, s[a], k)
      BY <1>1, <1>5, <3>1, Evicted
    <3>3. \A a \in 1 .. Size : s[a] \in MovedAhead(j)'
      BY <2>4, <2>8, <3>2 DEF Held
    <3> QED BY <2>5, <3>2, <3>3, OutrunBy
  <2> QED BY <2>3, <2>5, <2>6, <2>7, <2>8 DEF LastHeld
<1> QED BY <1>8, <1>9

(* Every step keeps the last returns cached or outrun.                     *)
LEMMA HeldNext == DedupInv /\ DedupInv' /\ LastHeld /\ [Next]_dedupVars => LastHeld'
<1> SUFFICES ASSUME DedupInv, DedupInv', LastHeld, [Next]_dedupVars PROVE LastHeld'
  OBVIOUS
<1>1. ASSUME UNCHANGED <<items, order, log>>,
             \A v \in Workers : call'[v].pc = "add" <=> call[v].pc = "add",
             \A v \in Workers : call[v].pc = "add" => call'[v].key = call[v].key
      PROVE  LastHeld'
  <2>1. \A j : MovedAhead(j)' = MovedAhead(j)
    <3> TAKE j
    <3>1. \A m : m \in MovedAhead(j)' <=> \/ \E n \in j + 1 .. Len(log) : log[n].key = m
                                          \/ \E v \in Workers : call'[v].pc = "add" /\ call'[v].key = m
      BY <1>1, MovedAheadNextIs
    <3>2. \A m : m \in MovedAhead(j)' <=> m \in MovedAhead(j)
      BY <1>1, <3>1, MovedAheadIs
    <3> QED BY <3>2
  <2> QED BY <1>1, <2>1 DEF LastHeld, LastReturn, Held, Outrun
<1>2. ASSUME NEW w \in Workers, NEW p \in Payloads, Begin(w, p) PROVE LastHeld'
  <2>1. /\ UNCHANGED <<items, order, log>> /\ call[w].pc = "idle" /\ call'[w].pc = "get"
        /\ \A v \in Workers \ {w} : call'[v] = call[v]
    BY <1>2 DEF Begin, SeenBegin, DedupInv, DedupTypeOK
  <2> QED BY <1>1, <2>1
<1>3. ASSUME NEW w \in Workers, SeenGet(w) PROVE LastHeld'
  BY <1>3, HeldGet
<1>4. ASSUME NEW w \in Workers, SeenAdd(w) PROVE LastHeld'
  BY <1>4, HeldAdd
<1>5. CASE Tick \/ UNCHANGED dedupVars
  BY <1>1, <1>5 DEF Tick, dedupVars
<1> QED BY <1>2, <1>3, <1>4, <1>5 DEF Next

LEMMA HeldInit == DedupInit => LastHeld
<1> SUFFICES ASSUME DedupInit PROVE LastHeld
  OBVIOUS
<1>1. Len(log) = 0
  BY DEF DedupInit
<1> QED BY <1>1 DEF LastHeld

\* What the property says of one step.
Recognises ==
  \A w \in Workers, j \in 1 .. Len(log) :
    /\ call[w].pc = "get" /\ call'[w].pc = "add"
    /\ LastReturn(call[w].key, j)
    /\ call[w].now - log[j].now < Window
    /\ Cardinality(MovedAhead(j) \ {call[w].key}) < Size
    => call'[w].hit

LEMMA StepRecognises == DedupInv /\ LastHeld /\ [Next]_dedupVars => [Recognises]_dedupVars
<1> SUFFICES ASSUME DedupInv, LastHeld, Next, NEW w \in Workers, NEW j \in 1 .. Len(log),
                    call[w].pc = "get", call'[w].pc = "add",
                    LastReturn(call[w].key, j), call[w].now - log[j].now < Window,
                    Cardinality(MovedAhead(j) \ {call[w].key}) < Size
             PROVE  call'[w].hit
  BY DEF Recognises
<1>1. call \in [Workers -> Call] /\ call[w] \in Call /\ call[w].key \in Keys
  BY DEF DedupInv, DedupTypeOK, KeyInHand
<1>2. SeenGet(w)
  <2>1. ASSUME NEW v \in Workers, NEW p \in Payloads, Begin(v, p) PROVE FALSE
    BY <1>1, <2>1 DEF Begin, SeenBegin
  <2>2. ASSUME NEW v \in Workers, SeenGet(v), v # w PROVE FALSE
    BY <1>1, <2>2 DEF SeenGet
  <2>3. ASSUME NEW v \in Workers, SeenAdd(v) PROVE FALSE
    BY <1>1, <2>3 DEF SeenAdd, Idle
  <2>4. ~Tick
    BY DEF Tick
  <2> QED BY <2>1, <2>2, <2>3, <2>4 DEF Next
<1>3. ~Outrun(call[w].key, j)
  <2>1. IsFiniteSet(MovedAhead(j))
    BY MovedAheadFinite DEF AheadFinite
  <2>2. IsFiniteSet(MovedAhead(j) \ {call[w].key})
    BY <2>1, FS_RemoveElement
  <2>3. Cardinality(MovedAhead(j) \ {call[w].key}) \in Nat
    BY <2>2, FS_CardinalityType
  <2>4. Size \in Nat
    BY DedupAssumption
  <2> QED BY <2>3, <2>4 DEF Outrun
<1>4. items[call[w].key] = log[j].now
  BY <1>1, <1>3 DEF LastHeld, Held
<1>5. log[j].now \in Nat /\ None \notin Nat
  <2>1. log \in Seq(Return)
    BY DEF DedupInv, DedupTypeOK
  <2>2. log[j] \in Return
    BY <2>1
  <2>3. None \notin Nat
    BY DedupAssumption
  <2> QED BY <2>2, <2>3 DEF Return
<1>6. Recent(call[w].key, call[w].now)
  BY <1>4, <1>5 DEF Recent
<1>7. call'[w].hit = Recent(call[w].key, call[w].now)
  BY <1>1, <1>2 DEF SeenGet, Call
<1> QED BY <1>6, <1>7

(* However many workers call Seen, with any capacity, window and hash, a   *)
(* duplicate within the window is recognised unless the calls overlap or   *)
(* as many other keys as the cache holds have been used in between.        *)
THEOREM AlwaysRecognised == Spec => DuplicateRecognised
<1>1. DuplicateRecognised <=> [][Recognises]_dedupVars
  BY DEF DuplicateRecognised, Recognises
<1> QED BY <1>1, DedupInitInv, NextInv, HeldInit, HeldNext, StepRecognises, PTL DEF Spec
=============================================================================
