---------------------------- MODULE DedupProofs ----------------------------
(***************************************************************************)
(* What each step of Seen preserves, for every number of workers, every    *)
(* hash function, capacity and window, and whoever calls Seen when.        *)
(***************************************************************************)
EXTENDS Dedup, SequenceTheorems, TLAPS

OneToOne(s) == \A i, j \in 1 .. Len(s) : s[i] = s[j] => i = j

Has(s, k) == \E i \in 1 .. Len(s) : s[i] = k

(* Taking a key out of the eviction list moves up what follows it.         *)
LEMMA WithoutIs ==
  ASSUME order \in Seq(Keys), NEW k \in Keys, Has(order, k)
  PROVE  \E x \in 1 .. Len(order) :
           /\ order[x] = k
           /\ Without(k) \in Seq(Keys) /\ Len(Without(k)) = Len(order) - 1
           /\ \A j \in 1 .. Len(order) - 1 : Without(k)[j] = IF j < x THEN order[j] ELSE order[j + 1]
<1> DEFINE n == Len(order)
           x == Index(k)
           s == Without(k)
           f == SubSeq(order, 1, x - 1)
           g == SubSeq(order, x + 1, n)
<1>1. x \in 1 .. n /\ order[x] = k
  BY DEF Has, Index
<1>2. s = f \o g
  BY DEF Has, Without
<1>3. n \in Nat
  OBVIOUS
<1> HIDE DEF x, s
<1>4. f \in Seq(Keys) /\ Len(f) = x - 1 /\ \A j \in 1 .. x - 1 : f[j] = order[j]
  BY <1>1, <1>3
<1>5. g \in Seq(Keys) /\ Len(g) = n - x /\ \A j \in 1 .. n - x : g[j] = order[x + j]
  BY <1>1, <1>3
<1> HIDE DEF n, f, g
<1>6. /\ f \o g \in Seq(Keys)
      /\ Len(f \o g) = Len(f) + Len(g)
      /\ \A i \in 1 .. Len(f) + Len(g) : (f \o g)[i] = IF i <= Len(f) THEN f[i] ELSE g[i - Len(f)]
  BY <1>4, <1>5, ConcatProperties
<1>7. ASSUME NEW j \in 1 .. n - 1 PROVE s[j] = IF j < x THEN order[j] ELSE order[j + 1]
  <2>1. CASE j < x
    BY <1>1, <1>2, <1>3, <1>4, <1>5, <1>6, <2>1
  <2>2. CASE ~(j < x)
    <3>1. s[j] = g[j - (x - 1)] /\ j - (x - 1) \in 1 .. n - x
      BY <1>1, <1>2, <1>3, <1>4, <1>5, <1>6, <2>2
    <3>2. g[j - (x - 1)] = order[x + (j - (x - 1))]
      BY <1>5, <3>1
    <3> QED BY <1>1, <1>3, <2>2, <3>1, <3>2
  <2> QED BY <2>1, <2>2
<1>8. Len(s) = n - 1 /\ s \in Seq(Keys)
  BY <1>1, <1>2, <1>3, <1>4, <1>5, <1>6
<1> QED BY <1>1, <1>7, <1>8 DEF s, n

(* Taking a key out of the eviction list takes out that key and no other.  *)
LEMMA WithoutKey ==
  ASSUME order \in Seq(Keys), OneToOne(order), NEW k \in Keys
  PROVE  /\ Without(k) \in Seq(Keys)
         /\ OneToOne(Without(k))
         /\ \A m \in Keys : Has(Without(k), m) <=> Has(order, m) /\ m # k
         /\ Len(Without(k)) = IF Has(order, k) THEN Len(order) - 1 ELSE Len(order)
<1>1. CASE ~Has(order, k)
  BY <1>1 DEF Has, Without
<1>2. CASE Has(order, k)
  <2> DEFINE n == Len(order)
             s == Without(k)
  <2>3. n \in Nat
    OBVIOUS
  <2>5. PICK x \in 1 .. n :
          /\ order[x] = k
          /\ s \in Seq(Keys) /\ Len(s) = n - 1
          /\ \A j \in 1 .. n - 1 : s[j] = IF j < x THEN order[j] ELSE order[j + 1]
    BY <1>2, WithoutIs
  <2>1. x \in 1 .. n /\ order[x] = k
    BY <2>5
  <2> HIDE DEF n, s
  <2>6. /\ s \in Seq(Keys) /\ Len(s) = n - 1
        /\ \A j \in 1 .. n - 1 : s[j] = IF j < x THEN order[j] ELSE order[j + 1]
    BY <2>5
  <2>7. OneToOne(s)
    <3> SUFFICES ASSUME NEW i \in 1 .. n - 1, NEW j \in 1 .. n - 1, s[i] = s[j] PROVE i = j
      BY <2>6 DEF OneToOne
    <3> DEFINE At(m) == IF m < x THEN m ELSE m + 1
    <3>1. /\ s[i] = order[At(i)] /\ At(i) \in 1 .. n
          /\ s[j] = order[At(j)] /\ At(j) \in 1 .. n
      BY <2>1, <2>3, <2>6
    <3>2. At(i) = At(j)
      BY <3>1 DEF OneToOne, n
    <3> QED BY <2>1, <2>3, <3>2
  <2>8. \A m \in Keys : Has(s, m) => Has(order, m) /\ m # k
    BY <2>1, <2>3, <2>6 DEF Has, OneToOne, n
  <2>9. ASSUME NEW m \in Keys, Has(order, m), m # k PROVE Has(s, m)
    <3>1. PICK i \in 1 .. n : order[i] = m
      BY <2>9 DEF Has, n
    <3>2. CASE i < x
      <4>1. i \in 1 .. n - 1 /\ s[i] = m
        BY <2>1, <2>3, <2>6, <3>1, <3>2
      <4> QED BY <4>1, <2>6 DEF Has
    <3>3. CASE i > x
      <4>1. i - 1 \in 1 .. n - 1 /\ s[i - 1] = m
        BY <2>1, <2>3, <2>6, <3>1, <3>3
      <4> QED BY <4>1, <2>6 DEF Has
    <3> QED BY <2>1, <2>9, <3>1, <3>2, <3>3
  <2> QED BY <1>2, <2>3, <2>6, <2>7, <2>8, <2>9 DEF s, n
<1> QED BY <1>1, <1>2

(* A key put before a list.                                                *)
LEMMA Pushed ==
  ASSUME NEW k \in Keys, NEW s \in Seq(Keys)
  PROVE  /\ <<k>> \o s \in Seq(Keys)
         /\ Len(<<k>> \o s) = Len(s) + 1
         /\ (<<k>> \o s)[1] = k
         /\ \A i \in 1 .. Len(s) : (<<k>> \o s)[i + 1] = s[i]
<1>1. <<k>> \in Seq(Keys) /\ Len(<<k>>) = 1 /\ <<k>>[1] = k
  OBVIOUS
<1>2. /\ <<k>> \o s \in Seq(Keys)
      /\ Len(<<k>> \o s) = Len(<<k>>) + Len(s)
      /\ \A i \in 1 .. Len(<<k>>) + Len(s) :
           (<<k>> \o s)[i] = IF i <= Len(<<k>>) THEN <<k>>[i] ELSE s[i - Len(<<k>>)]
  BY <1>1, ConcatProperties
<1>3. Len(s) \in Nat
  OBVIOUS
<1> QED BY <1>1, <1>2, <1>3

(* Moving a key to the front: it is first, the others are kept.            *)
LEMMA ToFrontKey ==
  ASSUME order \in Seq(Keys), OneToOne(order), NEW k \in Keys
  PROVE  /\ ToFront(k) \in Seq(Keys)
         /\ OneToOne(ToFront(k))
         /\ ToFront(k)[1] = k
         /\ \A m \in Keys : Has(ToFront(k), m) <=> Has(order, m) \/ m = k
         /\ Len(ToFront(k)) = IF Has(order, k) THEN Len(order) ELSE Len(order) + 1
<1> DEFINE s == Without(k)
           t == ToFront(k)
<1>1. /\ s \in Seq(Keys)
      /\ OneToOne(s)
      /\ \A m \in Keys : Has(s, m) <=> Has(order, m) /\ m # k
      /\ Len(s) = IF Has(order, k) THEN Len(order) - 1 ELSE Len(order)
  BY WithoutKey
<1>2. t = <<k>> \o s
  BY DEF ToFront
<1> HIDE DEF s, t
<1>3. /\ t \in Seq(Keys)
      /\ Len(t) = Len(s) + 1
      /\ t[1] = k
      /\ \A i \in 1 .. Len(s) : t[i + 1] = s[i]
  BY <1>1, <1>2, Pushed
<1>4. Len(s) \in Nat /\ Len(order) \in Nat
  BY <1>1
<1>5. \A i \in 2 .. Len(t) : i - 1 \in 1 .. Len(s) /\ t[i] = s[i - 1]
  BY <1>3, <1>4
<1>6. OneToOne(t)
  <2> SUFFICES ASSUME NEW i \in 1 .. Len(t), NEW j \in 1 .. Len(t), t[i] = t[j] PROVE i = j
    BY DEF OneToOne
  <2>1. CASE i = 1 \/ j = 1
    <3>1. \A m \in 2 .. Len(t) : t[m] # k
      BY <1>1, <1>5 DEF Has
    <3> QED BY <1>3, <1>4, <2>1, <3>1
  <2>2. CASE i # 1 /\ j # 1
    <3>1. /\ i - 1 \in 1 .. Len(s) /\ j - 1 \in 1 .. Len(s)
          /\ s[i - 1] = s[j - 1]
      BY <1>3, <1>4, <1>5, <2>2
    <3>2. i - 1 = j - 1
      BY <1>1, <3>1 DEF OneToOne
    <3> QED BY <1>3, <1>4, <3>2
  <2> QED BY <2>1, <2>2
<1>7. ASSUME NEW m \in Keys PROVE Has(t, m) <=> Has(order, m) \/ m = k
  <2>1. Has(t, m) => Has(s, m) \/ m = k
    BY <1>3, <1>4, <1>5 DEF Has
  <2>2. m = k => Has(t, m)
    BY <1>3, <1>4 DEF Has
  <2>3. Has(s, m) => Has(t, m)
    <3> SUFFICES ASSUME NEW i \in 1 .. Len(s), s[i] = m PROVE Has(t, m)
      BY DEF Has
    <3>1. i + 1 \in 1 .. Len(t) /\ t[i + 1] = m
      BY <1>3, <1>4
    <3> QED BY <3>1 DEF Has
  <2> QED BY <1>1, <2>1, <2>2, <2>3
<1>8. Len(t) = IF Has(order, k) THEN Len(order) ELSE Len(order) + 1
  BY <1>1, <1>3, <1>4
<1> QED BY <1>3, <1>6, <1>7, <1>8 DEF t

\* Key m comes before key k in a list.
Before(s, m, k) == \E a, b \in 1 .. Len(s) : a < b /\ s[a] = m /\ s[b] = k

(* Moving a key to the front puts no other key before a key.               *)
LEMMA ToFrontBefore ==
  ASSUME order \in Seq(Keys), OneToOne(order), NEW k \in Keys,
         NEW m \in Keys, NEW l \in Keys, Before(ToFront(k), m, l)
  PROVE  l # k /\ (m = k \/ Before(order, m, l))
<1> DEFINE s == Without(k)
           t == ToFront(k)
<1>1. /\ s \in Seq(Keys) /\ OneToOne(t) /\ t[1] = k
      /\ Len(t) = Len(s) + 1 /\ \A i \in 1 .. Len(s) : t[i + 1] = s[i]
  BY WithoutKey, ToFrontKey, Pushed DEF ToFront
<1>2. PICK a, b \in 1 .. Len(t) : a < b /\ t[a] = m /\ t[b] = l
  BY DEF Before
<1> HIDE DEF s, t
<1>3. Len(s) \in Nat /\ Len(t) \in Nat
  BY <1>1
<1>4. l # k
  BY <1>1, <1>2, <1>3 DEF OneToOne
<1>5. ASSUME m # k PROVE Before(order, m, l)
  <2>1. /\ a - 1 \in 1 .. Len(s) /\ b - 1 \in 1 .. Len(s) /\ a - 1 < b - 1
        /\ s[a - 1] = m /\ s[b - 1] = l
    <3>1. a # 1
      BY <1>1, <1>2, <1>5
    <3>2. a - 1 \in 1 .. Len(s) /\ b - 1 \in 1 .. Len(s) /\ a - 1 < b - 1
      BY <1>1, <1>2, <1>3, <3>1
    <3>3. (a - 1) + 1 = a /\ (b - 1) + 1 = b
      BY <1>3
    <3> QED BY <1>1, <1>2, <3>2, <3>3
  <2>2. CASE ~Has(order, k)
    <3>1. s = order
      BY <2>2 DEF Has, Without, s
    <3> QED BY <2>1, <3>1 DEF Before
  <2>3. CASE Has(order, k)
    <3> DEFINE n == Len(order)
    <3>1. PICK x \in 1 .. n :
            /\ Len(s) = n - 1
            /\ \A j \in 1 .. n - 1 : s[j] = IF j < x THEN order[j] ELSE order[j + 1]
      BY <2>3, WithoutIs DEF s
    <3> DEFINE At(j) == IF j < x THEN j ELSE j + 1
    <3>2. n \in Nat
      OBVIOUS
    <3> HIDE DEF n
    <3>3. \A j \in 1 .. n - 1 : At(j) \in 1 .. n /\ s[j] = order[At(j)]
      BY <3>1, <3>2
    <3>4. \A i, j \in 1 .. n - 1 : i < j => At(i) < At(j)
      BY <3>2
    <3> HIDE DEF At
    <3>5. /\ At(a - 1) \in 1 .. n /\ At(b - 1) \in 1 .. n /\ At(a - 1) < At(b - 1)
          /\ order[At(a - 1)] = m /\ order[At(b - 1)] = l
      BY <2>1, <3>1, <3>3, <3>4
    <3> QED BY <3>5 DEF Before, n
  <2> QED BY <2>2, <2>3
<1> QED BY <1>4, <1>5

(* The eviction list and the map of the cache agree after any interleaving *)
(* of Get and Add: the list holds every cached key once and no other key,  *)
(* and never more than Size of them.                                       *)
LruConsistent ==
  /\ Len(order) <= Size
  /\ \A i, j \in 1 .. Len(order) : order[i] = order[j] => i = j
  /\ \A k \in Keys : items[k] # None <=> \E i \in 1 .. Len(order) : order[i] = k

LruTyped == items \in [Keys -> Nat \cup {None}] /\ order \in Seq(Keys)

(* Get touches the order of the eviction list and nothing else.            *)
LEMMA LruGetKeeps ==
  ASSUME LruTyped, LruConsistent, NEW k \in Keys, LruGet(k)
  PROVE  LruTyped' /\ LruConsistent' /\ items' = items
<1>1. items' = items
  BY DEF LruGet
<1>2. CASE items[k] = None
  BY <1>1, <1>2 DEF LruGet, LruTyped, LruConsistent
<1>3. CASE items[k] # None
  <2>1. OneToOne(order) /\ Has(order, k) /\ \A m \in Keys : items[m] # None <=> Has(order, m)
    BY <1>3 DEF LruConsistent, OneToOne, Has
  <2>2. order' = ToFront(k)
    BY <1>3 DEF LruGet
  <2>3. /\ order' \in Seq(Keys) /\ OneToOne(order') /\ Len(order') = Len(order)
        /\ \A m \in Keys : Has(order', m) <=> Has(order, m)
    BY <2>1, <2>2, ToFrontKey DEF LruTyped
  <2>4. \A m \in Keys : items'[m] # None <=> Has(order', m)
    BY <1>1, <2>1, <2>3
  <2> QED BY <1>1, <2>3, <2>4 DEF LruTyped, LruConsistent, OneToOne, Has
<1> QED BY <1>2, <1>3

(* Add stores the new time for its key and evicts at most one other key.   *)
LEMMA LruAddKeeps ==
  ASSUME LruTyped, LruConsistent, NEW k \in Keys, NEW t \in Nat, LruAdd(k, t)
  PROVE  /\ LruTyped' /\ LruConsistent'
         /\ items'[k] = t
         /\ \A m \in Keys \ {k} : items'[m] \in {items[m], None}
<1> USE DedupAssumption
<1> DEFINE moved == ToFront(k)
<1>1. OneToOne(order) /\ Len(order) <= Size /\ \A m \in Keys : items[m] # None <=> Has(order, m)
  BY DEF LruConsistent, OneToOne, Has
<1>2. /\ moved \in Seq(Keys) /\ OneToOne(moved) /\ moved[1] = k
      /\ \A m \in Keys : Has(moved, m) <=> Has(order, m) \/ m = k
      /\ Len(moved) = IF Has(order, k) THEN Len(order) ELSE Len(order) + 1
  BY <1>1, ToFrontKey DEF LruTyped
<1>3. Len(moved) \in Nat /\ Len(order) \in Nat /\ Len(moved) <= Size + 1 /\ Len(moved) >= 1
  <2>1. Len(order) \in Nat /\ Len(moved) \in Nat
    BY <1>2 DEF LruTyped
  <2>2. Has(order, k) => Len(order) >= 1
    BY <2>1 DEF Has
  <2> QED BY <1>1, <1>2, <2>1, <2>2
<1>4. LruAdd(k, t)
  OBVIOUS
<1>5. t # None /\ None \notin Keys
  OBVIOUS
<1>6. CASE ~(Len(moved) > Size)
  <2>1. order' = moved /\ items' = [items EXCEPT ![k] = t]
    BY <1>4, <1>6 DEF LruAdd
  <2>2. LruTyped' /\ items'[k] = t /\ \A m \in Keys \ {k} : items'[m] = items[m]
    BY <1>2, <2>1 DEF LruTyped
  <2>3. \A m \in Keys : items'[m] # None <=> Has(order', m)
    BY <1>1, <1>2, <1>5, <2>1, <2>2
  <2>4. Len(order') <= Size
    BY <1>3, <1>6, <2>1
  <2> QED BY <1>2, <2>1, <2>2, <2>3, <2>4 DEF LruConsistent, OneToOne, Has
<1>7. CASE Len(moved) > Size
  <2> DEFINE e == moved[Size + 1]
  <2>1. Len(moved) = Size + 1
    BY <1>3, <1>7
  <2>2. order' = SubSeq(moved, 1, Size) /\ items' = [items EXCEPT ![e] = None, ![k] = t]
    BY <1>4, <1>7, <2>1 DEF LruAdd
  <2> HIDE DEF moved
  <2>3. e \in Keys /\ e # k
    BY <1>2, <2>1 DEF OneToOne
  <2>4. /\ order' \in Seq(Keys) /\ Len(order') = Size
        /\ \A i \in 1 .. Size : order'[i] = moved[i]
    BY <1>2, <2>1, <2>2
  <2>5. OneToOne(order')
    BY <1>2, <2>1, <2>4 DEF OneToOne
  <2>6. ASSUME NEW m \in Keys PROVE Has(order', m) <=> Has(moved, m) /\ m # e
    <3>1. Has(order', m) => Has(moved, m) /\ m # e
      BY <1>2, <2>1, <2>4 DEF Has, OneToOne
    <3>2. Has(moved, m) /\ m # e => Has(order', m)
      BY <1>2, <2>1, <2>4 DEF Has
    <3> QED BY <3>1, <3>2
  <2> HIDE DEF e
  <2>7. LruTyped' /\ items'[k] = t /\ items'[e] = None /\ \A m \in Keys \ {k, e} : items'[m] = items[m]
    BY <2>2, <2>3, <2>4 DEF LruTyped
  <2>8. \A m \in Keys : items'[m] # None <=> Has(order', m)
    BY <1>1, <1>2, <1>5, <2>3, <2>6, <2>7
  <2>9. Len(order') <= Size
    BY <2>4
  <2>10. \A m \in Keys \ {k} : items'[m] \in {items[m], None}
    BY <2>7
  <2> QED BY <2>5, <2>7, <2>8, <2>9, <2>10 DEF LruConsistent, OneToOne, Has
<1> QED BY <1>6, <1>7

(* Get puts no other key before a key.                                     *)
LEMMA LruGetBefore ==
  ASSUME LruTyped, LruConsistent, NEW k \in Keys, LruGet(k),
         NEW m \in Keys, NEW l \in Keys, Before(order', m, l)
  PROVE  m = k \/ Before(order, m, l)
<1>1. OneToOne(order) /\ order \in Seq(Keys)
  BY DEF LruConsistent, OneToOne, LruTyped
<1>2. CASE order' = order
  BY <1>2
<1>3. CASE order' = ToFront(k)
  BY <1>1, <1>3, ToFrontBefore
<1> QED BY <1>2, <1>3 DEF LruGet

(* Nor does Add, which leaves nothing before its own key.                  *)
LEMMA LruAddBefore ==
  ASSUME LruTyped, LruConsistent, NEW k \in Keys, NEW t \in Nat, LruAdd(k, t),
         NEW m \in Keys, NEW l \in Keys, Before(order', m, l)
  PROVE  l # k /\ (m = k \/ Before(order, m, l))
<1> DEFINE moved == ToFront(k)
<1>1. OneToOne(order) /\ order \in Seq(Keys) /\ moved \in Seq(Keys) /\ Size \in Nat
  BY ToFrontKey, DedupAssumption DEF LruConsistent, OneToOne, LruTyped
<1>2. order' = moved \/ (Len(moved) > Size /\ order' = SubSeq(moved, 1, Size))
  BY DEF LruAdd
<1>3. Before(moved, m, l)
  <2> HIDE DEF moved
  <2>1. CASE order' = moved
    BY <2>1
  <2>2. CASE Len(moved) > Size /\ order' = SubSeq(moved, 1, Size)
    <3>1. Len(order') = Size /\ \A i \in 1 .. Size : i \in 1 .. Len(moved) /\ order'[i] = moved[i]
      BY <1>1, <2>2
    <3> QED BY <3>1 DEF Before
  <2> QED BY <1>2, <2>1, <2>2
<1> QED BY <1>1, <1>3, ToFrontBefore

(* A key leaves the cache behind Size other keys.                          *)
LEMMA Evicted ==
  ASSUME LruTyped, LruConsistent, NEW k \in Keys, NEW t \in Nat, LruAdd(k, t),
         NEW l \in Keys \ {k}, items[l] # None, items'[l] = None
  PROVE  \E s \in [1 .. Size -> Keys \ {l}] :
           /\ \A i, j \in 1 .. Size : s[i] = s[j] => i = j
           /\ \A i \in 1 .. Size : s[i] = k \/ Before(order, s[i], l)
<1> DEFINE moved == ToFront(k)
           n == Len(moved)
<1>1. OneToOne(order) /\ order \in Seq(Keys) /\ Len(order) <= Size /\ Size \in Nat \ {0}
  BY DedupAssumption DEF LruConsistent, OneToOne, LruTyped
<1>2. /\ moved \in Seq(Keys) /\ OneToOne(moved)
      /\ Len(moved) = IF Has(order, k) THEN Len(order) ELSE Len(order) + 1
  BY <1>1, ToFrontKey
<1>3. n > Size /\ l = moved[n]
  <2>1. items \in [Keys -> Nat \cup {None}]
    BY DEF LruTyped
  <2>2. CASE n > Size
    <3>1. items' = [items EXCEPT ![moved[n]] = None, ![k] = t]
      BY <2>2 DEF LruAdd
    <3> HIDE DEF moved, n
    <3>2. l # moved[n] => items'[l] = items[l]
      BY <2>1, <3>1
    <3> QED BY <2>2, <3>2
  <2>3. CASE ~(n > Size)
    <3>1. items' = [items EXCEPT ![k] = t]
      BY <2>3 DEF LruAdd
    <3>2. items'[l] = items[l]
      BY <2>1, <3>1
    <3> QED BY <3>2
  <2> QED BY <2>2, <2>3
<1>4. n = Size + 1
  BY <1>1, <1>2, <1>3
<1>5. \A i \in 1 .. Size : moved[i] \in Keys \ {l} /\ Before(moved, moved[i], l)
  <2> HIDE DEF moved
  <2> TAKE i \in 1 .. Size
  <2>1. i \in 1 .. Len(moved) /\ Size + 1 \in 1 .. Len(moved) /\ i < Size + 1
    BY <1>1, <1>4
  <2>2. moved[i] \in Keys
    BY <1>2, <2>1
  <2>3. moved[i] # l
    BY <1>2, <1>3, <1>4, <2>1 DEF OneToOne
  <2>4. moved[Size + 1] = l
    BY <1>3, <1>4
  <2>5. Before(moved, moved[i], l)
    BY <2>1, <2>4 DEF Before
  <2> QED BY <2>2, <2>3, <2>5
<1>6. \A i \in 1 .. Size : moved[i] = k \/ Before(order, moved[i], l)
  <2> TAKE i \in 1 .. Size
  <2>1. moved[i] \in Keys /\ Before(moved, moved[i], l)
    BY <1>5
  <2>2. \A m \in Keys : Before(ToFront(k), m, l) => m = k \/ Before(order, m, l)
    BY <1>1, ToFrontBefore
  <2> QED BY <2>1, <2>2
<1> HIDE DEF moved
<1> DEFINE s == [i \in 1 .. Size |-> moved[i]]
<1>7. s \in [1 .. Size -> Keys \ {l}]
  BY <1>5
<1>8. \A i, j \in 1 .. Size : s[i] = s[j] => i = j
  BY <1>1, <1>2, <1>4 DEF OneToOne
<1>9. \A i \in 1 .. Size : s[i] = k \/ Before(order, s[i], l)
  BY <1>6
<1> HIDE DEF s
<1> QED BY <1>7, <1>8, <1>9

----------------------------------------------------------------------------
(* The inductive invariant.                                                *)

(* A cached time is the one of a call that has returned.                   *)
CachedReturned ==
  \A k \in Keys : items[k] # None => \E j \in 1 .. Len(log) : log[j].key = k /\ log[j].now = items[k]

(* A call that found its key recent has a returned call to show for it,    *)
(* also when the entry has been evicted or overwritten since.              *)
HitReturned ==
  \A w \in Workers : call[w].pc = "add" /\ call[w].hit =>
    \E j \in 1 .. Len(log) : log[j].key = call[w].key /\ call[w].now - log[j].now < Window

(* The first return of every key is a miss.                                *)
FirstMissed ==
  \A i \in 1 .. Len(log) : \E j \in 1 .. i : log[j].key = log[i].key /\ ~log[j].seen

KeyInHand == \A w \in Workers : call[w].pc # "idle" => call[w].key \in Keys

DedupInv ==
  /\ DedupTypeOK /\ KeyInHand /\ LruConsistent
  /\ CachedReturned /\ HitReturned /\ FirstMissed /\ SuppressionJustified

(* The cache starts empty and nobody is in a call.                         *)
LEMMA DedupInitInv == DedupInit => DedupInv
<1> SUFFICES ASSUME DedupInit PROVE DedupInv
  OBVIOUS
<1>1. Idle \in Call /\ Idle.pc = "idle" /\ Idle.key = None
  BY DEF Idle, Call
<1>2. DedupTypeOK
  BY <1>1 DEF DedupInit, DedupTypeOK
<1>3. Len(order) = 0 /\ Len(log) = 0
  BY DEF DedupInit
<1>4. KeyInHand /\ HitReturned
  BY <1>1 DEF DedupInit, KeyInHand, HitReturned
<1>5. LruConsistent
  BY <1>3, DedupAssumption DEF DedupInit, LruConsistent
<1>6. CachedReturned /\ FirstMissed /\ SuppressionJustified
  BY <1>3 DEF DedupInit, CachedReturned, FirstMissed, SuppressionJustified
<1> QED BY <1>2, <1>4, <1>5, <1>6 DEF DedupInv

(* Entering Seen: the hash and the clock are read, nothing is shared yet.  *)
LEMMA SeenBeginInv ==
  ASSUME DedupInv, NEW w \in Workers, NEW p \in Payloads, SeenBegin(w, p)
  PROVE  DedupInv'
<1> USE DedupAssumption DEF DedupInv
<1> DEFINE c == [pc |-> "get", key |-> Fnv[p], now |-> clock, hit |-> FALSE]
<1>1. c \in Call /\ c.pc = "get" /\ c.key \in Keys
  BY DEF Call, DedupTypeOK
<1>2. call' = [call EXCEPT ![w] = c] /\ UNCHANGED <<clock, items, order, log>>
  BY DEF SeenBegin
<1> HIDE DEF c
<1>3. DedupTypeOK'
  BY <1>1, <1>2 DEF DedupTypeOK
<1>4. KeyInHand' /\ HitReturned'
  BY <1>1, <1>2 DEF KeyInHand, HitReturned, DedupTypeOK
<1>5. LruConsistent' /\ CachedReturned' /\ FirstMissed' /\ SuppressionJustified'
  BY <1>2 DEF LruConsistent, CachedReturned, FirstMissed, SuppressionJustified
<1> QED BY <1>3, <1>4, <1>5

(* Get: a recent entry names a call that has returned.                     *)
LEMMA SeenGetInv ==
  ASSUME DedupInv, NEW w \in Workers, SeenGet(w)
  PROVE  DedupInv'
<1> USE DedupAssumption DEF DedupInv
<1> DEFINE k == call[w].key
           now == call[w].now
           c == [call[w] EXCEPT !.pc = "add", !.hit = Recent(k, now)]
<1>1. call[w] \in Call /\ call[w].pc = "get" /\ k \in Keys /\ now \in Nat
  BY DEF SeenGet, DedupTypeOK, KeyInHand, Call
<1>2. Recent(k, now) \in BOOLEAN
  BY DEF Recent
<1>3. c \in Call /\ c.pc = "add" /\ c.key = k /\ c.now = now /\ c.hit = Recent(k, now)
  BY <1>1, <1>2 DEF Call
<1>4. call' = [call EXCEPT ![w] = c] /\ UNCHANGED <<clock, log>> /\ LruGet(k)
  BY DEF SeenGet
<1> HIDE DEF c, k, now
<1>5. LruTyped' /\ LruConsistent' /\ items' = items
  BY <1>1, <1>4, LruGetKeeps DEF LruTyped, DedupTypeOK
<1>6. DedupTypeOK'
  BY <1>3, <1>4, <1>5 DEF DedupTypeOK, LruTyped
<1>7. KeyInHand'
  BY <1>1, <1>3, <1>4 DEF KeyInHand, DedupTypeOK
<1>8. Recent(k, now) => \E j \in 1 .. Len(log) : log[j].key = k /\ now - log[j].now < Window
  BY <1>1 DEF Recent, CachedReturned
<1>9. HitReturned'
  BY <1>3, <1>4, <1>8 DEF HitReturned, DedupTypeOK
<1>10. CachedReturned' /\ FirstMissed' /\ SuppressionJustified'
  BY <1>4, <1>5 DEF CachedReturned, FirstMissed, SuppressionJustified
<1> QED BY <1>5, <1>6, <1>7, <1>9, <1>10

(* Add and return: what the call reports is justified by the calls that    *)
(* returned before it.                                                     *)
LEMMA SeenAddInv ==
  ASSUME DedupInv, NEW w \in Workers, SeenAdd(w)
  PROVE  DedupInv'
<1> USE DedupAssumption DEF DedupInv
<1> DEFINE k == call[w].key
           now == call[w].now
           r == [key |-> k, now |-> now, seen |-> call[w].hit]
           n == Len(log)
<1>1. call[w] \in Call /\ call[w].pc = "add" /\ k \in Keys /\ now \in Nat /\ call[w].hit \in BOOLEAN
  BY DEF SeenAdd, DedupTypeOK, KeyInHand, Call
<1>2. r \in Return /\ r.key = k /\ r.now = now /\ r.seen = call[w].hit
  BY <1>1 DEF Return
<1>3. /\ log' = Append(log, r) /\ LruAdd(k, now) /\ clock' = clock
      /\ call' = [call EXCEPT ![w] = Idle]
  BY DEF SeenAdd
<1> HIDE DEF r, k, now
<1>4. /\ n \in Nat /\ log' \in Seq(Return) /\ Len(log') = n + 1
      /\ log'[n + 1] = r
      /\ \A i \in 1 .. n : log'[i] = log[i]
  BY <1>2, <1>3 DEF DedupTypeOK
<1> HIDE DEF n
<1>5. /\ LruTyped' /\ LruConsistent' /\ items'[k] = now
      /\ \A m \in Keys \ {k} : items'[m] \in {items[m], None}
  BY <1>1, <1>3, LruAddKeeps DEF LruTyped, DedupTypeOK
<1>6. Idle \in Call /\ Idle.pc = "idle"
  BY DEF Idle, Call
<1>7. DedupTypeOK'
  BY <1>3, <1>4, <1>5, <1>6 DEF DedupTypeOK, LruTyped
<1>8. KeyInHand'
  BY <1>3, <1>6 DEF KeyInHand, DedupTypeOK
<1>9. CachedReturned'
  <2> SUFFICES ASSUME NEW m \in Keys, items'[m] # None
               PROVE  \E j \in 1 .. n + 1 : log'[j].key = m /\ log'[j].now = items'[m]
    BY <1>4 DEF CachedReturned
  <2>1. CASE m = k
    BY <1>2, <1>4, <1>5, <2>1
  <2>2. CASE m # k
    <3>1. items'[m] = items[m] /\ items[m] # None
      BY <1>5, <2>2
    <3>2. PICK j \in 1 .. n : log[j].key = m /\ log[j].now = items[m]
      BY <3>1 DEF CachedReturned, n
    <3> QED BY <1>4, <3>1, <3>2
  <2> QED BY <2>1, <2>2
<1>10. HitReturned'
  <2> SUFFICES ASSUME NEW v \in Workers, call'[v].pc = "add", call'[v].hit
               PROVE  \E j \in 1 .. n + 1 : log'[j].key = call'[v].key /\ call'[v].now - log'[j].now < Window
    BY <1>4 DEF HitReturned
  <2>1. call'[v] = call[v]
    BY <1>3, <1>6 DEF DedupTypeOK
  <2>2. PICK j \in 1 .. n : log[j].key = call[v].key /\ call[v].now - log[j].now < Window
    BY <2>1 DEF HitReturned, n
  <2> QED BY <1>4, <2>1, <2>2
<1>11. call[w].hit => \E j \in 1 .. n : log[j].key = k /\ now - log[j].now < Window
  BY <1>1 DEF HitReturned, n, k, now
<1>12. (\E j \in 1 .. n : log[j].key = k) => \E j \in 1 .. n : log[j].key = k /\ ~log[j].seen
  <2> SUFFICES ASSUME NEW j \in 1 .. n, log[j].key = k
               PROVE  \E i \in 1 .. n : log[i].key = k /\ ~log[i].seen
    OBVIOUS
  <2>1. PICK i \in 1 .. j : log[i].key = k /\ ~log[i].seen
    BY DEF FirstMissed, n
  <2> QED BY <1>4, <2>1
<1>13. FirstMissed'
  <2> SUFFICES ASSUME NEW i \in 1 .. n + 1
               PROVE  \E j \in 1 .. i : log'[j].key = log'[i].key /\ ~log'[j].seen
    BY <1>4 DEF FirstMissed
  <2>1. CASE i \in 1 .. n
    <3>1. PICK j \in 1 .. i : log[j].key = log[i].key /\ ~log[j].seen
      BY <2>1 DEF FirstMissed, n
    <3> QED BY <1>4, <2>1, <3>1
  <2>2. CASE i = n + 1 /\ ~call[w].hit
    BY <1>2, <1>4, <2>2
  <2>3. CASE i = n + 1 /\ call[w].hit
    <3>1. PICK j \in 1 .. n : log[j].key = k /\ ~log[j].seen
      BY <1>11, <1>12, <2>3
    <3> QED BY <1>2, <1>4, <2>3, <3>1
  <2> QED BY <1>4, <2>1, <2>2, <2>3
<1>14. SuppressionJustified'
  <2> SUFFICES ASSUME NEW i \in 1 .. n + 1, log'[i].seen
      PROVE  /\ \E j \in 1 .. i - 1 : log'[j].key = log'[i].key /\ log'[i].now - log'[j].now < Window
             /\ \E j \in 1 .. i - 1 : log'[j].key = log'[i].key /\ ~log'[j].seen
    BY <1>4 DEF SuppressionJustified
  <2>1. CASE i \in 1 .. n
    <3>1. log[i].seen
      BY <1>4, <2>1
    <3>2. PICK j \in 1 .. i - 1 : log[j].key = log[i].key /\ log[i].now - log[j].now < Window
      BY <2>1, <3>1 DEF SuppressionJustified, n
    <3>3. PICK j2 \in 1 .. i - 1 : log[j2].key = log[i].key /\ ~log[j2].seen
      BY <2>1, <3>1 DEF SuppressionJustified, n
    <3>4. log'[i] = log[i] /\ log'[j] = log[j] /\ log'[j2] = log[j2]
      BY <1>4, <2>1
    <3> QED BY <3>2, <3>3, <3>4
  <2>2. CASE i = n + 1
    <3>1. call[w].hit
      BY <1>2, <1>4, <2>2
    <3>2. PICK j \in 1 .. n : log[j].key = k /\ now - log[j].now < Window
      BY <1>11, <3>1
    <3>3. PICK j2 \in 1 .. n : log[j2].key = k /\ ~log[j2].seen
      BY <1>12, <3>2
    <3>4. i - 1 = n
      BY <1>4, <2>2
    <3> QED BY <1>2, <1>4, <2>2, <3>2, <3>3, <3>4
  <2> QED BY <1>4, <2>1, <2>2
<1> QED BY <1>5, <1>7, <1>8, <1>9, <1>10, <1>13, <1>14

(* The clock is read by later calls only.                                  *)
LEMMA TickInv ==
  ASSUME DedupInv, Tick \/ UNCHANGED dedupVars
  PROVE  DedupInv'
<1>1. UNCHANGED <<items, order, call, log>> /\ clock' \in Nat
  BY DEF Tick, dedupVars, DedupInv, DedupTypeOK
<1> QED BY <1>1 DEF DedupInv, DedupTypeOK, KeyInHand, LruConsistent, CachedReturned, HitReturned,
                    FirstMissed, SuppressionJustified
=============================================================================
