------------------------------- MODULE Dedup -------------------------------
(***************************************************************************)
(* The payload deduplicator (internal/dedup/dedup.go) as the worker        *)
(* goroutines of the pipeline share it.                                    *)
(*                                                                         *)
(* Seen(payload) holds no lock of its own.  It hashes the payload, reads   *)
(* the clock, calls Get on the LRU cache and then Add on it.  The cache    *)
(* locks each of the two calls, so a call of Seen is three atomic steps    *)
(* (SeenBegin, SeenGet, SeenAdd) with those of other workers and the       *)
(* passage of time in between.                                             *)
(***************************************************************************)
EXTENDS Integers, Sequences

CONSTANTS
  Workers,    \* the goroutines that call Seen
  Payloads,   \* DNS payloads
  Keys,       \* 64-bit hashes of payloads
  Fnv,        \* the hash: [Payloads -> Keys]
  None,       \* no entry for a key, no key in hand
  Size,       \* capacity of the LRU cache (4096 in main.go)
  Window,     \* the dedup window, in clock units
  MaxTime     \* bound on the clock

ASSUME DedupAssumption ==
  /\ Fnv \in [Payloads -> Keys]
  /\ None \notin Keys \cup Nat
  /\ Size \in Nat \ {0}
  /\ Window \in Nat
  /\ MaxTime \in Nat

VARIABLES
  clock,      \* what d.now() returns
  items,      \* the cache's map: key -> time of its last Add, or None
  order,      \* the cache's eviction list, most recently used key first
  call,       \* the call of Seen each worker is in
  log         \* history: the calls that have returned, in order of their Add

dedupVars == <<clock, items, order, call, log>>

Call   == [pc : {"idle", "get", "add"}, key : Keys \cup {None}, now : Nat, hit : BOOLEAN]
Return == [key : Keys, now : Nat, seen : BOOLEAN]
Idle   == [pc |-> "idle", key |-> None, now |-> 0, hit |-> FALSE]

----------------------------------------------------------------------------
(* The eviction list of hashicorp/golang-lru: Get and Add move a key to    *)
(* the front, Add of a new key drops the last one beyond the capacity.     *)

Index(k) == CHOOSE i \in 1 .. Len(order) : order[i] = k

Without(k) ==
  IF \E i \in 1 .. Len(order) : order[i] = k
  THEN SubSeq(order, 1, Index(k) - 1) \o SubSeq(order, Index(k) + 1, Len(order))
  ELSE order

ToFront(k) == <<k>> \o Without(k)

LruGet(k) ==
  /\ order' = IF items[k] = None THEN order ELSE ToFront(k)
  /\ UNCHANGED items

LruAdd(k, t) ==
  LET moved == ToFront(k)
  IN  IF Len(moved) > Size
      THEN /\ order' = SubSeq(moved, 1, Size)
           /\ items' = [items EXCEPT ![moved[Len(moved)]] = None, ![k] = t]
      ELSE /\ order' = moved
           /\ items' = [items EXCEPT ![k] = t]

----------------------------------------------------------------------------
(* One call of Seen.                                                       *)

\* k := fnv64a(payload); now := d.now()
SeenBegin(w, p) ==
  /\ call[w].pc = "idle"
  /\ call' = [call EXCEPT ![w] = [pc |-> "get", key |-> Fnv[p], now |-> clock, hit |-> FALSE]]
  /\ UNCHANGED <<clock, items, order, log>>

\* Mutant of Recent: the age of the entry is not compared with the window.
RecentAnyAge(k, now) == items[k] # None

\* t, ok := d.c.Get(k); ok && now.Sub(t) < d.ttl.  The difference is negative
\* when another worker stored a later time than the one this call read.
Recent(k, now) == items[k] # None /\ now - items[k] < Window

\* Mutant of SeenGet: the key is forgotten before the Add.
SeenGetForgetsKey(w) ==
  /\ call[w].pc = "get"
  /\ call' = [call EXCEPT ![w] = [@ EXCEPT !.pc = "add", !.key = None]]
  /\ LruGet(call[w].key)
  /\ UNCHANGED <<clock, log>>

SeenGet(w) ==
  /\ call[w].pc = "get"
  /\ call' = [call EXCEPT ![w].pc = "add", ![w].hit = Recent(call[w].key, call[w].now)]
  /\ LruGet(call[w].key)
  /\ UNCHANGED <<clock, log>>

\* Mutant of SeenAdd: a hit returns without the refreshing Add.
SeenAddNoRefresh(w) ==
  /\ call[w].pc = "add"
  /\ IF call[w].hit THEN UNCHANGED <<items, order>> ELSE LruAdd(call[w].key, call[w].now)
  /\ log' = Append(log, [key |-> call[w].key, now |-> call[w].now, seen |-> call[w].hit])
  /\ call' = [call EXCEPT ![w] = Idle]
  /\ UNCHANGED clock

\* d.c.Add(k, now) and return: both branches of Seen add the same entry.
SeenAdd(w) ==
  /\ call[w].pc = "add"
  /\ LruAdd(call[w].key, call[w].now)
  /\ log' = Append(log, [key |-> call[w].key, now |-> call[w].now, seen |-> call[w].hit])
  /\ call' = [call EXCEPT ![w] = Idle]
  /\ UNCHANGED clock

Tick ==
  /\ clock < MaxTime
  /\ clock' = clock + 1
  /\ UNCHANGED <<items, order, call, log>>

DedupInit ==
  /\ clock = 0
  /\ items = [k \in Keys |-> None]
  /\ order = <<>>
  /\ call = [w \in Workers |-> Idle]
  /\ log = <<>>

(* Type invariant.                                                         *)
DedupTypeOK ==
  /\ clock \in Nat
  /\ items \in [Keys -> Nat \cup {None}]
  /\ order \in Seq(Keys)
  /\ call \in [Workers -> Call]
  /\ log \in Seq(Return)

(* No response is lost to the deduplicator: whenever Seen(payload) returns *)
(* true, so that the caller drops the payload, an earlier call for the     *)
(* same hash had stored a time less than Window before this call's, and    *)
(* some earlier call for that hash had returned false, so that its caller  *)
(* went on to handle the payload.                                          *)
SuppressionJustified ==
  \A i \in 1 .. Len(log) : log[i].seen =>
    /\ \E j \in 1 .. i - 1 : log[j].key = log[i].key /\ log[i].now - log[j].now < Window
    /\ \E j \in 1 .. i - 1 : log[j].key = log[i].key /\ ~log[j].seen
=============================================================================
