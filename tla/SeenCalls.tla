----------------------------- MODULE SeenCalls -----------------------------
(***************************************************************************)
(* The deduplicator on its own: any worker may call Seen with any payload  *)
(* at any time.  What one call of Seen may report about the others.        *)
(***************************************************************************)
EXTENDS Dedup, FiniteSets

CONSTANT MaxCalls   \* bound on the number of calls of Seen

ASSUME SeenCallsAssumption == MaxCalls \in Nat /\ IsFiniteSet(Workers)

InCall == {w \in Workers : call[w].pc # "idle"}

Begin(w, p) ==
  /\ Len(log) + Cardinality(InCall) < MaxCalls
  /\ SeenBegin(w, p)

Next ==
  \/ \E w \in Workers, p \in Payloads : Begin(w, p)
  \/ \E w \in Workers : SeenGet(w)
  \/ \E w \in Workers : SeenAdd(w)
  \/ Tick

Spec == DedupInit /\ [][Next]_dedupVars

----------------------------------------------------------------------------
(* DedupTypeOK and SuppressionJustified are in module Dedup: they hold     *)
(* wherever Seen is called from.                                           *)

\* The other keys that may have moved ahead of a key in the eviction list
\* since the j-th return: those returned since, and those between Get and Add.
MovedAhead(j) ==
  {log[n].key : n \in j + 1 .. Len(log)}
    \cup {call[w].key : w \in {v \in InCall : call[v].pc = "add"}}

\* The last return of a key.
LastReturn(k, j) == log[j].key = k /\ \A n \in j + 1 .. Len(log) : log[n].key # k

(* A duplicate is recognised however many workers call Seen (dedup.go:24,  *)
(* "returns true if the payload was inserted within the TTL window"): a    *)
(* call that looks into the cache after another call for the hash has      *)
(* returned, less than Window before it and with fewer than Size other     *)
(* keys used since, finds the entry.  Only overlapping calls and a full    *)
(* cache let a duplicate through.                                          *)
DuplicateRecognised ==
  [][\A w \in Workers, j \in 1 .. Len(log) :
       /\ call[w].pc = "get" /\ call'[w].pc = "add"
       /\ LastReturn(call[w].key, j)
       /\ call[w].now - log[j].now < Window
       /\ Cardinality(MovedAhead(j) \ {call[w].key}) < Size
       => call'[w].hit]_dedupVars
=============================================================================
