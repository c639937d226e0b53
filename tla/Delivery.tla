------------------------------ MODULE Delivery ------------------------------
(***************************************************************************)
(* What the pipeline promises about events: each event it accepts from its *)
(* source is handled exactly once, and it stops only when none is left.    *)
(***************************************************************************)
CONSTANT Event

VARIABLES
  pending,    \* events accepted and not yet handled
  handled,    \* events handled
  stopped     \* the pipeline has returned

Init == pending = {} /\ handled = {} /\ stopped = FALSE

Accept(e) ==
  /\ ~stopped
  /\ e \notin pending \cup handled
  /\ pending' = pending \cup {e}
  /\ UNCHANGED <<handled, stopped>>

Handle(e) ==
  /\ ~stopped
  /\ e \in pending
  /\ pending' = pending \ {e}
  /\ handled' = handled \cup {e}
  /\ UNCHANGED stopped

Stop ==
  /\ pending = {}
  /\ stopped' = TRUE
  /\ UNCHANGED <<pending, handled>>

Next ==
  \/ \E e \in Event : Accept(e) \/ Handle(e)
  \/ Stop

vars == <<pending, handled, stopped>>

Safety == Init /\ [][Next]_vars

Spec == Safety /\ \A e \in Event : WF_vars(Handle(e))
=============================================================================
