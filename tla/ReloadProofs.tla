---------------------------- MODULE ReloadProofs ----------------------------
(***************************************************************************)
(* Proofs about Reload, for every set of contents, every queue capacity    *)
(* and every number of changes and signals.                                *)
(***************************************************************************)
EXTENDS Reload, TLAPS

(* What a reloader carries from Load to Replace and Set was valid when it  *)
(* was read, and the file's history does not change.                       *)
HeldValid ==
  \A r \in Reloaders : pc[r] \in {"replace", "gauge"} => got[r] >= 1 /\ contents[got[r]] \in Valid

IInv == TypeOK /\ StoreValid /\ HeldValid

(* The initial state satisfies the invariant: nothing is in the store.     *)
LEMMA InitInv == Init => IInv
<1> SUFFICES ASSUME Init PROVE IInv
  OBVIOUS
<1>1. PICK c \in Contents \cup {Absent} : contents = <<c>>
  BY DEF Init
<1>2. contents \in Seq(Contents \cup {Absent}) /\ version = 1
  BY <1>1 DEF version
<1>3. queue \in Seq(FsEvent) /\ Len(queue) = 0
  BY DEF Init
<1>4. TypeOK
  <2>1. pc \in [Reloaders -> {"idle", "load", "replace", "gauge", "returned"}]
    BY DEF Init
  <2>2. got \in [Reloaders -> 0 .. version]
    BY <1>2 DEF Init
  <2>3. store \in 0 .. version /\ unseen \in 0 .. version
    BY <1>2 DEF Init
  <2>4. hups \in 0 .. MaxHups /\ gauge \in Nat /\ Len(queue) <= QCap + 1 /\ version >= 1
    BY <1>2, <1>3, ReloadAssumption DEF Init
  <2> QED BY <1>2, <1>3, <2>1, <2>2, <2>3, <2>4 DEF Init, TypeOK
<1> QED BY <1>4 DEF Init, IInv, StoreValid, HeldValid, Up

(* A change of the file, with or without an event, leaves what reloaders   *)
(* and the store hold valid: old versions keep their place in the history. *)
LEMMA PutInv ==
  ASSUME IInv, NEW c \in Contents \cup {Absent}, NEW op \in Op, NEW told \in BOOLEAN,
         Put(c, op, told), open' \in BOOLEAN
  PROVE  IInv'
<1> USE ReloadAssumption
<1>1. /\ contents' \in Seq(Contents \cup {Absent})
      /\ version' = version + 1
      /\ \A i \in 1 .. version : contents'[i] = contents[i]
  BY DEF IInv, TypeOK, Put, version
<1>2. /\ queue' \in Seq(FsEvent)
      /\ Len(queue') <= QCap + 1
  <2>1. [name |-> Target, op |-> op] \in FsEvent /\ Overflow \in FsEvent
    BY DEF FsEvent, Target
  <2> QED BY <2>1 DEF IInv, TypeOK, Put, Push
<1>3. UNCHANGED <<procVars, ruleVars, hupVars>> /\ unseen' \in 0 .. version + 1
  BY DEF IInv, TypeOK, Put, version
<1>4. TypeOK'
  BY <1>1, <1>2, <1>3 DEF IInv, TypeOK, procVars, ruleVars, hupVars, version
<1>5. \A i \in 1 .. version : contents[i] \in Valid => contents'[i] \in Valid
  BY <1>1
<1>6. StoreValid'
  <2>1. store \in 0 .. version /\ store' = store /\ phase' = phase
    BY <1>3 DEF IInv, TypeOK, procVars, ruleVars
  <2>2. store >= 1 => store \in 1 .. version
    BY <2>1
  <2> QED BY <1>5, <2>1, <2>2 DEF IInv, StoreValid
<1>7. HeldValid'
  <2> SUFFICES ASSUME NEW r \in Reloaders, pc'[r] \in {"replace", "gauge"}
               PROVE  got'[r] >= 1 /\ contents'[got'[r]] \in Valid
    BY DEF HeldValid
  <2>1. pc' = pc /\ got' = got /\ got[r] \in 0 .. version
    BY <1>3 DEF IInv, TypeOK, ruleVars
  <2>2. got[r] >= 1 /\ contents[got[r]] \in Valid
    BY <2>1 DEF IInv, HeldValid
  <2>3. got[r] \in 1 .. version
    BY <2>1, <2>2
  <2> QED BY <1>5, <2>1, <2>2, <2>3
<1> QED BY <1>4, <1>6, <1>7 DEF IInv

(* Every step preserves the invariant.                                     *)
LEMMA NextInv == IInv /\ [Next]_vars => IInv'
<1> SUFFICES ASSUME IInv, [Next]_vars PROVE IInv'
  OBVIOUS
<1> USE ReloadAssumption DEF IInv
<1>1. ASSUME NEW c \in Contents, RenameOnto(c) PROVE IInv'
  BY <1>1, PutInv DEF RenameOnto, Op, TypeOK
<1>2. ASSUME NEW c \in Contents, NEW told \in BOOLEAN, WriteChunk(c, told) PROVE IInv'
  BY <1>2, PutInv DEF WriteChunk, Op
<1>3. ASSUME NEW c \in Contents, WriteLast(c) PROVE IInv'
  BY <1>3, PutInv DEF WriteLast, Op
<1>4. CASE Remove
  BY <1>4, PutInv DEF Remove, Op, TypeOK
<1>5. ASSUME NEW name \in Others, Touch(name) PROVE IInv'
  <2>1. [name |-> name, op |-> "Write"] \in FsEvent /\ Overflow \in FsEvent
    BY DEF FsEvent, Op
  <2>2. queue' \in Seq(FsEvent) /\ Len(queue') <= QCap + 1
    BY <1>5, <2>1 DEF TypeOK, Touch, Push
  <2> QED BY <1>5, <2>2 DEF Touch, TypeOK, StoreValid, HeldValid, procVars, ruleVars, hupVars, version
<1>6. CASE Sighup
  <2>1. UNCHANGED <<ctxDone, fileVars, ruleVars>> /\ version' = version /\ version \in Nat
    BY <1>6 DEF Sighup, fileVars, version, TypeOK
  <2>2. phase' \in {"load", "watch", "notify", "running", "exited"} /\ hups' \in 0 .. MaxHups
    BY <1>6 DEF Sighup, TypeOK
  <2>3. hup' \in BOOLEAN /\ due' \in BOOLEAN
    BY <1>6 DEF Sighup, TypeOK
  <2>4. TypeOK'
    BY <2>1, <2>2, <2>3 DEF TypeOK, fileVars, ruleVars
  <2> QED BY <1>6, <2>1, <2>4 DEF Sighup, StoreValid, HeldValid, fileVars, ruleVars, Up
<1>7. CASE Sigterm
  BY <1>7 DEF Sigterm, TypeOK, StoreValid, HeldValid, fileVars, ruleVars, hupVars, version, Up
<1>8. CASE InitialLoad
  BY <1>8 DEF InitialLoad, TypeOK, StoreValid, HeldValid, fileVars, hupVars, version, OnDisk, Up
<1>9. CASE StartWatch \/ StartupFails \/ StartReloaders \/ Exit
  BY <1>9 DEF StartWatch, StartupFails, StartReloaders, Exit, TypeOK, StoreValid, HeldValid,
              fileVars, ruleVars, hupVars, version, Up
<1>10. CASE WatchEvent
  BY <1>10 DEF WatchEvent, TypeOK, StoreValid, HeldValid, procVars, hupVars, version, Up, Reloaders
<1>11. CASE WatcherReturn
  BY <1>11 DEF WatcherReturn, TypeOK, StoreValid, HeldValid, procVars, fileVars, hupVars, version, Up, Reloaders
<1>12. CASE HupRecv
  BY <1>12 DEF HupRecv, TypeOK, StoreValid, HeldValid, procVars, fileVars, version, Up, Reloaders
<1>13. ASSUME NEW r \in Reloaders, Load(r) PROVE IInv'
  <2>1. UNCHANGED <<procVars, fileVars, store, gauge, hup, hups>> /\ version' = version
    BY <1>13 DEF Load, fileVars, version
  <2>2. /\ pc' \in [Reloaders -> {"idle", "load", "replace", "gauge", "returned"}]
        /\ got' \in [Reloaders -> 0 .. version]
        /\ due' \in BOOLEAN
    <3>1. version \in 0 .. version
      BY DEF TypeOK, version
    <3>2. due' \in BOOLEAN
      BY <1>13, Zenon DEF Load
    <3> QED BY <1>13, <3>1, <3>2 DEF Load, TypeOK
  <2>3. TypeOK'
    BY <2>1, <2>2 DEF TypeOK, procVars, fileVars
  <2>4. HeldValid'
    BY <1>13, <2>1 DEF Load, TypeOK, HeldValid, fileVars, version, OnDisk
  <2> QED BY <2>1, <2>3, <2>4 DEF StoreValid, procVars, fileVars, Up
<1>14. ASSUME NEW r \in Reloaders, Replace(r) PROVE IInv'
  BY <1>14 DEF Replace, TypeOK, StoreValid, HeldValid, procVars, fileVars, hupVars, version, Up
<1>15. ASSUME NEW r \in Reloaders, SetGauge(r) PROVE IInv'
  BY <1>15 DEF SetGauge, TypeOK, StoreValid, HeldValid, procVars, fileVars, hupVars, version, Up
<1>16. CASE Terminated \/ UNCHANGED vars
  BY <1>16 DEF Terminated, TypeOK, StoreValid, HeldValid, vars, procVars, fileVars, ruleVars, hupVars, version, Up
<1> QED
  BY <1>1, <1>2, <1>3, <1>4, <1>5, <1>6, <1>7, <1>8, <1>9, <1>10, <1>11, <1>12, <1>13, <1>14,
     <1>15, <1>16 DEF Next, Operator, Main, Closure

(* The variables of the reload machinery stay in their types.              *)
THEOREM TypeCorrect == Safety => []TypeOK
BY InitInv, NextInv, PTL DEF Safety, IInv

(* Whatever the operator writes and whenever reloads run, also two at      *)
(* once, the store holds rules that Load accepted.                         *)
THEOREM StoreAlwaysValid == Safety => []StoreValid
BY InitInv, NextInv, PTL DEF Safety, IInv

----------------------------------------------------------------------------
(* The watcher alone: no SIGHUP has been sent.                             *)

(* The SIGHUP goroutine never leaves its channel; what the watcher has     *)
(* loaded is not older than the store, and after Replace it is the store.  *)
Alone ==
  /\ hup = FALSE
  /\ pc["hup"] = "idle"
  /\ phase \notin {"running", "exited"} => pc["watcher"] = "idle"
  /\ pc["watcher"] = "replace" => store <= got["watcher"]
  /\ pc["watcher"] = "gauge" => store = got["watcher"]

GaugeIs ==
  phase \in Up /\ (\A r \in Reloaders : pc[r] # "gauge") => gauge = NRules[contents[store]]

AInv == IInv /\ (hups = 0 => Alone /\ GaugeIs)

(* SIGHUPs are only ever counted up.                                       *)
LEMMA HupsGrow ==
  ASSUME TypeOK, [Next]_vars
  PROVE  hups' >= hups /\ (Sighup => hups' # 0)
<1> USE ReloadAssumption
<1>1. hups \in Nat
  BY DEF TypeOK
<1>2. CASE Sighup
  BY <1>1, <1>2 DEF Sighup
<1>3. CASE ~Sighup
  <2>1. ASSUME Operator PROVE hups' = hups
    BY <1>3, <2>1 DEF Operator, RenameOnto, WriteChunk, WriteLast, Remove, Put, Touch, Sigterm, hupVars
  <2>2. ASSUME Main PROVE hups' = hups
    BY <2>2 DEF Main, InitialLoad, StartWatch, StartupFails, StartReloaders, Exit, hupVars
  <2>3. ASSUME WatchEvent \/ WatcherReturn \/ HupRecv PROVE hups' = hups
    BY <2>3 DEF WatchEvent, WatcherReturn, HupRecv, hupVars
  <2>4. ASSUME \E r \in Reloaders : Closure(r) PROVE hups' = hups
    BY <2>4 DEF Closure, Load, Replace, SetGauge, hupVars
  <2>5. ASSUME Terminated \/ UNCHANGED vars PROVE hups' = hups
    BY <2>5 DEF Terminated, vars, hupVars
  <2>6. hups' = hups
    BY <2>1, <2>2, <2>3, <2>4, <2>5 DEF Next
  <2> QED BY <1>1, <1>3, <2>6
<1> QED BY <1>2, <1>3

(* Initially nothing is loaded.                                            *)
LEMMA InitAlone == Init => Alone /\ GaugeIs
BY DEF Init, Alone, GaugeIs, Reloaders, Up

(* Without signals every step keeps the watcher ahead of the store, and    *)
(* the gauge in step with it.                                              *)
LEMMA NextAlone ==
  ASSUME AInv, [Next]_vars, hups' = 0
  PROVE  Alone' /\ GaugeIs' /\ store' >= store
<1> USE ReloadAssumption
<1>0. TypeOK /\ StoreValid /\ HeldValid /\ Alone /\ GaugeIs /\ version \in Nat
  <2>1. TypeOK /\ hups \in Nat
    BY DEF AInv, IInv, TypeOK
  <2>2. hups = 0
    BY <2>1, HupsGrow
  <2> QED BY <2>2 DEF AInv, IInv, TypeOK, version
<1>1. ASSUME NEW c \in Contents \cup {Absent}, NEW op \in Op, NEW told \in BOOLEAN, Put(c, op, told)
      PROVE  Alone' /\ GaugeIs' /\ store' >= store
  <2>1. UNCHANGED <<procVars, ruleVars, hupVars>> /\ contents' = Append(contents, c)
    BY <1>1 DEF Put
  <2>2. \A i \in 1 .. version : contents'[i] = contents[i]
    BY <1>0, <2>1 DEF TypeOK, version
  <2>3. Alone' /\ store' >= store
    BY <1>0, <2>1 DEF Alone, procVars, ruleVars, hupVars, TypeOK
  <2>4. phase \in Up => contents'[store] = contents[store]
    BY <1>0, <2>2 DEF StoreValid, TypeOK
  <2>5. GaugeIs'
    BY <1>0, <2>1, <2>4 DEF GaugeIs, procVars, ruleVars, Up
  <2> QED BY <2>3, <2>5
<1>2. CASE \/ \E c \in Contents : RenameOnto(c) \/ WriteLast(c)
           \/ \E c \in Contents, told \in BOOLEAN : WriteChunk(c, told)
           \/ Remove
  BY <1>1, <1>2 DEF RenameOnto, WriteLast, WriteChunk, Remove, Op
<1>3. ~Sighup
  BY <1>0, HupsGrow
<1>4. CASE Sigterm \/ \E name \in Others : Touch(name)
  <2>1. UNCHANGED <<contents, ruleVars, hupVars>> /\ (phase' = phase \/ phase' = "exited")
    BY <1>4 DEF Sigterm, Touch, procVars, fileVars
  <2>2. Alone' /\ store' >= store
    BY <1>0, <2>1 DEF Alone, TypeOK, ruleVars, hupVars
  <2>3. GaugeIs'
    BY <1>0, <2>1 DEF GaugeIs, ruleVars, Up
  <2> QED BY <2>2, <2>3
<1>5. CASE InitialLoad
  BY <1>0, <1>5 DEF InitialLoad, Alone, GaugeIs, TypeOK, fileVars, hupVars, OnDisk, Up, Reloaders
<1>6. CASE StartWatch \/ StartupFails \/ StartReloaders \/ Exit
  BY <1>0, <1>6 DEF StartWatch, StartupFails, StartReloaders, Exit, Alone, GaugeIs, TypeOK,
                    fileVars, ruleVars, hupVars, Up
<1>7. CASE WatchEvent \/ WatcherReturn
  BY <1>0, <1>7 DEF WatchEvent, WatcherReturn, Alone, GaugeIs, TypeOK, procVars, fileVars, hupVars, Up, Reloaders
<1>8. ~HupRecv
  BY <1>0 DEF HupRecv, Alone
<1>9. ASSUME NEW r \in Reloaders, Closure(r)
      PROVE  Alone' /\ GaugeIs' /\ store' >= store
  <2>1. r = "watcher"
    BY <1>0, <1>9 DEF Closure, Load, Replace, SetGauge, Alone, Reloaders
  <2>2. CASE Load(r)
    <3>1. store <= version
      BY <1>0 DEF TypeOK
    <3>2. Alone'
      BY <1>0, <2>1, <2>2, <3>1 DEF Load, Alone, TypeOK, procVars, Reloaders
    <3>3. GaugeIs' /\ store' >= store
      BY <1>0, <2>1, <2>2 DEF Load, GaugeIs, TypeOK, procVars, fileVars, Up, Reloaders
    <3> QED BY <3>2, <3>3
  <2>3. CASE Replace(r)
    BY <1>0, <2>1, <2>3 DEF Replace, Alone, GaugeIs, TypeOK, procVars, fileVars, hupVars, Up, Reloaders
  <2>4. CASE SetGauge(r)
    BY <1>0, <2>1, <2>4 DEF SetGauge, Alone, GaugeIs, TypeOK, procVars, fileVars, hupVars, Up, Reloaders
  <2> QED BY <1>9, <2>2, <2>3, <2>4 DEF Closure
<1>10. CASE Terminated \/ UNCHANGED vars
  BY <1>0, <1>10 DEF Terminated, Alone, GaugeIs, TypeOK, vars, procVars, fileVars, ruleVars, hupVars, Up
<1>11. CASE Operator
  BY <1>2, <1>3, <1>4, <1>11 DEF Operator
<1>12. CASE Main
  BY <1>5, <1>6, <1>12 DEF Main
<1> QED BY <1>7, <1>8, <1>9, <1>10, <1>11, <1>12 DEF Next

(* The initial state satisfies the invariant, and every step preserves it. *)
LEMMA AloneInv == (Init => AInv) /\ (AInv /\ [Next]_vars => AInv')
<1>1. Init => AInv
  BY InitInv, InitAlone DEF AInv
<1>2. AInv /\ [Next]_vars => AInv'
  BY NextInv, NextAlone DEF AInv
<1> QED BY <1>1, <1>2

(* Until a SIGHUP is sent, reloads never take the store back to older      *)
(* rules.                                                                  *)
THEOREM WatcherNeverRegresses == Safety => NeverRegresses
<1>1. AInv /\ [Next]_vars => [hups' = 0 => store' >= store]_vars
  BY NextAlone
<1> QED BY <1>1, AloneInv, PTL DEF Safety, NeverRegresses

(* Until a SIGHUP is sent, the gauge counts the rules in force between     *)
(* reloads.                                                                *)
THEOREM WatcherGaugeAgrees == Safety => []GaugeAgrees
<1>1. AInv => GaugeAgrees
  BY DEF AInv, GaugeIs, GaugeAgrees
<1> QED BY <1>1, AloneInv, PTL DEF Safety
=============================================================================
