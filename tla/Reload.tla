------------------------------- MODULE Reload -------------------------------
(***************************************************************************)
(* Hot reload of the rules file: the start-up of main.go, its reload       *)
(* closure, the fsnotify watcher (internal/rules/watcher.go), the SIGHUP   *)
(* goroutine and the rule store (internal/rules/store.go), against an      *)
(* operator who edits the file at any time.                                *)
(*                                                                         *)
(* The closure is called by two goroutines, the watcher's and SIGHUP's,    *)
(* with no lock around it: each call is three steps (Load, Store.Replace,  *)
(* RulesActive.Set) that may interleave with those of the other.           *)
(*                                                                         *)
(* contents is the history of the file, so contents[version] is what is on *)
(* disk now and a rule set in memory is named by the version it was loaded *)
(* from.  Reading the file is atomic.                                      *)
(***************************************************************************)
EXTENDS Integers, Sequences

CONSTANTS
  Contents,   \* what the rules file may hold, the leftovers of a partial write too
  Valid,      \* the contents that Load accepts
  NRules,     \* [Valid -> Nat]: len(rs.Rules)
  Absent,     \* there is no file
  Others,     \* names of other files in the watched directory
  QCap,       \* capacity of the kernel's inotify queue
  MaxChanges, \* bound on the changes of the file
  MaxHups     \* bound on the SIGHUPs sent

ASSUME ReloadAssumption ==
  /\ Valid \subseteq Contents
  /\ NRules \in [Valid -> Nat]
  /\ Absent \notin Contents
  /\ QCap \in Nat \ {0}
  /\ MaxChanges \in Nat
  /\ MaxHups \in Nat
  /\ "rules.yaml" \notin Others

VARIABLES
  phase,      \* how far main has got
  ctxDone,    \* SIGTERM or SIGINT arrived after NotifyContext
  contents,   \* what the rules file has held, the present contents last
  open,       \* an in-place write of the file is not finished
  queue,      \* inotify events the watcher has not received
  pc,         \* each reloader: waiting, or at a step of the reload closure
  got,        \* the version each reloader has loaded, 0 outside the closure
  store,      \* the version the store holds a rule set and trie of, 0: none
  gauge,      \* the rules_active gauge
  hup,        \* the signal buffered in the hup channel (capacity 1)
  hups,       \* SIGHUPs sent so far
  due,        \* history: no read of the SIGHUP goroutine came after the last SIGHUP
  unseen      \* history: the last version whose change left no event

procVars == <<phase, ctxDone>>
fileVars == <<contents, open, queue, unseen>>
ruleVars == <<pc, got, store, gauge>>
hupVars  == <<hup, hups, due>>
vars     == <<procVars, fileVars, ruleVars, hupVars>>

Target    == "rules.yaml"
Reloaders == {"watcher", "hup"}
Op        == {"Write", "Create", "Remove"}
Overflow  == [name |-> "", op |-> "Overflow"]
FsEvent   == [name : {Target} \cup Others, op : Op] \cup {Overflow}

version == Len(contents)
OnDisk  == contents[version]
Up      == {"watch", "notify", "running"}    \* main is past the initial load
Watched == {"notify", "running"}             \* the directory has been watched since

Init ==
  /\ phase = "load" /\ ctxDone = FALSE
  /\ contents \in {<<c>> : c \in Contents \cup {Absent}}
  /\ open = FALSE /\ queue = <<>> /\ unseen = 0
  /\ pc = [r \in Reloaders |-> "idle"]
  /\ got = [r \in Reloaders |-> 0]
  /\ store = 0 /\ gauge = 0
  /\ hup = FALSE /\ hups = 0 /\ due = FALSE

----------------------------------------------------------------------------
(* The operator and the kernel.                                            *)

\* An event the kernel queue has no room for is replaced by one overflow mark.
Push(ev) ==
  IF phase \notin Watched THEN queue
  ELSE IF Len(queue) < QCap THEN Append(queue, ev)
  ELSE IF Len(queue) = QCap /\ queue[QCap] # Overflow THEN Append(queue, Overflow)
  ELSE queue

Notified == phase \in Watched /\ Len(queue) < QCap

\* The file changes; told: the kernel has an event for it.
Put(c, op, told) ==
  /\ phase # "exited" /\ version <= MaxChanges
  /\ contents' = Append(contents, c)
  /\ queue' = IF told THEN Push([name |-> Target, op |-> op]) ELSE queue
  /\ unseen' = IF told /\ Notified THEN unseen ELSE version + 1
  /\ UNCHANGED <<procVars, ruleVars, hupVars>>

\* An atomic rename onto the file.
RenameOnto(c) == ~open /\ Put(c, "Create", TRUE) /\ UNCHANGED open

\* Part of an in-place write: it may leave an event behind.
WriteChunk(c, told) == OnDisk # Absent /\ Put(c, "Write", told) /\ open' = TRUE

\* The end of an in-place write: the kernel reports it.
WriteLast(c) == OnDisk # Absent /\ Put(c, "Write", TRUE) /\ open' = FALSE

Remove == ~open /\ OnDisk # Absent /\ Put(Absent, "Remove", TRUE) /\ UNCHANGED open

\* An event about another file of the directory, within the bound on changes.
Touch(name) ==
  /\ phase # "exited" /\ version <= MaxChanges
  /\ queue' = Push([name |-> name, op |-> "Write"])
  /\ UNCHANGED <<procVars, contents, open, unseen, ruleVars, hupVars>>

\* Mutant of Sighup: an unbuffered channel, whose signals are lost on a busy
\* goroutine.
SighupUnbuffered ==
  /\ phase # "exited" /\ hups < MaxHups
  /\ hups' = hups + 1
  /\ IF phase = "running"
     THEN hup' = (hup \/ pc["hup"] = "idle") /\ due' = TRUE /\ UNCHANGED phase
     ELSE phase' = "exited" /\ UNCHANGED <<hup, due>>
  /\ UNCHANGED <<ctxDone, fileVars, ruleVars>>

\* The signal package never blocks: with the channel full the signal is dropped.
\* Before signal.Notify the default action of SIGHUP ends the process.
Sighup ==
  /\ phase # "exited" /\ hups < MaxHups
  /\ hups' = hups + 1
  /\ IF phase = "running"
     THEN hup' = TRUE /\ due' = TRUE /\ UNCHANGED phase
     ELSE phase' = "exited" /\ UNCHANGED <<hup, due>>
  /\ UNCHANGED <<ctxDone, fileVars, ruleVars>>

Sigterm ==
  /\ phase # "exited" /\ ~ctxDone
  /\ IF phase = "running" THEN ctxDone' = TRUE /\ UNCHANGED phase
     ELSE phase' = "exited" /\ UNCHANGED ctxDone
  /\ UNCHANGED <<fileVars, ruleVars, hupVars>>

----------------------------------------------------------------------------
(* main.                                                                   *)

\* rules.Load, store.Replace, RulesActive.Set; exit 2 if the load fails.
InitialLoad ==
  /\ phase = "load"
  /\ IF OnDisk \in Valid
     THEN phase' = "watch" /\ store' = version /\ gauge' = NRules[OnDisk]
     ELSE phase' = "exited" /\ UNCHANGED <<store, gauge>>
  /\ UNCHANGED <<ctxDone, fileVars, pc, got, hupVars>>

\* rules.NewWatcher: fw.Add(dir).
StartWatch ==
  /\ phase = "watch"
  /\ phase' = "notify"
  /\ UNCHANGED <<ctxDone, fileVars, ruleVars, hupVars>>

\* The watcher, the deduplicator or the BPF programs cannot be set up: exit 2.
StartupFails ==
  /\ phase \in {"watch", "notify"}
  /\ phase' = "exited"
  /\ UNCHANGED <<ctxDone, fileVars, ruleVars, hupVars>>

\* signal.NotifyContext, signal.Notify, and the two goroutines are started.
StartReloaders ==
  /\ phase = "notify"
  /\ phase' = "running"
  /\ UNCHANGED <<ctxDone, fileVars, ruleVars, hupVars>>

\* pl.Run returns, after a signal or with an error of its source, and the
\* process ends whatever a reloader is doing.
Exit ==
  /\ phase = "running"
  /\ phase' = "exited"
  /\ UNCHANGED <<ctxDone, fileVars, ruleVars, hupVars>>

----------------------------------------------------------------------------
(* The reloaders.                                                          *)

\* Mutant of WatchEvent: only writes are watched for.
WatchEventWriteOnly ==
  /\ phase = "running" /\ pc["watcher"] = "idle" /\ queue # <<>>
  /\ queue' = Tail(queue)
  /\ pc' = IF Head(queue).name = Target /\ Head(queue).op = "Write"
           THEN [pc EXCEPT !["watcher"] = "load"] ELSE pc
  /\ UNCHANGED <<procVars, contents, open, unseen, got, store, gauge, hupVars>>

\* Watcher.Run receives an event: a Write or Create of the target calls
\* onChange; other files, other operations and errors are ignored.
WatchEvent ==
  /\ phase = "running" /\ pc["watcher"] = "idle" /\ queue # <<>>
  /\ queue' = Tail(queue)
  /\ pc' = IF Head(queue).name = Target /\ Head(queue).op \in {"Write", "Create"}
           THEN [pc EXCEPT !["watcher"] = "load"] ELSE pc
  /\ UNCHANGED <<procVars, contents, open, unseen, got, store, gauge, hupVars>>

\* case <-ctx.Done(): return
WatcherReturn ==
  /\ phase = "running" /\ pc["watcher"] = "idle" /\ ctxDone
  /\ pc' = [pc EXCEPT !["watcher"] = "returned"]
  /\ UNCHANGED <<procVars, fileVars, got, store, gauge, hupVars>>

\* for range hup: reload
HupRecv ==
  /\ phase = "running" /\ pc["hup"] = "idle" /\ hup
  /\ hup' = FALSE
  /\ pc' = [pc EXCEPT !["hup"] = "load"]
  /\ UNCHANGED <<procVars, fileVars, got, store, gauge, hups, due>>

\* Mutant of Load: the error is not looked at.
LoadUnchecked(r) ==
  /\ phase = "running" /\ pc[r] = "load"
  /\ pc' = [pc EXCEPT ![r] = "replace"] /\ got' = [got EXCEPT ![r] = version]
  /\ due' = (due /\ r # "hup")
  /\ UNCHANGED <<procVars, fileVars, store, gauge, hup, hups>>

\* Mutant of Load: on an error the first rules come back.
LoadFallsBack(r) ==
  /\ phase = "running" /\ pc[r] = "load"
  /\ pc' = [pc EXCEPT ![r] = "replace"]
  /\ got' = [got EXCEPT ![r] = IF OnDisk \in Valid THEN version ELSE 1]
  /\ due' = (due /\ r # "hup")
  /\ UNCHANGED <<procVars, fileVars, store, gauge, hup, hups>>

\* nrs, err := rules.Load(p); on an error the previous rules are kept.
Load(r) ==
  /\ phase = "running" /\ pc[r] = "load"
  /\ IF OnDisk \in Valid
     THEN pc' = [pc EXCEPT ![r] = "replace"] /\ got' = [got EXCEPT ![r] = version]
     ELSE pc' = [pc EXCEPT ![r] = "idle"] /\ UNCHANGED got
  /\ due' = (due /\ r # "hup")
  /\ UNCHANGED <<procVars, fileVars, store, gauge, hup, hups>>

\* store.Replace(nrs)
Replace(r) ==
  /\ phase = "running" /\ pc[r] = "replace"
  /\ store' = got[r]
  /\ pc' = [pc EXCEPT ![r] = "gauge"]
  /\ UNCHANGED <<procVars, fileVars, got, gauge, hupVars>>

\* Mutant of SetGauge: the gauge is set to the difference.
SetGaugeDelta(r) ==
  /\ phase = "running" /\ pc[r] = "gauge"
  /\ gauge' = NRules[contents[got[r]]] - gauge
  /\ pc' = [pc EXCEPT ![r] = "idle"] /\ got' = [got EXCEPT ![r] = 0]
  /\ UNCHANGED <<procVars, fileVars, store, hupVars>>

\* m.RulesActive.Set(len(nrs.Rules))
SetGauge(r) ==
  /\ phase = "running" /\ pc[r] = "gauge"
  /\ gauge' = NRules[contents[got[r]]]
  /\ pc' = [pc EXCEPT ![r] = "idle"] /\ got' = [got EXCEPT ![r] = 0]
  /\ UNCHANGED <<procVars, fileVars, store, hupVars>>

----------------------------------------------------------------------------

Terminated == phase = "exited" /\ UNCHANGED vars

Operator ==
  \/ \E c \in Contents : RenameOnto(c)
  \/ \E c \in Contents, told \in BOOLEAN : WriteChunk(c, told)
  \/ \E c \in Contents : WriteLast(c)
  \/ Remove
  \/ \E name \in Others : Touch(name)
  \/ Sighup
  \/ Sigterm

Main == InitialLoad \/ StartWatch \/ StartupFails \/ StartReloaders \/ Exit

Closure(r) == Load(r) \/ Replace(r) \/ SetGauge(r)

Next ==
  \/ Operator
  \/ Main
  \/ WatchEvent
  \/ WatcherReturn
  \/ HupRecv
  \/ \E r \in Reloaders : Closure(r)
  \/ Terminated

\* Both goroutines are scheduled while the process runs, and reading the file
\* returns.  Nothing obliges the operator to do anything.
Fairness ==
  /\ WF_vars(WatchEvent)
  /\ WF_vars(HupRecv)
  /\ \A r \in Reloaders : WF_vars(Closure(r))

Safety == Init /\ [][Next]_vars

Spec == Safety /\ Fairness

----------------------------------------------------------------------------
(* Type invariant.                                                         *)
TypeOK ==
  /\ phase \in {"load", "watch", "notify", "running", "exited"}
  /\ ctxDone \in BOOLEAN
  /\ contents \in Seq(Contents \cup {Absent}) /\ version >= 1
  /\ open \in BOOLEAN
  /\ queue \in Seq(FsEvent) /\ Len(queue) <= QCap + 1
  /\ pc \in [Reloaders -> {"idle", "load", "replace", "gauge", "returned"}]
  /\ got \in [Reloaders -> 0 .. version]
  /\ store \in 0 .. version
  /\ gauge \in Nat
  /\ hup \in BOOLEAN
  /\ hups \in 0 .. MaxHups
  /\ due \in BOOLEAN
  /\ unseen \in 0 .. version

(* From the initial load on the store always holds a rule set, so that no  *)
(* worker finds a nil trie, and it is one that Load accepted: a rules file *)
(* that is broken, removed or half written when a reload reads it never    *)
(* takes effect, and leaves the previous rules in place.                   *)
StoreValid == phase \in Up => store >= 1 /\ contents[store] \in Valid

(* As long as no SIGHUP was sent, the store never goes back: a reload      *)
(* never replaces rules by ones read from an earlier version of the file.  *)
NeverRegresses == [][hups' = 0 => store' >= store]_vars

(* As long as no SIGHUP was sent, the rules_active gauge is that of the    *)
(* rules in the store whenever no reload is between Replace and Set.       *)
GaugeAgrees ==
  hups = 0 /\ phase \in Up /\ (\A r \in Reloaders : pc[r] # "gauge") => gauge = NRules[contents[store]]

(* The rules file is complete and valid and the process is running.        *)
Settled == phase = "running" /\ ~ctxDone /\ ~open /\ OnDisk \in Valid

(* Hot reload converges: once the operator has stopped changing the file   *)
(* and left a valid one, the store comes to hold it and stays with it,     *)
(* unless its last change left no event in the watcher's queue.            *)
Converges == <>[](Settled /\ unseen # version => store = version)

(* The same for a process that gets no SIGHUP: its only exception is a     *)
(* change that left no event, by a full queue, a part of a write that is   *)
(* not reported, or an edit between the initial load and the watch.        *)
WatcherConverges == <>[](hups = 0 /\ Settled /\ unseen # version => store = version)

(* Every SIGHUP a running process gets is followed by a reload that reads  *)
(* the file after the signal, also when the signal comes in the middle of  *)
(* a reload, or finds the channel full and is dropped.                     *)
HupServed == (phase = "running" /\ due) ~> (~due \/ phase # "running")
=============================================================================
