------------------------------- MODULE Ipset --------------------------------
(***************************************************************************)
(* The ipset client as the workers share it: Netlink.Add with its          *)
(* rate-limited log of missing sets (internal/ipset/client.go), and the    *)
(* counting of its outcome in Pipeline.handle                              *)
(* (internal/pipeline/pipeline.go).  The operator may create and destroy   *)
(* sets at any time.                                                       *)
(*                                                                         *)
(* Whether an error means a missing set is decided twice, each time by     *)
(* looking for phrases in its text: by isMissingSet in the text of the     *)
(* netlink error, by isMissingErr in the text that Add makes of it, which  *)
(* holds the name of the set too.  A text is modelled by the phrases that  *)
(* occur in it.                                                            *)
(***************************************************************************)
EXTENDS Integers, Sequences, FiniteSets

CONSTANTS
  Workers,    \* the goroutines that call Add
  Sets,       \* names of ipsets
  InName,     \* [Sets -> SUBSET Phrases]: the phrases in a set's name
  NotFound,   \* netlink errors for a set that does not exist
  Failures,   \* netlink errors for any other reason
  InText,     \* [NotFound \cup Failures -> SUBSET Phrases]
  NilIP,      \* Add was called with a nil IP (an A record without an address)
  NoError,    \* the nil error
  NoOne,      \* nobody holds the mutex
  Never,      \* the set has not been logged
  Minute,     \* time.Minute, in clock units
  MaxTime,    \* bound on the clock
  MaxCalls    \* bound on the number of calls

Phrases == {"missing", "does not exist", "no such"}
Netlink == NotFound \cup Failures
Errors  == Netlink \cup {NilIP}
Reasons == {"missing", "other"}

ASSUME IpsetAssumption ==
  /\ InName \in [Sets -> SUBSET Phrases]
  /\ InText \in [Netlink -> SUBSET Phrases]
  /\ \A e \in NotFound : InText[e] \cap {"does not exist", "no such"} # {}
  /\ NilIP \notin Netlink /\ NoError \notin Errors
  /\ NoOne \notin Workers
  /\ Never \notin Nat
  /\ Minute \in Nat \ {0} /\ MaxTime \in Nat /\ MaxCalls \in Nat
  /\ Sets # {}
  /\ IsFiniteSet(Workers)

VARIABLES
  clock,      \* what time.Now() returns
  exists,     \* the sets the kernel has
  mu,         \* who holds n.mu
  missLog,    \* n.missLog
  pc,         \* each worker: outside Add, or at a step of it
  job,        \* each worker's call: its set, its error and the time it read
  writes,     \* IPSetWrites, summed over its labels
  errors,     \* IPSetErrors, by reason
  calls,      \* history: the number of calls of Add
  warned      \* history: the lines logged, each with the time that allowed it

callVars == <<mu, missLog, pc, job>>
metrics  == <<writes, errors>>
vars     == <<clock, exists, callVars, metrics, calls, warned>>

Line  == [set : Sets, at : Nat]
Job   == [set : Sets, err : Errors \cup {NoError}, now : Nat]
NoJob == [set |-> CHOOSE s \in Sets : TRUE, err |-> NoError, now |-> 0]

Init ==
  /\ clock = 0
  /\ exists \in SUBSET Sets
  /\ mu = NoOne
  /\ missLog = [s \in Sets |-> Never]
  /\ pc = [w \in Workers |-> "idle"]
  /\ job = [w \in Workers |-> NoJob]
  /\ writes = 0 /\ errors = [r \in Reasons |-> 0]
  /\ calls = 0 /\ warned = <<>>

----------------------------------------------------------------------------
(* Environment.                                                            *)

Tick ==
  /\ clock < MaxTime
  /\ clock' = clock + 1
  /\ UNCHANGED <<exists, callVars, metrics, calls, warned>>

\* ipset create, ipset destroy.
Toggle(s) ==
  /\ exists' = IF s \in exists THEN exists \ {s} ELSE exists \cup {s}
  /\ UNCHANGED <<clock, callVars, metrics, calls, warned>>

----------------------------------------------------------------------------
(* Netlink.Add.                                                            *)

\* Mutant of Call: a nil IP is logged as a missing set.
CallLogsNil(w, s, nilIP) ==
  /\ pc[w] = "idle" /\ calls < MaxCalls
  /\ calls' = calls + 1
  /\ job' = [job EXCEPT ![w] = [set |-> s, err |-> IF nilIP THEN NilIP ELSE NoError, now |-> 0]]
  /\ pc' = [pc EXCEPT ![w] = IF nilIP THEN "lock" ELSE "netlink"]
  /\ UNCHANGED <<clock, exists, mu, missLog, metrics, warned>>

\* n.Add(set, ip, ttl): a nil IP is refused, anything else goes to netlink.
Call(w, s, nilIP) ==
  /\ pc[w] = "idle" /\ calls < MaxCalls
  /\ calls' = calls + 1
  /\ job' = [job EXCEPT ![w] = [set |-> s, err |-> IF nilIP THEN NilIP ELSE NoError, now |-> 0]]
  /\ pc' = [pc EXCEPT ![w] = IF nilIP THEN "count" ELSE "netlink"]
  /\ UNCHANGED <<clock, exists, mu, missLog, metrics, warned>>

\* What netlink.IpsetAdd may return.
Outcomes(s) == Failures \cup (IF s \in exists THEN {NoError} ELSE NotFound)

isMissingSet(err) == InText[err] \cap {"does not exist", "no such"} # {}

IpsetAdd(w, err) ==
  /\ pc[w] = "netlink" /\ err \in Outcomes(job[w].set)
  /\ job' = [job EXCEPT ![w].err = err]
  /\ pc' = [pc EXCEPT ![w] = IF err # NoError /\ isMissingSet(err) THEN "lock" ELSE "count"]
  /\ UNCHANGED <<clock, exists, mu, missLog, metrics, calls, warned>>

\* Mutant of Lock: there is no mutex.
LockNot(w) ==
  /\ pc[w] = "lock"
  /\ mu' = w
  /\ pc' = [pc EXCEPT ![w] = "check"]
  /\ UNCHANGED <<clock, exists, missLog, job, metrics, calls, warned>>

\* rateLimitedMissLog: n.mu.Lock().  main.go always gives a log function.
Lock(w) ==
  /\ pc[w] = "lock" /\ mu = NoOne
  /\ mu' = w
  /\ pc' = [pc EXCEPT ![w] = "check"]
  /\ UNCHANGED <<clock, exists, missLog, job, metrics, calls, warned>>

\* last, ok := n.missLog[set]; ok && now.Sub(last) < time.Minute
Recent(s, now) == missLog[s] # Never /\ now - missLog[s] < Minute

\* Mutant of Quiet: the early return keeps the mutex.
QuietKeepsLock(w) ==
  /\ pc[w] = "check" /\ Recent(job[w].set, clock)
  /\ job' = [job EXCEPT ![w].now = clock]
  /\ pc' = [pc EXCEPT ![w] = "count"]
  /\ UNCHANGED <<clock, exists, mu, missLog, metrics, calls, warned>>

\* The set was logged less than a minute ago: return, and unlock.
Quiet(w) ==
  /\ pc[w] = "check" /\ Recent(job[w].set, clock)
  /\ job' = [job EXCEPT ![w].now = clock]
  /\ mu' = NoOne
  /\ pc' = [pc EXCEPT ![w] = "count"]
  /\ UNCHANGED <<clock, exists, missLog, metrics, calls, warned>>

\* No line about the set for a minute: go on.
Loud(w) ==
  /\ pc[w] = "check" /\ ~Recent(job[w].set, clock)
  /\ job' = [job EXCEPT ![w].now = clock]
  /\ pc' = [pc EXCEPT ![w] = "store"]
  /\ UNCHANGED <<clock, exists, mu, missLog, metrics, calls, warned>>

\* Mutant of Store: the mutex is released before the line is logged.
StoreUnlocks(w) ==
  /\ pc[w] = "store"
  /\ missLog' = [missLog EXCEPT ![job[w].set] = job[w].now]
  /\ mu' = NoOne
  /\ pc' = [pc EXCEPT ![w] = "log"]
  /\ UNCHANGED <<clock, exists, job, metrics, calls, warned>>

\* n.missLog[set] = now
Store(w) ==
  /\ pc[w] = "store"
  /\ missLog' = [missLog EXCEPT ![job[w].set] = job[w].now]
  /\ pc' = [pc EXCEPT ![w] = "log"]
  /\ UNCHANGED <<clock, exists, mu, job, metrics, calls, warned>>

\* n.logMissFn(set), with the mutex still held, and unlock.
Warn(w) ==
  /\ pc[w] = "log"
  /\ warned' = Append(warned, [set |-> job[w].set, at |-> job[w].now])
  /\ mu' = NoOne
  /\ pc' = [pc EXCEPT ![w] = "count"]
  /\ UNCHANGED <<clock, exists, missLog, job, metrics, calls>>

----------------------------------------------------------------------------
(* handle, with what Add returned.                                         *)

\* The phrases in the text of the error that Add returns: of a fixed text for
\* a nil IP, else of a prefix that names the set followed by netlink's text.
Returned(s, err) ==
  IF err = NilIP THEN {}
  ELSE (IF isMissingSet(err) THEN {"missing"} ELSE {}) \cup InName[s] \cup InText[err]

\* Mutant of isMissingErr: it looks for the text that netlink's error has.
isMissingErrOfNetlink(s, err) == Returned(s, err) \cap {"does not exist"} # {}

isMissingErr(s, err) == Returned(s, err) \cap {"missing", "does not exist"} # {}

Reason(s, err) == IF isMissingErr(s, err) THEN "missing" ELSE "other"

\* Add returns: the outcome is counted and the loop goes on.
Count(w) ==
  /\ pc[w] = "count"
  /\ IF job[w].err = NoError
     THEN writes' = writes + 1 /\ UNCHANGED errors
     ELSE errors' = [errors EXCEPT ![Reason(job[w].set, job[w].err)] = @ + 1] /\ UNCHANGED writes
  /\ pc' = [pc EXCEPT ![w] = "idle"]
  /\ job' = [job EXCEPT ![w] = NoJob]
  /\ UNCHANGED <<clock, exists, mu, missLog, calls, warned>>

----------------------------------------------------------------------------

Worker(w) ==
  \/ \E err \in Netlink \cup {NoError} : IpsetAdd(w, err)
  \/ Lock(w)
  \/ Quiet(w)
  \/ Loud(w)
  \/ Store(w)
  \/ Warn(w)
  \/ Count(w)

\* The bounded number of calls has been made.
Finished == calls = MaxCalls /\ (\A w \in Workers : pc[w] = "idle") /\ UNCHANGED vars

Next ==
  \/ Tick
  \/ \E s \in Sets : Toggle(s)
  \/ \E w \in Workers, s \in Sets, nilIP \in BOOLEAN : Call(w, s, nilIP)
  \/ \E w \in Workers : Worker(w)
  \/ Finished

\* Netlink and the logger return, the scheduler runs what can run, and Go's
\* mutex starves nobody.
Fairness == \A w \in Workers : WF_vars(Worker(w)) /\ SF_vars(Lock(w))

Safety == Init /\ [][Next]_vars

Spec == Safety /\ Fairness

----------------------------------------------------------------------------
(* Type invariant.                                                         *)
TypeOK ==
  /\ clock \in Nat
  /\ exists \subseteq Sets
  /\ mu \in Workers \cup {NoOne}
  /\ missLog \in [Sets -> Nat \cup {Never}]
  /\ pc \in [Workers -> {"idle", "netlink", "lock", "check", "store", "log", "count"}]
  /\ job \in [Workers -> Job]
  /\ \A w \in Workers : pc[w] \in {"lock", "check", "store", "log"} => job[w].err \in Netlink
  /\ writes \in Nat /\ errors \in [Reasons -> Nat]
  /\ calls \in 0 .. MaxCalls
  /\ warned \in Seq(Line)

(* client.go:35, "one log per (set, minute)": however many workers meet a  *)
(* missing set at once, two lines about it are at least a minute apart, by *)
(* the times the limiter took for them.                                    *)
LogSpacing ==
  \A i, j \in 1 .. Len(warned) :
    i < j /\ warned[i].set = warned[j].set => warned[j].at - warned[i].at >= Minute

Missed(w) == job[w].err \in Netlink /\ isMissingSet(job[w].err)

(* No miss goes unreported: when Add returns the error for a missing set,  *)
(* a line about the set has been written, for this call or for one less    *)
(* than a minute before it; it is never still to be written by a worker    *)
(* whose claim on the minute silenced this one.                            *)
MissReported ==
  \A w \in Workers : pc[w] = "count" /\ Missed(w) =>
    \E i \in 1 .. Len(warned) :
      /\ warned[i].set = job[w].set
      /\ warned[i].at <= job[w].now /\ job[w].now - warned[i].at < Minute

\* The workers whose call is not counted yet.
InFlight == {w \in Workers : pc[w] # "idle"}

(* ARCHITECTURE.md, "Failures (parse, ipset write) are counted": every     *)
(* call ends in one counter, and every line about a missing set has its    *)
(* count under reason "missing", although the log and the counter          *)
(* recognise the error by different texts.                                 *)
Accounted ==
  /\ calls = writes + errors["missing"] + errors["other"] + Cardinality(InFlight)
  /\ Len(warned) <= errors["missing"] + Cardinality({w \in Workers : pc[w] = "count" /\ Missed(w)})

(* The mutex is given back on every path: no call of Add stays inside.     *)
CallsReturn == \A w \in Workers : pc[w] # "idle" ~> pc[w] = "idle"
=============================================================================
