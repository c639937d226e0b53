---------------------------- MODULE IpsetProofs -----------------------------
(***************************************************************************)
(* Proofs about Ipset, for every number of workers and of calls, every set *)
(* of ipsets and errors, and every length of the minute.                   *)
(***************************************************************************)
EXTENDS Ipset, FiniteSetTheorems, TLAPS

Inside == {"check", "store", "log"}

(* The mutex is held by exactly the worker that is past Lock.              *)
MutexHeld == \A w \in Workers : pc[w] \in Inside <=> mu = w

(* A time the limiter took or stored has passed.                           *)
TimesPassed ==
  /\ \A s \in Sets : missLog[s] # Never => missLog[s] <= clock
  /\ \A w \in Workers : job[w].now <= clock

(* Between the check and the store nobody else claims the minute; after    *)
(* the store the claim is the worker's own, and the lines about the set    *)
(* are older by a minute.                                                  *)
Claimed ==
  \A w \in Workers :
    /\ pc[w] = "store" => ~Recent(job[w].set, job[w].now)
    /\ pc[w] = "log" => /\ missLog[job[w].set] = job[w].now
                        /\ \A i \in 1 .. Len(warned) :
                             warned[i].set = job[w].set => job[w].now - warned[i].at >= Minute

(* missLog holds the time of the last line about a set, or of the line     *)
(* that the holder of the mutex is about to write.                         *)
Logged ==
  /\ \A i \in 1 .. Len(warned) :
       missLog[warned[i].set] # Never /\ warned[i].at <= missLog[warned[i].set]
  /\ \A s \in Sets : missLog[s] # Never =>
       \/ \E i \in 1 .. Len(warned) : warned[i].set = s /\ warned[i].at = missLog[s]
       \/ \E w \in Workers : pc[w] = "log" /\ job[w].set = s /\ job[w].now = missLog[s]

IInv == TypeOK /\ MutexHeld /\ TimesPassed /\ Claimed /\ Logged /\ LogSpacing /\ MissReported

(* The assumptions the proofs need.                                        *)
LEMMA Basics ==
  /\ NoOne \notin Workers
  /\ Never \notin Nat
  /\ Minute \in Nat \ {0}
  /\ MaxCalls \in Nat
  /\ Sets # {}
  /\ NilIP \notin Netlink /\ NoError \notin Netlink
  /\ IsFiniteSet(Workers)
BY IpsetAssumption DEF Errors

(* Initially nobody is in Add and nothing was logged.                      *)
LEMMA InitInv == Init => IInv
<1> SUFFICES ASSUME Init PROVE IInv
  OBVIOUS
<1> USE DEF Init
<1>1. NoJob \in Job
  BY Basics DEF NoJob, Job
<1>2. Len(warned) = 0 /\ warned \in Seq(Line)
  OBVIOUS
<1>3. TypeOK
  <2>1. calls \in 0 .. MaxCalls
    BY Basics
  <2>2. \A w \in Workers : pc[w] = "idle"
    OBVIOUS
  <2>3. missLog \in [Sets -> Nat \cup {Never}] /\ errors \in [Reasons -> Nat]
    OBVIOUS
  <2>4. pc \in [Workers -> {"idle", "netlink", "lock", "check", "store", "log", "count"}] /\ job \in [Workers -> Job]
    BY <1>1
  <2> QED BY <1>2, <2>1, <2>2, <2>3, <2>4 DEF TypeOK
<1>4. MutexHeld /\ TimesPassed /\ Claimed /\ MissReported
  BY Basics DEF MutexHeld, TimesPassed, Claimed, MissReported, Inside, NoJob
<1>5. Logged /\ LogSpacing
  BY <1>2 DEF Logged, LogSpacing
<1> QED BY <1>3, <1>4, <1>5 DEF IInv

(* A step that logs nothing and leaves the limiter alone keeps the         *)
(* invariant, if the worker it is of stays outside the mutex.              *)
LEMMA OutsideInv ==
  ASSUME IInv, NEW w \in Workers, TypeOK', clock' = clock,
         UNCHANGED <<mu, missLog, warned>>,
         \A v \in Workers \ {w} : pc'[v] = pc[v] /\ job'[v] = job[v],
         pc[w] \notin Inside, pc'[w] \notin Inside,
         job'[w].now <= clock,
         pc'[w] = "count" => ~Missed(w)'
  PROVE  IInv'
<1> USE DEF IInv
<1>1. \A v \in Workers : pc'[v] \in Inside => v # w /\ pc'[v] = pc[v] /\ job'[v] = job[v]
  OBVIOUS
<1>2. MutexHeld'
  BY <1>1 DEF MutexHeld
<1>3. TimesPassed'
  BY DEF TimesPassed
<1>4. Claimed'
  BY <1>1 DEF Claimed, Inside, Recent
<1>5. Logged'
  BY <1>1 DEF Logged, Inside
<1>6. MissReported'
  BY DEF MissReported, Missed
<1> QED BY <1>2, <1>3, <1>4, <1>5, <1>6 DEF LogSpacing

(* Every step preserves the invariant.                                     *)
LEMMA NextInv == IInv /\ [Next]_vars => IInv'
<1> SUFFICES ASSUME IInv, [Next]_vars PROVE IInv'
  OBVIOUS
<1> USE DEF IInv
<1>0. \A v \in Workers : job[v] \in Job /\ job[v].set \in Sets /\ job[v].now \in Nat
  BY DEF TypeOK, Job
<1>1. CASE Tick
  <2>1. UNCHANGED <<exists, mu, missLog, pc, job, writes, errors, calls, warned>> /\ clock' = clock + 1
    BY <1>1 DEF Tick, callVars, metrics
  <2>2. TypeOK'
    BY <2>1 DEF TypeOK
  <2>3. TimesPassed'
    BY <1>0, <2>1 DEF TimesPassed, TypeOK
  <2>4. MutexHeld' /\ Claimed' /\ Logged' /\ LogSpacing' /\ MissReported'
    BY <2>1 DEF MutexHeld, Claimed, Recent, Logged, LogSpacing, MissReported, Missed
  <2> QED BY <2>2, <2>3, <2>4
<1>2. CASE (\E s \in Sets : Toggle(s)) \/ Finished \/ UNCHANGED vars
  <2>1. UNCHANGED <<clock, mu, missLog, pc, job, writes, errors, calls, warned>>
    BY <1>2 DEF Toggle, Finished, vars, callVars, metrics
  <2>2. exists' \subseteq Sets
    BY <1>2 DEF Toggle, Finished, vars, TypeOK
  <2>3. TypeOK'
    BY <2>1, <2>2 DEF TypeOK
  <2>4. MutexHeld' /\ TimesPassed' /\ Claimed' /\ Logged' /\ LogSpacing' /\ MissReported'
    BY <2>1 DEF MutexHeld, TimesPassed, Claimed, Recent, Logged, LogSpacing, MissReported, Missed
  <2> QED BY <2>3, <2>4
<1>3. ASSUME NEW w \in Workers, NEW s \in Sets, NEW nilIP \in BOOLEAN, Call(w, s, nilIP) PROVE IInv'
  <2>1. [set |-> s, err |-> IF nilIP THEN NilIP ELSE NoError, now |-> 0] \in Job
    BY DEF Job, Errors
  <2>2. TypeOK'
    <3>1. /\ UNCHANGED <<clock, exists, mu, missLog, writes, errors, warned>>
          /\ job' \in [Workers -> Job]
      BY <1>3, <2>1 DEF Call, TypeOK, metrics
    <3>2. /\ pc' \in [Workers -> {"idle", "netlink", "lock", "check", "store", "log", "count"}]
          /\ \A v \in Workers : pc'[v] \in {"lock", "check", "store", "log"} => v # w /\ pc'[v] = pc[v] /\ job'[v] = job[v]
      BY <1>3 DEF Call, TypeOK
    <3>3. calls' \in 0 .. MaxCalls
      BY <1>3, Basics DEF Call, TypeOK
    <3> QED BY <3>1, <3>2, <3>3 DEF TypeOK
  <2>3. /\ UNCHANGED <<clock, mu, missLog, warned>>
        /\ \A v \in Workers \ {w} : pc'[v] = pc[v] /\ job'[v] = job[v]
        /\ pc[w] \notin Inside /\ pc'[w] \notin Inside
    BY <1>3 DEF Call, TypeOK, Inside
  <2>4. job'[w].now = 0 /\ (pc'[w] = "count" => job'[w].err = NilIP)
    BY <1>3 DEF Call, TypeOK
  <2>5. job'[w].now <= clock /\ (pc'[w] = "count" => ~Missed(w)')
    BY <2>4, Basics DEF Missed, TypeOK
  <2> QED BY <2>2, <2>3, <2>5, OutsideInv
<1>4. ASSUME NEW w \in Workers, NEW err \in Netlink \cup {NoError}, IpsetAdd(w, err) PROVE IInv'
  <2>1. /\ UNCHANGED <<clock, exists, mu, missLog, writes, errors, calls, warned>>
        /\ \A v \in Workers \ {w} : pc'[v] = pc[v] /\ job'[v] = job[v]
        /\ pc[w] = "netlink" /\ pc'[w] \in {"lock", "count"}
        /\ pc'[w] = "lock" => err # NoError
        /\ pc'[w] = "count" => err = NoError \/ ~isMissingSet(err)
    BY <1>4 DEF IpsetAdd, TypeOK, metrics
  <2>2. job' \in [Workers -> Job] /\ job'[w].err = err /\ job'[w].now = job[w].now
    BY <1>4 DEF IpsetAdd, TypeOK, Job, Errors
  <2>3. TypeOK'
    <3>1. pc' \in [Workers -> {"idle", "netlink", "lock", "check", "store", "log", "count"}]
      BY <1>4 DEF IpsetAdd, TypeOK
    <3>2. \A v \in Workers : pc'[v] \in {"lock", "check", "store", "log"} => job'[v].err \in Netlink
      BY <2>1, <2>2 DEF TypeOK
    <3> QED BY <2>1, <2>2, <3>1, <3>2 DEF TypeOK
  <2>4. job'[w].now <= clock /\ (pc'[w] = "count" => ~Missed(w)')
    BY <2>1, <2>2, Basics DEF Missed, TimesPassed
  <2> QED BY <2>1, <2>3, <2>4, OutsideInv DEF Inside
<1>5. ASSUME NEW w \in Workers, Count(w) PROVE IInv'
  <2>1. /\ UNCHANGED <<clock, exists, mu, missLog, calls, warned>>
        /\ \A v \in Workers \ {w} : pc'[v] = pc[v] /\ job'[v] = job[v]
        /\ pc[w] = "count" /\ pc'[w] = "idle" /\ job'[w] = NoJob
    BY <1>5 DEF Count, TypeOK
  <2>2. NoJob \in Job /\ NoJob.now = 0
    BY Basics DEF NoJob, Job
  <2>3. writes' \in Nat /\ errors' \in [Reasons -> Nat]
    BY <1>5 DEF Count, TypeOK, Reason, Reasons
  <2>4. TypeOK'
    <3>1. /\ pc' \in [Workers -> {"idle", "netlink", "lock", "check", "store", "log", "count"}]
          /\ job' \in [Workers -> Job]
      BY <1>5, <2>2 DEF Count, TypeOK
    <3> QED BY <2>1, <2>3, <3>1 DEF TypeOK
  <2>5. job'[w].now <= clock
    BY <2>1, <2>2 DEF TypeOK
  <2> QED BY <2>1, <2>4, <2>5, OutsideInv DEF Inside
<1>6. ASSUME NEW w \in Workers, Lock(w) PROVE IInv'
  <2>1. /\ UNCHANGED <<clock, exists, missLog, job, writes, errors, calls, warned>>
        /\ \A v \in Workers \ {w} : pc'[v] = pc[v]
        /\ mu = NoOne /\ mu' = w /\ pc[w] = "lock" /\ pc'[w] = "check"
    BY <1>6 DEF Lock, TypeOK, metrics
  <2>2. TypeOK'
    <3>1. pc' \in [Workers -> {"idle", "netlink", "lock", "check", "store", "log", "count"}]
      BY <1>6 DEF Lock, TypeOK
    <3> QED BY <2>1, <3>1 DEF TypeOK
  <2>3. \A v \in Workers : pc[v] \notin Inside
    BY <2>1, Basics DEF MutexHeld
  <2>4. MutexHeld'
    BY <2>1, <2>3 DEF MutexHeld, Inside
  <2>5. TimesPassed' /\ Claimed' /\ Logged' /\ LogSpacing' /\ MissReported'
    BY <2>1, <2>3 DEF TimesPassed, Claimed, Logged, LogSpacing, MissReported, Missed, Inside
  <2> QED BY <2>2, <2>4, <2>5
<1>7. ASSUME NEW w \in Workers, Quiet(w) PROVE IInv'
  <2>1. /\ UNCHANGED <<clock, exists, missLog, writes, errors, calls, warned>>
        /\ \A v \in Workers \ {w} : pc'[v] = pc[v] /\ job'[v] = job[v]
        /\ mu' = NoOne /\ pc[w] = "check" /\ pc'[w] = "count"
        /\ Recent(job[w].set, clock)
    BY <1>7 DEF Quiet, TypeOK, metrics
  <2>2. job' \in [Workers -> Job] /\ job'[w].set = job[w].set /\ job'[w].err = job[w].err /\ job'[w].now = clock
    BY <1>7 DEF Quiet, TypeOK, Job
  <2>3. TypeOK'
    <3>1. pc' \in [Workers -> {"idle", "netlink", "lock", "check", "store", "log", "count"}]
      BY <1>7 DEF Quiet, TypeOK
    <3> QED BY <2>1, <2>2, <3>1 DEF TypeOK
  <2>4. \A v \in Workers \ {w} : pc[v] \notin Inside
    BY <2>1 DEF MutexHeld, Inside
  <2>5. MutexHeld'
    BY <2>1, <2>4, Basics DEF MutexHeld, Inside
  <2>6. TimesPassed'
    <3>1. clock <= clock
      BY DEF TypeOK
    <3> QED BY <2>1, <2>2, <3>1 DEF TimesPassed
  <2>7. Claimed' /\ LogSpacing'
    BY <2>1, <2>4 DEF Claimed, LogSpacing, Inside
  <2>8. Logged'
    BY <2>1, <2>4 DEF Logged, Inside
  <2>9. MissReported'
    <3>1. missLog[job[w].set] # Never /\ clock - missLog[job[w].set] < Minute
      BY <2>1 DEF Recent
    <3>2. PICK i \in 1 .. Len(warned) : warned[i].set = job[w].set /\ warned[i].at = missLog[job[w].set]
      BY <1>0, <2>1, <2>4, <3>1 DEF Logged, Inside
    <3>3. missLog[job[w].set] <= clock
      BY <1>0, <3>1 DEF TimesPassed
    <3> QED BY <2>1, <2>2, <3>1, <3>2, <3>3 DEF MissReported, Missed
  <2> QED BY <2>3, <2>5, <2>6, <2>7, <2>8, <2>9
<1>8. ASSUME NEW w \in Workers, Loud(w) PROVE IInv'
  <2>1. /\ UNCHANGED <<clock, exists, mu, missLog, writes, errors, calls, warned>>
        /\ \A v \in Workers \ {w} : pc'[v] = pc[v] /\ job'[v] = job[v]
        /\ pc[w] = "check" /\ pc'[w] = "store"
        /\ ~Recent(job[w].set, clock)
    BY <1>8 DEF Loud, TypeOK, metrics
  <2>2. job' \in [Workers -> Job] /\ job'[w].set = job[w].set /\ job'[w].err = job[w].err /\ job'[w].now = clock
    BY <1>8 DEF Loud, TypeOK, Job
  <2>3. TypeOK'
    <3>1. pc' \in [Workers -> {"idle", "netlink", "lock", "check", "store", "log", "count"}]
      BY <1>8 DEF Loud, TypeOK
    <3>2. \A v \in Workers : pc'[v] \in {"lock", "check", "store", "log"} => job'[v].err \in Netlink
      BY <2>1, <2>2 DEF TypeOK
    <3> QED BY <2>1, <2>2, <3>1, <3>2 DEF TypeOK
  <2>4. MutexHeld'
    BY <2>1 DEF MutexHeld, Inside
  <2>5. TimesPassed'
    <3>1. clock <= clock
      BY DEF TypeOK
    <3> QED BY <2>1, <2>2, <3>1 DEF TimesPassed
  <2>6. Claimed'
    BY <2>1, <2>2 DEF Claimed, Recent
  <2>7. Logged' /\ LogSpacing'
    BY <2>1 DEF Logged, LogSpacing
  <2>8. MissReported'
    BY <2>1 DEF MissReported, Missed
  <2> QED BY <2>3, <2>4, <2>5, <2>6, <2>7, <2>8
<1>9. ASSUME NEW w \in Workers, Store(w) PROVE IInv'
  <2>1. /\ UNCHANGED <<clock, exists, mu, job, writes, errors, calls, warned>>
        /\ \A v \in Workers \ {w} : pc'[v] = pc[v]
        /\ pc[w] = "store" /\ pc'[w] = "log"
        /\ \A s \in Sets : missLog'[s] = IF s = job[w].set THEN job[w].now ELSE missLog[s]
    BY <1>9 DEF Store, TypeOK, metrics
  <2>2. missLog' \in [Sets -> Nat \cup {Never}] /\ missLog'[job[w].set] = job[w].now
    BY <1>0, <1>9 DEF Store, TypeOK
  <2>3. TypeOK'
    <3>1. pc' \in [Workers -> {"idle", "netlink", "lock", "check", "store", "log", "count"}]
      BY <1>9 DEF Store, TypeOK
    <3>2. \A v \in Workers : pc'[v] \in {"lock", "check", "store", "log"} => job'[v].err \in Netlink
      BY <2>1 DEF TypeOK
    <3> QED BY <2>1, <2>2, <3>1, <3>2 DEF TypeOK
  <2>4. \A v \in Workers \ {w} : pc[v] \notin Inside
    BY <2>1 DEF MutexHeld, Inside
  <2>5. MutexHeld' /\ TimesPassed'
    BY <2>1 DEF MutexHeld, TimesPassed, Inside
  <2>6. \A i \in 1 .. Len(warned) : warned[i].set \in Sets /\ warned[i].at \in Nat
    <3>1. \A i \in 1 .. Len(warned) : warned[i] \in Line
      BY DEF TypeOK
    <3> QED BY <3>1 DEF Line
  <2>7. \A s \in Sets : missLog[s] # Never => missLog[s] \in Nat
    BY DEF TypeOK
  <2>8. \A i \in 1 .. Len(warned) : warned[i].set = job[w].set => job[w].now - warned[i].at >= Minute
    <3>1. missLog[job[w].set] = Never \/ ~(job[w].now - missLog[job[w].set] < Minute)
      BY <2>1 DEF Claimed, Recent
    <3>2. ASSUME NEW i \in 1 .. Len(warned), warned[i].set = job[w].set
          PROVE  job[w].now - warned[i].at >= Minute
      <4>1. missLog[job[w].set] # Never /\ warned[i].at <= missLog[job[w].set]
        BY <3>2 DEF Logged
      <4>2. missLog[job[w].set] \in Nat /\ job[w].now \in Nat /\ warned[i].at \in Nat /\ Minute \in Nat
        BY <1>0, <2>6, <2>7, <4>1, Basics
      <4> QED BY <3>1, <4>1, <4>2
    <3> QED BY <3>2
  <2>9. Claimed'
    BY <2>1, <2>2, <2>4, <2>8 DEF Claimed, Inside
  <2>10. Logged'
    <3>1. ASSUME NEW i \in 1 .. Len(warned')
          PROVE  missLog'[warned'[i].set] # Never /\ warned'[i].at <= missLog'[warned'[i].set]
      BY <1>0, <2>1, <2>6, <2>8, Basics DEF Logged
    <3>2. ASSUME NEW s \in Sets, missLog'[s] # Never, s # job[w].set
          PROVE  \E i \in 1 .. Len(warned) : warned[i].set = s /\ warned[i].at = missLog[s]
      BY <2>1, <2>4, <3>2 DEF Logged, Inside
    <3> QED BY <2>1, <2>2, <3>1, <3>2 DEF Logged
  <2>11. LogSpacing' /\ MissReported'
    BY <2>1 DEF LogSpacing, MissReported, Missed
  <2> QED BY <2>3, <2>5, <2>9, <2>10, <2>11
<1>10. ASSUME NEW w \in Workers, Warn(w) PROVE IInv'
  <2> DEFINE line == [set |-> job[w].set, at |-> job[w].now]
  <2>1. /\ UNCHANGED <<clock, exists, missLog, job, writes, errors, calls>>
        /\ \A v \in Workers \ {w} : pc'[v] = pc[v]
        /\ mu' = NoOne /\ pc[w] = "log" /\ pc'[w] = "count"
        /\ warned' = Append(warned, line)
    BY <1>10 DEF Warn, TypeOK, metrics
  <2>2. line \in Line /\ line.set = job[w].set /\ line.at = job[w].now
    BY <1>0 DEF Line
  <2> HIDE DEF line
  <2>3. /\ warned' \in Seq(Line) /\ Len(warned') = Len(warned) + 1 /\ Len(warned) \in Nat
        /\ warned'[Len(warned) + 1] = line
        /\ \A i \in 1 .. Len(warned) : warned'[i] = warned[i]
    BY <2>1, <2>2 DEF TypeOK
  <2>4. TypeOK'
    <3>1. pc' \in [Workers -> {"idle", "netlink", "lock", "check", "store", "log", "count"}]
      BY <1>10 DEF Warn, TypeOK
    <3>2. \A v \in Workers : pc'[v] \in {"lock", "check", "store", "log"} => job'[v].err \in Netlink
      BY <2>1 DEF TypeOK
    <3> QED BY <2>1, <2>3, <3>1, <3>2 DEF TypeOK
  <2>5. \A v \in Workers \ {w} : pc[v] \notin Inside
    BY <2>1 DEF MutexHeld, Inside
  <2>6. MutexHeld' /\ TimesPassed' /\ Claimed'
    BY <2>1, <2>5, Basics DEF MutexHeld, TimesPassed, Claimed, Inside
  <2>7. \A i \in 1 .. Len(warned') : i \in 1 .. Len(warned) \/ i = Len(warned) + 1
    BY <2>3
  <2>8. Logged'
    <3>1. missLog[job[w].set] = job[w].now /\ job[w].now \in Nat /\ job[w].now # Never
      BY <1>0, <2>1, Basics DEF Claimed
    <3>2. ASSUME NEW i \in 1 .. Len(warned')
          PROVE  missLog'[warned'[i].set] # Never /\ warned'[i].at <= missLog'[warned'[i].set]
      BY <2>1, <2>2, <2>3, <2>7, <3>1 DEF Logged
    <3>3. ASSUME NEW s \in Sets, missLog[s] # Never
          PROVE  \E i \in 1 .. Len(warned') : warned'[i].set = s /\ warned'[i].at = missLog[s]
      <4>1. CASE s = job[w].set
        BY <2>2, <2>3, <3>1, <4>1
      <4>2. CASE s # job[w].set
        <5>1. PICK i \in 1 .. Len(warned) : warned[i].set = s /\ warned[i].at = missLog[s]
          BY <2>1, <2>5, <3>3, <4>2 DEF Logged, Inside
        <5> QED BY <2>3, <5>1
      <4> QED BY <4>1, <4>2
    <3> QED BY <2>1, <3>2, <3>3 DEF Logged
  <2>9. LogSpacing'
    <3>1. \A i \in 1 .. Len(warned) : warned[i].set = job[w].set => job[w].now - warned[i].at >= Minute
      BY <2>1 DEF Claimed
    <3>2. ASSUME NEW i \in 1 .. Len(warned'), NEW j \in 1 .. Len(warned'), i < j, warned'[i].set = warned'[j].set
          PROVE  warned'[j].at - warned'[i].at >= Minute
      <4>1. CASE j \in 1 .. Len(warned)
        <5>1. i \in 1 .. Len(warned)
          BY <3>2, <4>1, <2>3
        <5> QED BY <2>3, <3>2, <4>1, <5>1 DEF LogSpacing
      <4>2. CASE j = Len(warned) + 1
        <5>1. i \in 1 .. Len(warned)
          BY <3>2, <4>2, <2>3
        <5> QED BY <2>2, <2>3, <3>1, <3>2, <4>2, <5>1
      <4> QED BY <2>7, <4>1, <4>2
    <3> QED BY <3>2 DEF LogSpacing
  <2>10. MissReported'
    <3>1. ASSUME NEW v \in Workers, v # w, pc'[v] = "count", Missed(v)'
          PROVE  \E i \in 1 .. Len(warned') :
                   /\ warned'[i].set = job'[v].set
                   /\ warned'[i].at <= job'[v].now /\ job'[v].now - warned'[i].at < Minute
      <4>1. pc[v] = "count" /\ Missed(v)
        BY <2>1, <3>1 DEF Missed
      <4>2. PICK i \in 1 .. Len(warned) :
              /\ warned[i].set = job[v].set
              /\ warned[i].at <= job[v].now /\ job[v].now - warned[i].at < Minute
        BY <4>1 DEF MissReported
      <4> QED BY <2>1, <2>3, <4>2
    <3>2. \E i \in 1 .. Len(warned') :
            /\ warned'[i].set = job'[w].set
            /\ warned'[i].at <= job'[w].now /\ job'[w].now - warned'[i].at < Minute
      BY <1>0, <2>1, <2>2, <2>3, Basics
    <3> QED BY <3>1, <3>2 DEF MissReported
  <2> QED BY <2>4, <2>6, <2>8, <2>9, <2>10
<1>11. ASSUME NEW w \in Workers, Worker(w) PROVE IInv'
  BY <1>4, <1>5, <1>6, <1>7, <1>8, <1>9, <1>10, <1>11 DEF Worker
<1> QED BY <1>1, <1>2, <1>3, <1>11 DEF Next

(* The state of the client and the counters keep their types, and an error *)
(* reaches the limiter only from netlink.                                  *)
THEOREM TypeCorrect == Safety => []TypeOK
BY InitInv, NextInv, PTL DEF Safety, IInv

(* However many workers meet a missing set at once, rateLimitedMissLog     *)
(* writes at most one line per set and minute.                             *)
THEOREM LogAlwaysSpaced == Safety => []LogSpacing
BY InitInv, NextInv, PTL DEF Safety, IInv

(* No worker leaves Add with the error of a missing set before a line for  *)
(* this minute has been written.                                           *)
THEOREM MissAlwaysReported == Safety => []MissReported
BY InitInv, NextInv, PTL DEF Safety, IInv

----------------------------------------------------------------------------
(* Counting.                                                               *)

\* The workers that have missed a set and not counted it yet.
Waiting == {w \in Workers : pc[w] = "count" /\ Missed(w)}

(* Only a worker that missed its set is on the path to the log.            *)
Certain == \A w \in Workers : pc[w] \in {"lock", "check", "store", "log"} => Missed(w)

LEMMA WorkersFinite ==
  ASSUME NEW S \in SUBSET Workers
  PROVE  IsFiniteSet(S) /\ Cardinality(S) \in Nat
<1>1. IsFiniteSet(S)
  BY FS_Subset, Basics
<1> QED BY <1>1, FS_CardinalityType

(* A worker joins or leaves a set of workers.                              *)
LEMMA JoinLeave ==
  ASSUME NEW S \in SUBSET Workers, NEW w \in Workers
  PROVE  /\ w \notin S => Cardinality(S \cup {w}) = Cardinality(S) + 1
         /\ w \in S => Cardinality(S \ {w}) = Cardinality(S) - 1
         /\ Cardinality(S) \in Nat
<1>1. IsFiniteSet(S) /\ Cardinality(S) \in Nat
  BY WorkersFinite
<1>2. Cardinality(S \cup {w}) = IF w \in S THEN Cardinality(S) ELSE Cardinality(S) + 1
  BY <1>1, FS_AddElement, Zenon
<1>3. Cardinality(S \ {w}) = IF w \in S THEN Cardinality(S) - 1 ELSE Cardinality(S)
  BY <1>1, FS_RemoveElement, Zenon
<1> QED BY <1>1, <1>2, <1>3

(* The error of a missing set is counted as one, although the counter      *)
(* looks at another text than the log.                                     *)
LEMMA CountedAsMissing ==
  ASSUME NEW w \in Workers, Missed(w)
  PROVE  job[w].err # NoError /\ Reason(job[w].set, job[w].err) = "missing"
<1>1. job[w].err \in Netlink /\ isMissingSet(job[w].err)
  BY DEF Missed
<1>2. job[w].err # NilIP /\ job[w].err # NoError
  BY <1>1, Basics
<1>3. "missing" \in Returned(job[w].set, job[w].err)
  BY <1>1, <1>2 DEF Returned
<1>4. isMissingErr(job[w].set, job[w].err)
  <2>1. \A S, T, x : x \in S /\ x \in T => S \cap T # {}
    OBVIOUS
  <2>2. "missing" \in {"missing", "does not exist"}
    BY Zenon
  <2> QED BY <1>3, <2>1, <2>2, Zenon DEF isMissingErr
<1> QED BY <1>2, <1>4 DEF Reason

LEMMA SameMiss == \A err : isMissingSet(err)' <=> isMissingSet(err)
BY Zenon DEF isMissingSet

(* The sums that the count is about.                                       *)
LEMMA Sums ==
  ASSUME NEW c \in Nat, NEW ok \in Nat, NEW m \in Nat, NEW o \in Nat, NEW f \in Nat, c = ok + m + o + f
  PROVE  /\ c + 1 = ok + m + o + (f + 1)
         /\ c = (ok + 1) + m + o + (f - 1)
         /\ c = ok + (m + 1) + o + (f - 1)
         /\ c = ok + m + (o + 1) + (f - 1)
OBVIOUS

LEMMA Bounds ==
  ASSUME NEW l \in Nat, NEW m \in Nat, NEW f \in Nat, l <= m + f
  PROVE  /\ l + 1 <= m + (f + 1)
         /\ l <= (m + 1) + (f - 1)
         /\ l <= (m + 1) + f
         /\ l <= m + (f + 1)
OBVIOUS

\* The state of the count.
CountOK == TypeOK /\ Certain /\ Accounted

LEMMA CountInit == Init => CountOK
<1> SUFFICES ASSUME Init PROVE CountOK
  OBVIOUS
<1>1. TypeOK
  BY InitInv DEF IInv
<1>2. Certain /\ InFlight = {} /\ Waiting = {}
  BY DEF Init, Certain, InFlight, Waiting
<1>3. Cardinality(InFlight) = 0 /\ Cardinality(Waiting) = 0
  BY <1>2, FS_EmptySet
<1>4. calls = 0 /\ writes = 0 /\ errors["missing"] = 0 /\ errors["other"] = 0 /\ Len(warned) = 0
  BY DEF Init, Reasons
<1> QED BY <1>1, <1>2, <1>3, <1>4 DEF CountOK, Accounted, Waiting

(* The numbers the count is about.                                         *)
LEMMA Numbers ==
  ASSUME TypeOK
  PROVE  /\ calls \in Nat /\ writes \in Nat /\ errors["missing"] \in Nat /\ errors["other"] \in Nat
         /\ Len(warned) \in Nat
         /\ InFlight \in SUBSET Workers /\ Waiting \in SUBSET Workers
         /\ Cardinality(InFlight) \in Nat /\ Cardinality(Waiting) \in Nat
<1>1. InFlight \in SUBSET Workers /\ Waiting \in SUBSET Workers
  BY DEF InFlight, Waiting
<1>2. Cardinality(InFlight) \in Nat /\ Cardinality(Waiting) \in Nat
  BY <1>1, WorkersFinite
<1>3. calls \in 0 .. MaxCalls /\ MaxCalls \in Nat /\ errors \in [Reasons -> Nat] /\ warned \in Seq(Line)
  BY Basics DEF TypeOK
<1> QED BY <1>1, <1>2, <1>3 DEF TypeOK, Reasons

(* A worker moves on inside Add, without logging.                          *)
LEMMA CountMoves ==
  ASSUME CountOK, TypeOK', NEW w \in Workers, UNCHANGED <<writes, errors, calls, warned>>,
         \A v \in Workers \ {w} : pc'[v] = pc[v] /\ job'[v] = job[v],
         pc[w] \notin {"idle", "count"}, pc'[w] # "idle",
         pc'[w] \in {"lock", "check", "store", "log"} => Missed(w)'
  PROVE  CountOK'
<1>1. \A v \in Workers \ {w} : Missed(v)' <=> Missed(v)
  BY DEF Missed
<1>2. Certain'
  BY <1>1 DEF CountOK, Certain
<1>3. InFlight' = InFlight
  BY DEF InFlight
<1>4. Waiting' = Waiting \/ Waiting' = Waiting \cup {w}
  BY <1>1 DEF Waiting
<1>5. w \notin Waiting
  BY DEF Waiting
<1>6. Cardinality(Waiting') = Cardinality(Waiting) \/ Cardinality(Waiting') = Cardinality(Waiting) + 1
  <2>1. Waiting \in SUBSET Workers
    BY Numbers DEF CountOK
  <2>2. Cardinality(Waiting \cup {w}) = Cardinality(Waiting) + 1
    BY <1>5, <2>1, JoinLeave
  <2> QED BY <1>4, <2>2
<1>7. Accounted'
  <2>1. /\ calls = writes + errors["missing"] + errors["other"] + Cardinality(InFlight)
        /\ Len(warned) <= errors["missing"] + Cardinality(Waiting)
    BY DEF CountOK, Accounted, Waiting
  <2>2. Len(warned) \in Nat /\ errors["missing"] \in Nat /\ Cardinality(Waiting) \in Nat
    BY Numbers DEF CountOK
  <2>3. Len(warned) <= errors["missing"] + Cardinality(Waiting')
    <3>1. Len(warned) <= errors["missing"] + (Cardinality(Waiting) + 1)
      BY <2>1, <2>2, Bounds
    <3> QED BY <1>6, <2>1, <3>1
  <2> QED BY <1>3, <2>1, <2>3 DEF Accounted, Waiting
<1> QED BY <1>2, <1>7 DEF CountOK

LEMMA CountNext == IInv /\ IInv' /\ CountOK /\ [Next]_vars => CountOK'
<1> SUFFICES ASSUME IInv, IInv', CountOK, [Next]_vars PROVE CountOK'
  OBVIOUS
<1>0. /\ calls \in Nat /\ writes \in Nat /\ errors["missing"] \in Nat /\ errors["other"] \in Nat
      /\ Len(warned) \in Nat
      /\ InFlight \in SUBSET Workers /\ Waiting \in SUBSET Workers
      /\ Cardinality(InFlight) \in Nat /\ Cardinality(Waiting) \in Nat
  BY Numbers DEF CountOK
<1>1. /\ calls = writes + errors["missing"] + errors["other"] + Cardinality(InFlight)
      /\ Len(warned) <= errors["missing"] + Cardinality(Waiting)
  BY DEF CountOK, Accounted, Waiting
<1>2. TypeOK /\ TypeOK'
  BY DEF IInv
<1>3. CASE Tick \/ (\E s \in Sets : Toggle(s)) \/ Finished \/ UNCHANGED vars
  <2>1. UNCHANGED <<pc, job, writes, errors, calls, warned>>
    BY <1>3 DEF Tick, Toggle, Finished, vars, callVars, metrics
  <2> QED BY <1>2, <2>1 DEF CountOK, Certain, Missed, Accounted, InFlight
<1>4. ASSUME NEW w \in Workers, NEW s \in Sets, NEW nilIP \in BOOLEAN, Call(w, s, nilIP) PROVE CountOK'
  <2>1. /\ UNCHANGED <<writes, errors, warned>> /\ calls' = calls + 1
        /\ \A v \in Workers \ {w} : pc'[v] = pc[v] /\ job'[v] = job[v]
        /\ pc[w] = "idle" /\ pc'[w] \in {"netlink", "count"}
        /\ pc'[w] = "count" => job'[w].err = NilIP
    BY <1>2, <1>4 DEF Call, TypeOK, metrics
  <2>2. \A v \in Workers \ {w} : Missed(v)' <=> Missed(v)
    BY <2>1 DEF Missed
  <2>3. pc'[w] = "count" => ~Missed(w)'
    BY <2>1, Basics DEF Missed
  <2>4. Certain'
    BY <2>1, <2>2 DEF CountOK, Certain
  <2>5. InFlight' = InFlight \cup {w} /\ w \notin InFlight
    BY <2>1 DEF InFlight
  <2>6. Waiting' = Waiting
    BY <2>1, <2>2, <2>3 DEF Waiting
  <2>7. Cardinality(InFlight') = Cardinality(InFlight) + 1
    BY <1>0, <2>5, JoinLeave
  <2>8. calls' = writes' + errors'["missing"] + errors'["other"] + Cardinality(InFlight')
    <3>1. calls + 1 = writes + errors["missing"] + errors["other"] + (Cardinality(InFlight) + 1)
      BY <1>0, <1>1, Sums
    <3> QED BY <2>1, <2>7, <3>1
  <2>9. Len(warned') <= errors'["missing"] + Cardinality(Waiting')
    BY <1>1, <2>1, <2>6
  <2> QED BY <1>2, <2>4, <2>8, <2>9 DEF CountOK, Accounted, Waiting
<1>5. ASSUME NEW w \in Workers, NEW err \in Netlink \cup {NoError}, IpsetAdd(w, err) PROVE CountOK'
  <2>1. /\ UNCHANGED <<writes, errors, calls, warned>>
        /\ \A v \in Workers \ {w} : pc'[v] = pc[v] /\ job'[v] = job[v]
        /\ pc[w] = "netlink" /\ pc'[w] \in {"lock", "count"} /\ job'[w].err = err
        /\ pc'[w] = "lock" => err # NoError /\ isMissingSet(err)
    BY <1>2, <1>5 DEF IpsetAdd, TypeOK, Job, metrics
  <2>2. pc'[w] = "lock" => Missed(w)'
    BY <2>1, SameMiss DEF Missed
  <2> QED BY <1>2, <2>1, <2>2, CountMoves
<1>6. ASSUME NEW w \in Workers, Lock(w) \/ Quiet(w) \/ Loud(w) \/ Store(w) PROVE CountOK'
  <2>1. /\ UNCHANGED <<writes, errors, calls, warned>>
        /\ \A v \in Workers \ {w} : pc'[v] = pc[v] /\ job'[v] = job[v]
        /\ pc[w] \in {"lock", "check", "store"} /\ pc'[w] \in {"check", "store", "log", "count"}
        /\ job'[w].err = job[w].err
    BY <1>2, <1>6 DEF Lock, Quiet, Loud, Store, TypeOK, Job, metrics
  <2>2. Missed(w)'
    BY <2>1 DEF CountOK, Certain, Missed
  <2> QED BY <1>2, <2>1, <2>2, CountMoves
<1>7. ASSUME NEW w \in Workers, Warn(w) PROVE CountOK'
  <2>1. /\ UNCHANGED <<job, writes, errors, calls>>
        /\ \A v \in Workers \ {w} : pc'[v] = pc[v]
        /\ pc[w] = "log" /\ pc'[w] = "count"
        /\ Len(warned') = Len(warned) + 1
    BY <1>2, <1>7 DEF Warn, TypeOK, metrics
  <2>2. \A v \in Workers : Missed(v)' <=> Missed(v)
    BY <2>1 DEF Missed
  <2>3. Missed(w)
    BY <2>1 DEF CountOK, Certain
  <2>4. Certain'
    BY <2>1, <2>2 DEF CountOK, Certain
  <2>5. InFlight' = InFlight
    BY <2>1 DEF InFlight
  <2>6. Waiting' = Waiting \cup {w} /\ w \notin Waiting
    BY <2>1, <2>2, <2>3 DEF Waiting
  <2>7. Cardinality(Waiting') = Cardinality(Waiting) + 1
    BY <1>0, <2>6, JoinLeave
  <2>8. Len(warned') <= errors'["missing"] + Cardinality(Waiting')
    <3>1. Len(warned) + 1 <= errors["missing"] + (Cardinality(Waiting) + 1)
      BY <1>0, <1>1, Bounds
    <3> QED BY <2>1, <2>7, <3>1
  <2> QED BY <1>1, <1>2, <2>1, <2>4, <2>5, <2>8 DEF CountOK, Accounted, Waiting
<1>8. ASSUME NEW w \in Workers, Count(w) PROVE CountOK'
  <2>1. /\ UNCHANGED <<calls, warned>>
        /\ \A v \in Workers \ {w} : pc'[v] = pc[v] /\ job'[v] = job[v]
        /\ pc[w] = "count" /\ pc'[w] = "idle"
    BY <1>2, <1>8 DEF Count, TypeOK
  <2>2. \A v \in Workers \ {w} : Missed(v)' <=> Missed(v)
    BY <2>1 DEF Missed
  <2>3. Certain'
    BY <2>1, <2>2 DEF CountOK, Certain
  <2>4. InFlight' = InFlight \ {w} /\ w \in InFlight
    BY <2>1 DEF InFlight
  <2>5. Cardinality(InFlight') = Cardinality(InFlight) - 1
    BY <1>0, <2>4, JoinLeave
  <2>6. \/ /\ job[w].err = NoError /\ writes' = writes + 1
           /\ errors'["missing"] = errors["missing"] /\ errors'["other"] = errors["other"]
        \/ /\ writes' = writes /\ Reason(job[w].set, job[w].err) = "missing"
           /\ errors'["missing"] = errors["missing"] + 1 /\ errors'["other"] = errors["other"]
        \/ /\ writes' = writes /\ Reason(job[w].set, job[w].err) = "other"
           /\ errors'["missing"] = errors["missing"] /\ errors'["other"] = errors["other"] + 1
    <3>1. Reason(job[w].set, job[w].err) \in {"missing", "other"}
      BY DEF Reason
    <3>2. errors \in [Reasons -> Nat]
      BY <1>2 DEF TypeOK
    <3> QED BY <1>8, <3>1, <3>2 DEF Count, Reasons
  <2>7. calls' = writes' + errors'["missing"] + errors'["other"] + Cardinality(InFlight')
    <3> DEFINE ok == writes
               m  == errors["missing"]
               o  == errors["other"]
               f  == Cardinality(InFlight)
    <3>0. calls \in Nat /\ ok \in Nat /\ m \in Nat /\ o \in Nat /\ f \in Nat /\ calls = ok + m + o + f
      BY <1>0, <1>1
    <3>1. /\ calls = (ok + 1) + m + o + (f - 1)
          /\ calls = ok + (m + 1) + o + (f - 1)
          /\ calls = ok + m + (o + 1) + (f - 1)
      <4> HIDE DEF ok, m, o, f
      <4> QED BY <3>0, Sums
    <3>2. calls' = calls
      BY <2>1
    <3> QED BY <2>5, <2>6, <3>1, <3>2
  <2>8. Len(warned') <= errors'["missing"] + Cardinality(Waiting')
    <3>1. CASE Missed(w)
      <4>1. Waiting' = Waiting \ {w} /\ w \in Waiting
        BY <2>1, <2>2, <3>1 DEF Waiting
      <4>2. Cardinality(Waiting') = Cardinality(Waiting) - 1
        BY <1>0, <4>1, JoinLeave
      <4>3. errors'["missing"] = errors["missing"] + 1
        BY <2>6, <3>1, CountedAsMissing
      <4>4. Len(warned) <= (errors["missing"] + 1) + (Cardinality(Waiting) - 1)
        BY <1>0, <1>1, Bounds
      <4> QED BY <2>1, <4>2, <4>3, <4>4
    <3>2. CASE ~Missed(w)
      <4>1. Waiting' = Waiting
        BY <2>1, <2>2, <3>2 DEF Waiting
      <4>2. errors'["missing"] = errors["missing"] \/ errors'["missing"] = errors["missing"] + 1
        BY <2>6
      <4>3. Len(warned) <= (errors["missing"] + 1) + Cardinality(Waiting)
        BY <1>0, <1>1, Bounds
      <4> QED BY <1>1, <2>1, <4>1, <4>2, <4>3
    <3> QED BY <3>1, <3>2
  <2> QED BY <1>2, <2>3, <2>7, <2>8 DEF CountOK, Accounted, Waiting
<1>9. ASSUME NEW w \in Workers, Worker(w) PROVE CountOK'
  BY <1>5, <1>6, <1>7, <1>8, <1>9 DEF Worker
<1> QED BY <1>3, <1>4, <1>9 DEF Next

(* Every call of Add ends in one counter, and every line about a missing   *)
(* set in the counter for missing sets.                                    *)
THEOREM AlwaysAccounted == Safety => []Accounted
<1>1. CountOK => Accounted
  BY DEF CountOK
<1> QED BY <1>1, InitInv, NextInv, CountInit, CountNext, PTL DEF Safety
=============================================================================
