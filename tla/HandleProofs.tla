---------------------------- MODULE HandleProofs ----------------------------
(***************************************************************************)
(* Proofs about the handling of one message, for every message with any    *)
(* number of answers, every rule set and every value of the TTL flags.     *)
(***************************************************************************)
EXTENDS Handle, SequenceTheorems, TLAPS

(* What the assumptions say of the constants one by one.                   *)
LEMMA Basics ==
  /\ Root \in Names /\ Normal \in [Names -> Names] /\ TTLs \subseteq Nat
  /\ NoRule \notin Rules /\ Match \in [Names -> Rules \cup {NoRule}]
  /\ NoSet \notin Sets /\ \A r \in Rules, f \in {4, 6} : SetOf[r][f] \in Sets \cup {NoSet}
  /\ \A f \in Flags : f.ttlMin \in Nat /\ f.ttlMax \in Nat
  /\ \A m \in Messages : m.answer \in Seq(RR) /\ m.question \in Seq(Names)
BY HandleAssumption DEF Message

(* What an answer holds, by its type.                                      *)
LEMMA Answers ==
  ASSUME NEW rr \in RR
  PROVE  /\ rr.owner \in Names
         /\ rr.type \in {"A", "AAAA"} => rr.ip \in IPs /\ rr.ttl \in TTLs
         /\ rr.type = "CNAME" => rr.target \in Names
BY DEF RR

(* An address answer makes a record.                                       *)
LEMMA AddrTyped ==
  ASSUME NEW rr \in RR, rr.type \in {"A", "AAAA"}
  PROVE  /\ Addr(rr) \in Record
         /\ Addr(rr).name = Normal[rr.owner] /\ Addr(rr).family = Family(rr.type)
         /\ Addr(rr).ip = rr.ip /\ Addr(rr).ttl = rr.ttl
<1>1. Family(rr.type) \in {4, 6}
  BY DEF Family
<1>2. Normal[rr.owner] \in Names
  BY Answers, Basics
<1> QED BY <1>1, <1>2, Answers DEF Addr, Record

----------------------------------------------------------------------------
(* TTLs.                                                                   *)

InRange(t) ==
  \E lo, hi \in {flags.ttlMin, flags.ttlMax} :
    /\ {lo, hi} = {flags.ttlMin, flags.ttlMax} /\ lo <= hi
    /\ t \in lo \div 1000 .. hi \div 1000

(* Cutting to seconds keeps the order.                                     *)
LEMMA Seconds ==
  ASSUME NEW x \in Nat, NEW y \in Nat, x <= y
  PROVE  x \div 1000 \in Nat /\ x \div 1000 <= y \div 1000
OBVIOUS

(* The clamped TTL lies between the flags, whichever is the greater.       *)
LEMMA TimeoutBetween ==
  ASSUME flags \in Flags, NEW ttl \in Nat
  PROVE  Timeout(ttl) \in Nat /\ InRange(Timeout(ttl))
<1> DEFINE min == flags.ttlMin
           max == flags.ttlMax
           v == ClampTTL(1000 * ttl)
<1>1. min \in Nat /\ max \in Nat
  BY Basics
<1>2. \/ min <= max /\ v \in Nat /\ min <= v /\ v <= max
      \/ max <= min /\ v \in Nat /\ max <= v /\ v <= min
  BY <1>1 DEF ClampTTL
<1> HIDE DEF v
<1>3. Timeout(ttl) = v \div 1000
  BY DEF Timeout, v
<1>4. CASE min <= max /\ v \in Nat /\ min <= v /\ v <= max
  <2>1. v \div 1000 \in Nat /\ v \div 1000 \in min \div 1000 .. max \div 1000
    BY <1>1, <1>4, Seconds
  <2> QED BY <1>3, <1>4, <2>1 DEF InRange
<1>5. CASE max <= min /\ v \in Nat /\ max <= v /\ v <= min
  <2>1. v \div 1000 \in Nat /\ v \div 1000 \in max \div 1000 .. min \div 1000
    BY <1>1, <1>5, Seconds
  <2> QED BY <1>3, <1>5, <2>1 DEF InRange
<1> QED BY <1>2, <1>4, <1>5

----------------------------------------------------------------------------
(* Types.                                                                  *)

(* There are no more addresses than answers looked at, and no name is done *)
(* before the message is parsed; records are gone through for a name that  *)
(* a rule matches.                                                         *)
Short ==
  /\ Len(addrs) <= Len(msg.answer)
  /\ pc \in {"parse", "first"} => Len(addrs) <= i
  /\ pc \in {"parse", "first", "second", "mirror"} => k = 0
  /\ pc = "records" => k < Len(names) /\ Match[names[k + 1]] # NoRule

TypeInv == TypeOK /\ Short

(* Initially nothing has been looked at.                                   *)
LEMMA TypeInit == Init => TypeInv
<1> SUFFICES ASSUME Init PROVE TypeInv
  OBVIOUS
<1>1. flags \in Flags /\ msg \in Messages /\ msg.answer \in Seq(RR)
  BY Basics DEF Init
<1>2. Len(msg.answer) \in Nat
  BY <1>1
<1>3. Ranged = msg.answer
  BY DEF Init, Ranged
<1>4. Len(addrs) = 0 /\ Len(names) = 0
  BY DEF Init
<1>5. addrs \in Seq(Record) /\ records \in Seq(Record) /\ names \in Seq(Names)
  BY DEF Init
<1> HIDE DEF Ranged
<1>6. i \in 0 .. Len(Ranged) /\ k \in 0 .. Len(names)
  BY <1>2, <1>3, <1>4 DEF Init
<1>7. TypeOK
  BY <1>1, <1>5, <1>6, Basics DEF Init, TypeOK
<1> QED BY <1>2, <1>4, <1>7 DEF TypeInv, Short, Init

(* What the types say of the lengths.                                      *)
LEMMA Lengths ==
  ASSUME TypeInv
  PROVE  /\ msg.answer \in Seq(RR) /\ Len(msg.answer) \in Nat
         /\ Len(addrs) \in Nat /\ Len(records) \in Nat /\ Len(names) \in Nat
         /\ i \in Nat /\ k \in Nat
         /\ pc \in {"parse", "first", "second", "dropped"} => i <= Len(msg.answer)
         /\ pc = "mirror" => i <= Len(addrs)
         /\ pc \in {"unique", "names", "records", "dispatched"} => i <= Len(records)
<1>1. msg.answer \in Seq(RR) /\ addrs \in Seq(Record) /\ records \in Seq(Record) /\ names \in Seq(Names)
  BY Basics DEF TypeInv, TypeOK
<1>2. /\ Len(msg.answer) \in Nat /\ Len(addrs) \in Nat /\ Len(records) \in Nat /\ Len(names) \in Nat
  BY <1>1
<1>3. i \in 0 .. Len(Ranged) /\ k \in 0 .. Len(names)
  BY DEF TypeInv, TypeOK
<1>4. CASE pc \in {"parse", "first", "second", "dropped"}
  <2>1. Ranged = msg.answer
    BY <1>4 DEF Ranged
  <2> QED BY <1>1, <1>2, <1>3, <1>4, <2>1
<1>5. CASE pc = "mirror"
  <2>1. Ranged = addrs
    BY <1>5 DEF Ranged
  <2> QED BY <1>1, <1>2, <1>3, <1>5, <2>1
<1>6. CASE pc \in {"unique", "names", "records", "dispatched"}
  <2>1. Ranged = records
    BY <1>6 DEF Ranged
  <2> QED BY <1>1, <1>2, <1>3, <1>6, <2>1
<1> QED BY <1>4, <1>5, <1>6 DEF TypeInv, TypeOK

(* The same, the other way round.                                          *)
LEMMA Bounded ==
  ASSUME i' \in Nat,
         \/ pc' \in {"parse", "first", "second", "dropped"} /\ i' <= Len(msg'.answer) /\ Len(msg'.answer) \in Nat
         \/ pc' = "mirror" /\ i' <= Len(addrs') /\ Len(addrs') \in Nat
         \/ pc' \in {"unique", "names", "records", "dispatched"} /\ i' <= Len(records') /\ Len(records') \in Nat
  PROVE  i' \in 0 .. Len(Ranged')
<1>1. CASE pc' \in {"parse", "first", "second", "dropped"} /\ i' <= Len(msg'.answer) /\ Len(msg'.answer) \in Nat
  <2>1. Ranged' = msg'.answer
    BY <1>1 DEF Ranged
  <2> QED BY <1>1, <2>1
<1>2. CASE pc' = "mirror" /\ i' <= Len(addrs') /\ Len(addrs') \in Nat
  <2>1. Ranged' = addrs'
    BY <1>2 DEF Ranged
  <2> QED BY <1>2, <2>1
<1>3. CASE pc' \in {"unique", "names", "records", "dispatched"} /\ i' <= Len(records') /\ Len(records') \in Nat
  <2>1. Ranged' = records'
    BY <1>3 DEF Ranged
  <2> QED BY <1>3, <2>1
<1> QED BY <1>1, <1>2, <1>3

(* The passes of the parser.                                               *)
LEMMA TypeParse ==
  ASSUME TypeInv,
         \/ Reject \/ ReadQuestion \/ Collect \/ EndFirstPass
         \/ (\E o \in Names : Mirror(o)) \/ MirrorAddr \/ EndMirror \/ EndParse
  PROVE  TypeInv'
<1> USE DEF TypeInv, parseVars, addVars
<1>0. /\ msg.answer \in Seq(RR) /\ Len(msg.answer) \in Nat
      /\ Len(addrs) \in Nat /\ Len(records) \in Nat /\ Len(names) \in Nat
      /\ i \in Nat /\ k \in Nat
      /\ pc \in {"parse", "first", "second", "dropped"} => i <= Len(msg.answer)
      /\ pc = "mirror" => i <= Len(addrs)
  BY Lengths
<1>1. CASE Reject
  <2>1. i' \in 0 .. Len(Ranged')
    BY <1>0, <1>1, Bounded DEF Reject
  <2> QED BY <1>1, <2>1 DEF Reject, TypeOK, Short
<1>2. CASE ReadQuestion
  <2>1. i' \in 0 .. Len(Ranged')
    BY <1>0, <1>2, Bounded DEF ReadQuestion
  <2>2. qname' \in Names
    <3>1. CASE msg.question # <<>>
      <4>1. msg.question \in Seq(Names)
        BY Basics DEF TypeOK
      <4>2. msg.question[1] \in Names
        BY <3>1, <4>1
      <4> QED BY <1>2, <3>1, <4>2, Basics DEF ReadQuestion
    <3>2. CASE msg.question = <<>>
      BY <1>2, <3>2, Basics DEF ReadQuestion
    <3> QED BY <3>1, <3>2
  <2> QED BY <1>2, <2>1, <2>2 DEF ReadQuestion, TypeOK, Short
<1>3. CASE Collect
  <2> DEFINE rr == msg.answer[i + 1]
             o  == Normal[rr.owner]
  <2>1. pc = "first" /\ pc' = pc /\ i' = i + 1 /\ i' <= Len(msg.answer) /\ UNCHANGED <<msg, records>>
    BY <1>0, <1>3 DEF Collect
  <2>2. i' \in 0 .. Len(Ranged')
    BY <1>0, <2>1, Bounded
  <2>3. rr \in RR
    BY <1>0, <2>1
  <2>4. /\ addrs' = IF rr.type \in {"A", "AAAA"} THEN Append(addrs, Addr(rr)) ELSE addrs
        /\ cnames' = IF rr.type = "CNAME"
                     THEN [x \in DOMAIN cnames \cup {o} |-> IF x = o THEN Normal[rr.target] ELSE cnames[x]]
                     ELSE cnames
    BY <1>3 DEF Collect
  <2> HIDE DEF rr
  <2>5. addrs' \in Seq(Record) /\ Len(addrs') <= Len(addrs) + 1 /\ Len(addrs') \in Nat
    <3>1. addrs \in Seq(Record)
      BY DEF TypeOK
    <3>2. CASE rr.type \in {"A", "AAAA"}
      BY <1>0, <2>3, <2>4, <3>1, <3>2, AddrTyped
    <3>3. CASE rr.type \notin {"A", "AAAA"}
      BY <1>0, <2>4, <3>1, <3>3
    <3> QED BY <3>2, <3>3
  <2>6. DOMAIN cnames' \subseteq Names /\ \A x \in DOMAIN cnames' : cnames'[x] \in Names
    BY <2>3, <2>4, Answers, Basics DEF TypeOK
  <2>7. DOMAIN cnames \subseteq DOMAIN cnames'
    BY <2>4
  <2>8. Short'
    BY <1>0, <1>3, <2>1, <2>5 DEF Short, Collect
  <2> QED BY <1>3, <2>1, <2>2, <2>5, <2>6, <2>7, <2>8 DEF Collect, TypeOK
<1>4. CASE EndFirstPass
  <2>1. i' \in 0 .. Len(Ranged')
    BY <1>0, <1>4, Bounded DEF EndFirstPass
  <2> QED BY <1>4, <2>1 DEF EndFirstPass, TypeOK, Short
<1>5. ASSUME NEW o \in Names, Mirror(o) PROVE TypeInv'
  <2>1. i' \in 0 .. Len(Ranged')
    BY <1>0, <1>5, Bounded DEF Mirror
  <2> QED BY <1>5, <2>1 DEF Mirror, TypeOK, Short
<1>6. CASE MirrorAddr
  <2> DEFINE rec == addrs[i + 1]
             new == [rec EXCEPT !.name = cnameOwner]
  <2>1. pc = "mirror" /\ pc' = pc /\ i' = i + 1 /\ i' <= Len(addrs) /\ UNCHANGED <<msg, addrs>>
    BY <1>0, <1>6 DEF MirrorAddr
  <2>2. i' \in 0 .. Len(Ranged')
    BY <1>0, <2>1, Bounded
  <2>3. rec \in Record
    BY <1>0, <2>1 DEF TypeOK
  <2>4. new \in Record
    BY <2>3 DEF TypeOK, Record
  <2>5. records' = Append(records, new) \/ records' = records
    BY <1>6 DEF MirrorAddr
  <2> HIDE DEF new
  <2>6. records' \in Seq(Record)
    <3>1. records \in Seq(Record)
      BY DEF TypeOK
    <3> QED BY <2>4, <2>5, <3>1
  <2> QED BY <1>6, <2>1, <2>2, <2>6 DEF MirrorAddr, TypeOK, Short
<1>7. CASE EndMirror
  <2>1. i' \in 0 .. Len(Ranged')
    BY <1>0, <1>7, Bounded DEF EndMirror, Short
  <2> QED BY <1>7, <2>1 DEF EndMirror, TypeOK, Short
<1>8. CASE EndParse
  <2>1. i' = 0 /\ pc' \in {"dropped", "unique"} /\ UNCHANGED <<msg, records, k>>
    BY <1>8 DEF EndParse
  <2>2. i' \in 0 .. Len(Ranged')
    BY <1>0, <2>1, Bounded
  <2>3. names' \in Seq(Names) /\ Len(names') \in Nat /\ k' \in 0 .. Len(names')
    <3>1. names' = names \/ names' = <<qname>>
      BY <1>8 DEF EndParse
    <3>2. CASE names' = names
      BY <2>1, <3>2, <1>0 DEF TypeOK
    <3>3. CASE names' = <<qname>>
      <4>1. qname \in Names /\ k = 0
        BY <1>8 DEF EndParse, TypeOK, Short
      <4>2. <<qname>> \in Seq(Names) /\ Len(<<qname>>) = 1
        BY <4>1
      <4> QED BY <2>1, <3>3, <4>1, <4>2
    <3> QED BY <3>1, <3>2, <3>3
  <2> QED BY <1>8, <2>1, <2>2, <2>3 DEF EndParse, TypeOK, Short
<1> QED BY <1>1, <1>2, <1>3, <1>4, <1>5, <1>6, <1>7, <1>8

(* The loops over names and records.                                       *)
LEMMA TypeDispatch ==
  ASSUME TypeInv,
         \/ UniqueName \/ EndUnique \/ NoMatch \/ Matched \/ SkipFamily \/ EndRecords \/ Dispatched
         \/ UNCHANGED vars
  PROVE  TypeInv'
<1> USE DEF TypeInv, parseVars, addVars
<1>0. /\ Len(addrs) \in Nat /\ Len(records) \in Nat /\ Len(names) \in Nat /\ i \in Nat /\ k \in Nat
      /\ pc \in {"unique", "names", "records", "dispatched"} => i <= Len(records)
      /\ names \in Seq(Names) /\ k \in 0 .. Len(names)
  BY Lengths DEF TypeOK
<1>1. CASE UniqueName
  <2> DEFINE n == records[i + 1].name
  <2>1. i' = i + 1 /\ pc = "unique" /\ pc' = "unique" /\ i + 1 \in 1 .. Len(records) /\ UNCHANGED records
    BY <1>0, <1>1 DEF UniqueName
  <2>2. i' \in 0 .. Len(Ranged')
    BY <1>0, <2>1, Bounded
  <2>3. n \in Names
    <3>1. records[i + 1] \in Record
      BY <2>1 DEF TypeOK
    <3> QED BY <3>1 DEF Record
  <2>4. names' = names \/ names' = Append(names, n)
    BY <1>1 DEF UniqueName
  <2> HIDE DEF n
  <2>5. names' \in Seq(Names) /\ k \in 0 .. Len(names')
    <3>1. CASE names' = names
      BY <1>0, <3>1
    <3>2. CASE names' = Append(names, n)
      <4>1. names' \in Seq(Names) /\ Len(names') = Len(names) + 1
        BY <1>0, <2>3, <3>2
      <4> QED BY <1>0, <4>1
    <3> QED BY <2>4, <3>1, <3>2
  <2> QED BY <1>1, <2>1, <2>2, <2>5 DEF UniqueName, TypeOK, Short
<1>2. CASE EndUnique \/ Dispatched
  <2>1. i' \in 0 .. Len(Ranged')
    BY <1>0, <1>2, Bounded DEF EndUnique, Dispatched
  <2> QED BY <1>2, <2>1 DEF EndUnique, Dispatched, TypeOK, Short
<1>3. CASE Matched
  <2>1. i' \in 0 .. Len(Ranged')
    BY <1>0, <1>3, Bounded DEF Matched
  <2> QED BY <1>3, <2>1 DEF Matched, TypeOK, Short
<1>4. CASE NoMatch \/ EndRecords
  <2>1. i' \in 0 .. Len(Ranged')
    BY <1>0, <1>4, Bounded DEF NoMatch, EndRecords
  <2>2. k' \in 0 .. Len(names)
    <3>1. k < Len(names)
      BY <1>4 DEF NoMatch, EndRecords, Short
    <3> QED BY <1>0, <1>4, <3>1 DEF NoMatch, EndRecords
  <2> QED BY <1>4, <2>1, <2>2 DEF NoMatch, EndRecords, TypeOK, Short
<1>5. CASE SkipFamily
  <2>1. i' \in 0 .. Len(Ranged')
    BY <1>0, <1>5, Bounded DEF SkipFamily
  <2> QED BY <1>5, <2>1 DEF SkipFamily, TypeOK, Short
<1>6. CASE UNCHANGED vars
  <2>1. UNCHANGED Ranged
    BY <1>6 DEF vars, Ranged
  <2> QED BY <1>6, <2>1 DEF vars, TypeOK, Short
<1> QED BY <1>1, <1>2, <1>3, <1>4, <1>5, <1>6

(* Adding an entry.                                                        *)
LEMMA TypeAdd ==
  ASSUME TypeInv, NEW err \in BOOLEAN, Add(err)
  PROVE  TypeInv'
<1> USE DEF TypeInv
<1> DEFINE r   == records[i + 1]
           set == SetOf[rule][r.family]
           e   == <<set, r.ip>>
           t   == Timeout(r.ttl)
<1>0. /\ Len(records) \in Nat /\ i \in Nat /\ i < Len(records) /\ pc = "records"
      /\ records \in Seq(Record)
  BY Lengths DEF TypeOK, Add
<1>1. i' \in 0 .. Len(Ranged')
  BY <1>0, Bounded DEF Add, parseVars
<1>2. r \in Record
  BY <1>0
<1>3. r.ip \in IPs /\ r.ttl \in Nat /\ r.family \in {4, 6}
  BY <1>2, Basics DEF Record
<1>4. t \in Nat
  BY <1>3, TimeoutBetween DEF TypeOK
<1>5. set \in Sets
  <2>1. names[k + 1] \in Names
    <3>1. k \in Nat /\ Len(names) \in Nat /\ k < Len(names) /\ names \in Seq(Names)
      BY <1>0, Lengths DEF Short, TypeOK
    <3> QED BY <3>1
  <2>2. rule \in Rules
    BY <1>0, <2>1, Basics DEF Short, rule
  <2> QED BY <1>3, <2>2, Basics DEF Add
<1>6. /\ tried' = tried \cup {<<set, r.ip, t>>}
      /\ kernel' = IF err THEN kernel
                   ELSE [x \in DOMAIN kernel \cup {e} |-> IF x = e THEN t ELSE kernel[x]]
  BY DEF Add
<1>7. e \in Sets \X IPs /\ <<set, r.ip, t>> \in Sets \X IPs \X Nat
  BY <1>3, <1>4, <1>5
<1> HIDE DEF e, t, set
<1>8. tried' \subseteq Sets \X IPs \X Nat
  BY <1>6, <1>7 DEF TypeOK
<1>9. DOMAIN kernel' \subseteq Sets \X IPs /\ \A x \in DOMAIN kernel' : kernel'[x] \in Nat
  BY <1>4, <1>6, <1>7 DEF TypeOK
<1> QED BY <1>0, <1>1, <1>8, <1>9 DEF Add, TypeOK, Short, parseVars

(* Every step keeps the types.                                             *)
LEMMA TypeNext == TypeInv /\ [Next]_vars => TypeInv'
BY TypeParse, TypeDispatch, TypeAdd DEF Next, Returned

(* The variables of handle stay in their types: no index runs past the     *)
(* sequence it ranges over.                                                *)
THEOREM TypeCorrect == Spec => []TypeOK
BY TypeInit, TypeNext, PTL DEF Spec, TypeInv

(* Every entry of the kernel has a timeout between the flags.              *)
THEOREM AlwaysInRange == Spec => []TimeoutInRange
<1>1. Init => TimeoutInRange
  BY DEF Init, TimeoutInRange
<1>2. TypeInv /\ TimeoutInRange /\ [Next]_vars => TimeoutInRange'
  <2> SUFFICES ASSUME TypeInv, TimeoutInRange, [Next]_vars PROVE TimeoutInRange'
    OBVIOUS
  <2>1. flags' = flags
    BY DEF Next, Reject, ReadQuestion, Collect, EndFirstPass, Mirror, MirrorAddr, EndMirror, EndParse,
           UniqueName, EndUnique, NoMatch, Matched, SkipFamily, Add, EndRecords, Dispatched, Returned, vars
  <2>2. CASE UNCHANGED kernel
    BY <2>1, <2>2 DEF TimeoutInRange
  <2>3. ASSUME NEW err \in BOOLEAN, Add(err) PROVE TimeoutInRange'
    <3> DEFINE r == records[i + 1]
               e == <<SetOf[rule][r.family], r.ip>>
               t == Timeout(r.ttl)
    <3>1. r \in Record
      BY <2>3, Lengths DEF Add, TypeInv, TypeOK
    <3>2. r.ttl \in Nat
      BY <3>1, Basics DEF Record
    <3>3. InRange(t)
      BY <3>2, TimeoutBetween DEF TypeInv, TypeOK
    <3>4. kernel' = IF err THEN kernel
                    ELSE [x \in DOMAIN kernel \cup {e} |-> IF x = e THEN t ELSE kernel[x]]
      BY <2>3 DEF Add
    <3> HIDE DEF e, t
    <3>5. \A x \in DOMAIN kernel' : kernel'[x] = t \/ (x \in DOMAIN kernel /\ kernel'[x] = kernel[x])
      BY <3>4
    <3>6. \A x \in DOMAIN kernel' : InRange(kernel'[x])
      <4>1. \A x \in DOMAIN kernel : InRange(kernel[x])
        BY DEF TimeoutInRange, InRange
      <4> QED BY <3>3, <3>5, <4>1
    <3> QED BY <2>1, <3>6 DEF TimeoutInRange, InRange
  <2>4. (\E err \in BOOLEAN : Add(err)) \/ UNCHANGED kernel
    BY DEF Next, Reject, ReadQuestion, Collect, EndFirstPass, Mirror, MirrorAddr, EndMirror, EndParse,
           UniqueName, EndUnique, NoMatch, Matched, SkipFamily, EndRecords, Dispatched, Returned,
           vars, addVars
  <2> QED BY <2>2, <2>3, <2>4
<1> QED BY <1>1, <1>2, TypeInit, TypeNext, PTL DEF Spec

----------------------------------------------------------------------------
(* What is dispatched.                                                     *)

NamesIn(s) == {r.name : r \in Elements(s)}

Data(r)   == <<r.family, r.ip, r.ttl>>
DataIn(s) == {Data(r) : r \in Elements(s)}

\* The j-th answer is the last of the first n to make owner o an alias.
Last(n, o, j) ==
  /\ msg.answer[j].type = "CNAME" /\ Normal[msg.answer[j].owner] = o
  /\ \A l \in j + 1 .. n : msg.answer[l].type = "CNAME" => Normal[msg.answer[l].owner] # o

AddressesIn(n) == {rr \in {msg.answer[j] : j \in 1 .. n} : rr.type \in {"A", "AAAA"}}

QName == IF msg.question # <<>> THEN Normal[msg.question[1]] ELSE Root

(* The first pass has collected the addresses and aliases of n answers.    *)
Collected(n) ==
  /\ qname = QName
  /\ Elements(addrs) = {Addr(rr) : rr \in AddressesIn(n)}
  /\ \A o \in DOMAIN cnames : \E j \in 1 .. n : Last(n, o, j)
  /\ \A o \in Names, j \in 1 .. n :
       Last(n, o, j) => o \in DOMAIN cnames /\ cnames[o] = Normal[msg.answer[j].target]

\* The aliases with a mirrored record: of the one being visited, addresses up to i.
MirroredNames ==
  {o \in DOMAIN cnames \ pending :
     \E j \in 1 .. (IF pc = "mirror" /\ o = cnameOwner THEN i ELSE Len(addrs)) :
       addrs[j].name = cnames[o]}

(* The second pass adds names to the records, and no data.                 *)
Mirroring ==
  /\ NamesIn(records) = NamesIn(addrs) \cup MirroredNames
  /\ DataIn(records) = DataIn(addrs)
  /\ pc = "mirror" => cnameOwner \notin pending

(* The parser's result: the names and the data of the response.            *)
Parsed ==
  /\ {qname} \cup NamesIn(records) = NamesOf
  /\ DataIn(records) = {<<Family(a.type), a.ip, a.ttl>> : a \in Addresses}

RoutedRecord(n, r) == Match[n] # NoRule /\ SetOf[Match[n]][r.family] # NoSet
OfferOf(n, r)      == <<SetOf[Match[n]][r.family], r.ip, Timeout(r.ttl)>>

\* The loops have been through the q-th record for the p-th name.
Covered(p, q) == p <= k \/ (pc = "records" /\ p = k + 1 /\ q <= i)

(* What has been tried is what the loops have been through.                *)
Offered ==
  /\ \A t \in tried : \E p \in 1 .. Len(names), q \in 1 .. Len(records) :
       Covered(p, q) /\ RoutedRecord(names[p], records[q]) /\ t = OfferOf(names[p], records[q])
  /\ \A p \in 1 .. Len(names), q \in 1 .. Len(records) :
       Covered(p, q) /\ RoutedRecord(names[p], records[q]) => OfferOf(names[p], records[q]) \in tried

DispatchInv ==
  /\ pc \in {"parse", "first", "second", "mirror", "unique"} => tried = {} /\ k = 0
  /\ pc = "parse" => i = 0 /\ addrs = <<>> /\ DOMAIN cnames = {}
  /\ pc = "first" => Collected(i)
  /\ pc \in {"second", "mirror"} => Collected(Len(msg.answer)) /\ Mirroring
  /\ pc \in {"unique", "names", "records", "dispatched"} => Parsed
  /\ pc = "unique" => Elements(names) = {qname} \cup {records[j].name : j \in 1 .. i}
  /\ pc \in {"names", "records", "dispatched"} => Elements(names) = NamesOf /\ Offered
  /\ pc = "dispatched" => k = Len(names)
  /\ pc = "dropped" => tried = {} /\ ~(Usable(msg) /\ Addresses # {})

(* The elements of a sequence, by its length and as it grows.              *)
LEMMA ElementsSeq ==
  ASSUME NEW S, NEW s \in Seq(S)
  PROVE  /\ Elements(s) = {s[j] : j \in 1 .. Len(s)}
         /\ \A x \in S : Elements(Append(s, x)) = Elements(s) \cup {x}
<1>1. Elements(s) = {s[j] : j \in 1 .. Len(s)}
  BY DEF Elements
<1>2. ASSUME NEW x \in S PROVE Elements(Append(s, x)) = Elements(s) \cup {x}
  <2> DEFINE u == Append(s, x)
  <2>1. /\ u \in Seq(S) /\ Len(u) = Len(s) + 1 /\ u[Len(s) + 1] = x /\ Len(s) \in Nat
        /\ \A j \in 1 .. Len(s) : u[j] = s[j]
    OBVIOUS
  <2> HIDE DEF u
  <2>2. Elements(u) = {u[j] : j \in 1 .. Len(u)}
    BY <2>1 DEF Elements
  <2>3. {u[j] : j \in 1 .. Len(u)} = {s[j] : j \in 1 .. Len(s)} \cup {x}
    BY <2>1
  <2> QED BY <1>1, <2>2, <2>3 DEF u
<1> QED BY <1>1, <1>2

(* One more answer: it is the last alias of its owner if it is one.        *)
LEMMA LastNext ==
  ASSUME NEW n \in Nat, NEW o, NEW j \in 1 .. n + 1
  PROVE  /\ msg.answer[n + 1].type = "CNAME" /\ Normal[msg.answer[n + 1].owner] = o
              => (Last(n + 1, o, j) <=> j = n + 1)
         /\ ~(msg.answer[n + 1].type = "CNAME" /\ Normal[msg.answer[n + 1].owner] = o)
              => (Last(n + 1, o, j) <=> j \in 1 .. n /\ Last(n, o, j))
<1>1. CASE j = n + 1
  <2>1. \A l \in j + 1 .. n + 1 : FALSE
    BY <1>1
  <2> QED BY <1>1, <2>1 DEF Last
<1>2. CASE j # n + 1
  <2>1. j \in 1 .. n /\ n + 1 \in j + 1 .. n + 1
    BY <1>2
  <2>2. \A l : l \in j + 1 .. n + 1 <=> l \in j + 1 .. n \/ l = n + 1
    BY <2>1
  <2> QED BY <1>2, <2>1, <2>2 DEF Last
<1> QED BY <1>1, <1>2

(* Reading the question starts the first pass with nothing collected.      *)
LEMMA QuestionExact ==
  ASSUME TypeInv, DispatchInv, Reject \/ ReadQuestion
  PROVE  DispatchInv'
<1>1. CASE Reject
  <2>1. pc = "parse" /\ pc' = "dropped" /\ UNCHANGED <<msg, tried>> /\ ~Usable(msg)
    BY <1>1 DEF Reject, addVars
  <2> QED BY <2>1 DEF DispatchInv, Usable
<1>2. CASE ReadQuestion
  <2>1. /\ pc = "parse" /\ pc' = "first" /\ qname' = QName
        /\ UNCHANGED <<msg, i, addrs, cnames, tried, k>>
    BY <1>2 DEF ReadQuestion, QName, addVars
  <2>2. i = 0 /\ addrs = <<>> /\ DOMAIN cnames = {}
    BY <2>1 DEF DispatchInv
  <2>3. AddressesIn(0) = {} /\ Elements(<<>>) = {} /\ \A j \in 1 .. 0 : FALSE
    <3>1. 1 .. 0 = {}
      OBVIOUS
    <3> QED BY <3>1 DEF AddressesIn, Elements
  <2>4. Collected(i)'
    <3>1. UNCHANGED <<QName, AddressesIn(0)>>
      BY <2>1 DEF QName, AddressesIn
    <3> QED BY <2>1, <2>2, <2>3, <3>1 DEF Collected, AddressesIn
  <2> QED BY <2>1, <2>4 DEF DispatchInv
<1> QED BY <1>1, <1>2

(* One answer is collected.                                                *)
LEMMA CollectExact ==
  ASSUME TypeInv, DispatchInv, Collect
  PROVE  DispatchInv'
<1> DEFINE rr == msg.answer[i + 1]
           own == Normal[rr.owner]
           n == i + 1
<1>1. /\ pc = "first" /\ pc' = "first" /\ i' = n /\ UNCHANGED <<msg, qname, tried, k>>
      /\ addrs' = IF rr.type \in {"A", "AAAA"} THEN Append(addrs, Addr(rr)) ELSE addrs
      /\ cnames' = IF rr.type = "CNAME"
                   THEN [x \in DOMAIN cnames \cup {own} |->
                           IF x = own THEN Normal[rr.target] ELSE cnames[x]]
                   ELSE cnames
  BY DEF Collect, addVars
<1>2. i \in Nat /\ n \in 1 .. Len(msg.answer) /\ rr \in RR /\ addrs \in Seq(Record)
  <2>1. /\ msg \in Messages /\ addrs \in Seq(Record) /\ i < Len(msg.answer)
        /\ i \in Nat /\ Len(msg.answer) \in Nat
    BY Lengths DEF Collect, TypeInv, TypeOK
  <2>2. msg.answer \in Seq(RR) /\ n \in 1 .. Len(msg.answer)
    BY <2>1, Basics
  <2> QED BY <2>1, <2>2
<1>3. own \in Names
  BY <1>2, Answers, Basics
<1>4. Collected(i)
  BY <1>1 DEF DispatchInv
<1>5. /\ QName' = QName /\ \A m : AddressesIn(m)' = AddressesIn(m)
      /\ \A m, o, j : Last(m, o, j)' <=> Last(m, o, j)
  BY <1>1 DEF QName, AddressesIn, Last
<1>6. AddressesIn(n) = IF rr.type \in {"A", "AAAA"} THEN AddressesIn(i) \cup {rr} ELSE AddressesIn(i)
  <2>1. {msg.answer[j] : j \in 1 .. n} = {msg.answer[j] : j \in 1 .. i} \cup {rr}
    BY <1>2
  <2> HIDE DEF rr, n
  <2> QED BY <2>1 DEF AddressesIn
<1> HIDE DEF rr
<1>7. Elements(addrs') = {Addr(a) : a \in AddressesIn(n)}
  <2>1. CASE rr.type \in {"A", "AAAA"}
    <3>1. Addr(rr) \in Record
      BY <1>2, <2>1, AddrTyped
    <3>2. Elements(addrs') = Elements(addrs) \cup {Addr(rr)}
      BY <1>1, <1>2, <2>1, <3>1, ElementsSeq
    <3> QED BY <1>4, <1>6, <2>1, <3>2 DEF Collected
  <2>2. CASE rr.type \notin {"A", "AAAA"}
    BY <1>1, <1>4, <1>6, <2>2 DEF Collected
  <2> QED BY <2>1, <2>2
<1>8. \A o \in Names, j \in 1 .. n :
        /\ rr.type = "CNAME" /\ own = o => (Last(n, o, j) <=> j = n)
        /\ ~(rr.type = "CNAME" /\ own = o) => (Last(n, o, j) <=> j \in 1 .. i /\ Last(i, o, j))
  BY <1>2, LastNext DEF rr
<1>9. n \in 1 .. n /\ \A j \in 1 .. i : j \in 1 .. n
  BY <1>2
<1>10. /\ DOMAIN cnames \subseteq Names
       /\ \A o \in DOMAIN cnames : \E j \in 1 .. i : Last(i, o, j)
       /\ \A o \in Names, j \in 1 .. i :
            Last(i, o, j) => o \in DOMAIN cnames /\ cnames[o] = Normal[msg.answer[j].target]
  BY <1>4 DEF Collected, TypeInv, TypeOK
<1>11. rr = msg.answer[n]
  BY DEF rr
<1> HIDE DEF n, own
<1>12. /\ \A o \in DOMAIN cnames' : \E j \in 1 .. n : Last(n, o, j)
       /\ \A o \in Names, j \in 1 .. n :
            Last(n, o, j) => o \in DOMAIN cnames' /\ cnames'[o] = Normal[msg.answer[j].target]
  <2>1. CASE rr.type = "CNAME"
    <3>1. /\ DOMAIN cnames' = DOMAIN cnames \cup {own} /\ cnames'[own] = Normal[rr.target]
          /\ \A o \in DOMAIN cnames : o # own => cnames'[o] = cnames[o]
      BY <1>1, <2>1
    <3>2. ASSUME NEW o \in DOMAIN cnames' PROVE \E j \in 1 .. n : Last(n, o, j)
      BY <1>3, <1>8, <1>9, <1>10, <2>1, <3>1
    <3>3. ASSUME NEW o \in Names, NEW j \in 1 .. n, Last(n, o, j)
          PROVE  o \in DOMAIN cnames' /\ cnames'[o] = Normal[msg.answer[j].target]
      BY <1>8, <1>10, <1>11, <2>1, <3>1, <3>3
    <3> QED BY <3>2, <3>3
  <2>2. CASE rr.type # "CNAME"
    BY <1>1, <1>8, <1>9, <1>10, <2>2
  <2> QED BY <2>1, <2>2
<1>13. Collected(i)'
  BY <1>1, <1>4, <1>5, <1>7, <1>12 DEF Collected
<1> QED BY <1>1, <1>13 DEF DispatchInv

(* The second pass starts with the addresses.                              *)
LEMMA FirstPassExact ==
  ASSUME TypeInv, DispatchInv, EndFirstPass
  PROVE  DispatchInv'
<1>1. /\ pc = "first" /\ pc' = "second" /\ i = Len(msg.answer) /\ records' = addrs /\ pending' = DOMAIN cnames
      /\ UNCHANGED <<msg, qname, tried, k, addrs, cnames>>
  BY DEF EndFirstPass, addVars
<1>2. Collected(Len(msg.answer))
  BY <1>1 DEF DispatchInv
<1>3. Collected(Len(msg.answer))'
  BY <1>1, <1>2 DEF Collected, QName, AddressesIn, Last
<1>4. MirroredNames' = {}
  BY <1>1 DEF MirroredNames
<1>5. Mirroring'
  BY <1>1, <1>4 DEF Mirroring
<1> QED BY <1>1, <1>3, <1>5 DEF DispatchInv

(* Mirroring adds an owner to the names exactly if an address has its      *)
(* target's name.                                                          *)
LEMMA MirrorExact ==
  ASSUME TypeInv, DispatchInv, (\E o \in Names : Mirror(o)) \/ MirrorAddr \/ EndMirror
  PROVE  DispatchInv'
<1>0. /\ pc \in {"second", "mirror"} /\ pc' \in {"second", "mirror"}
      /\ UNCHANGED <<msg, qname, tried, k, addrs, cnames>>
  BY DEF Mirror, MirrorAddr, EndMirror, parseVars, addVars
<1>1. Collected(Len(msg.answer)) /\ Mirroring
  BY <1>0 DEF DispatchInv
<1>2. Collected(Len(msg.answer))'
  BY <1>0, <1>1 DEF Collected, QName, AddressesIn, Last
<1>3. SUFFICES Mirroring'
  BY <1>0, <1>2, <1>3 DEF DispatchInv
<1>4. /\ Len(addrs) \in Nat /\ i \in Nat /\ (pc = "mirror" => i <= Len(addrs))
      /\ addrs \in Seq(Record) /\ records \in Seq(Record) /\ cnameOwner \in Names
      /\ pending \subseteq DOMAIN cnames /\ (pc = "mirror" => cnameOwner \in DOMAIN cnames)
  BY Lengths DEF TypeInv, TypeOK
<1>5. ASSUME NEW o \in Names, Mirror(o) PROVE Mirroring'
  <2>1. /\ o \in pending /\ cnameOwner' = o /\ pending' = pending \ {o} /\ i' = 0
        /\ pc = "second" /\ pc' = "mirror" /\ records' = records
    BY <1>5 DEF Mirror
  <2>2. \A j \in 1 .. 0 : FALSE
    OBVIOUS
  <2>3. MirroredNames' = MirroredNames
    BY <1>0, <1>4, <2>1, <2>2 DEF MirroredNames
  <2> QED BY <1>0, <1>1, <2>1, <2>3 DEF Mirroring
<1>6. CASE MirrorAddr
  <2> DEFINE rec == addrs[i + 1]
             new == [rec EXCEPT !.name = cnameOwner]
  <2>1. /\ pc = "mirror" /\ pc' = "mirror" /\ i' = i + 1 /\ i + 1 \in 1 .. Len(addrs)
        /\ UNCHANGED <<pending, cnameOwner>>
        /\ records' = IF rec.name = cnames[cnameOwner] THEN Append(records, new) ELSE records
    BY <1>4, <1>6 DEF MirrorAddr
  <2>2. rec \in Record
    BY <1>4, <2>1
  <2>3. new \in Record /\ new.name = cnameOwner /\ Data(new) = Data(rec)
    BY <1>4, <2>2 DEF Record, Data
  <2>4. rec \in Elements(addrs)
    BY <1>4, <2>1, ElementsSeq
  <2>5. cnameOwner \in DOMAIN cnames \ pending
    BY <1>1, <1>4, <2>1 DEF Mirroring
  <2> HIDE DEF new
  <2>6. \A j : j \in 1 .. i + 1 <=> j \in 1 .. i \/ j = i + 1
    BY <1>4
  <2>7. MirroredNames' = IF rec.name = cnames[cnameOwner] THEN MirroredNames \cup {cnameOwner} ELSE MirroredNames
    <3>1. MirroredNames' = {o \in DOMAIN cnames \ pending :
            \E j \in 1 .. (IF o = cnameOwner THEN i + 1 ELSE Len(addrs)) : addrs[j].name = cnames[o]}
      BY <1>0, <2>1 DEF MirroredNames
    <3>2. MirroredNames = {o \in DOMAIN cnames \ pending :
            \E j \in 1 .. (IF o = cnameOwner THEN i ELSE Len(addrs)) : addrs[j].name = cnames[o]}
      BY <2>1 DEF MirroredNames
    <3>3. \A o \in DOMAIN cnames \ pending : o # cnameOwner => (o \in MirroredNames' <=> o \in MirroredNames)
      BY <3>1, <3>2
    <3>4. /\ cnameOwner \in MirroredNames' <=> \E j \in 1 .. i + 1 : addrs[j].name = cnames[cnameOwner]
          /\ cnameOwner \in MirroredNames <=> \E j \in 1 .. i : addrs[j].name = cnames[cnameOwner]
      BY <2>5, <3>1, <3>2
    <3>5. cnameOwner \in MirroredNames' <=> cnameOwner \in MirroredNames \/ rec.name = cnames[cnameOwner]
      BY <2>6, <3>4
    <3>6. MirroredNames \subseteq DOMAIN cnames \ pending /\ MirroredNames' \subseteq DOMAIN cnames \ pending
      BY <3>1, <3>2
    <3> QED BY <2>5, <3>3, <3>5, <3>6
  <2>8. CASE rec.name = cnames[cnameOwner]
    <3>1. Elements(records') = Elements(records) \cup {new}
      BY <1>4, <2>1, <2>3, <2>8, ElementsSeq
    <3>2. NamesIn(records') = NamesIn(records) \cup {cnameOwner}
      BY <2>3, <3>1 DEF NamesIn
    <3>3. DataIn(records') = DataIn(records) \cup {Data(rec)}
      BY <2>3, <3>1 DEF DataIn
    <3>4. Data(rec) \in DataIn(records)
      BY <1>1, <2>4 DEF Mirroring, DataIn
    <3>5. NamesIn(records') = NamesIn(addrs) \cup MirroredNames' /\ DataIn(records') = DataIn(addrs)
      BY <1>1, <2>7, <2>8, <3>2, <3>3, <3>4 DEF Mirroring
    <3> QED BY <1>0, <2>1, <2>5, <3>5 DEF Mirroring
  <2>9. CASE rec.name # cnames[cnameOwner]
    BY <1>0, <1>1, <2>1, <2>5, <2>7, <2>9 DEF Mirroring
  <2> QED BY <2>8, <2>9
<1>7. CASE EndMirror
  <2>1. pc = "mirror" /\ pc' = "second" /\ i = Len(addrs) /\ UNCHANGED <<pending, cnameOwner, records>>
    BY <1>7 DEF EndMirror, parseVars
  <2>2. MirroredNames' = MirroredNames
    BY <1>0, <2>1 DEF MirroredNames
  <2> QED BY <1>0, <1>1, <2>1, <2>2 DEF Mirroring
<1> QED BY <1>5, <1>6, <1>7

\* The aliases that point to the owner of an address.
AliasNames ==
  {Normal[c.owner] : c \in {c \in Aliases :
     \E a \in Addresses : Normal[a.owner] = Normal[c.target]}}

(* The addresses and the aliases of a response, by position.               *)
LEMMA ByPosition ==
  ASSUME TypeInv, NEW n \in Nat, n = Len(msg.answer)
  PROVE  /\ AddressesIn(n) = Addresses
         /\ \A o : o \in AliasNames <=>
              \E j \in 1 .. n : Last(n, o, j) /\ \E a \in Addresses : Normal[a.owner] = Normal[msg.answer[j].target]
<1>1. msg.answer \in Seq(RR)
  BY Lengths
<1>2. DOMAIN msg.answer = 1 .. n
  BY <1>1
<1>3. AddressesIn(n) = Addresses
  BY <1>2 DEF AddressesIn, Addresses, Elements
<1>4. \A c : c \in Aliases <=> \E j \in 1 .. n : c = msg.answer[j] /\ Last(n, Normal[msg.answer[j].owner], j)
  BY <1>2 DEF Aliases, Last
<1>5. \A o, j : Last(n, o, j) => o = Normal[msg.answer[j].owner]
  BY DEF Last
<1>6. ASSUME NEW o PROVE o \in AliasNames <=>
        \E j \in 1 .. n : Last(n, o, j) /\ \E a \in Addresses : Normal[a.owner] = Normal[msg.answer[j].target]
  <2>1. o \in AliasNames <=>
          \E c \in Aliases : o = Normal[c.owner] /\ \E a \in Addresses : Normal[a.owner] = Normal[c.target]
    BY DEF AliasNames
  <2> QED BY <1>4, <1>5, <2>1
<1> QED BY <1>3, <1>6

(* What the two passes make of the answers are the names and the data of   *)
(* the response.                                                           *)
LEMMA PassesExact ==
  ASSUME TypeInv, Collected(Len(msg.answer)), Mirroring, pc = "second", pending = {}
  PROVE  Parsed
<1> DEFINE n == Len(msg.answer)
<1>1. n \in Nat /\ addrs \in Seq(Record) /\ DOMAIN cnames \subseteq Names
  BY Lengths DEF TypeInv, TypeOK
<1>2. Addresses \subseteq RR /\ \A a \in Addresses : a.type \in {"A", "AAAA"}
  <2>1. msg.answer \in Seq(RR)
    BY Lengths
  <2>2. Elements(msg.answer) \subseteq RR
    BY <2>1 DEF Elements
  <2> QED BY <2>2 DEF Addresses
<1>3. Elements(addrs) = {Addr(a) : a \in Addresses}
  BY <1>1, ByPosition DEF Collected
<1>4. /\ \A a \in Addresses : Addr(a).name = Normal[a.owner]
      /\ \A a \in Addresses : Data(Addr(a)) = <<Family(a.type), a.ip, a.ttl>>
  BY <1>2, AddrTyped DEF Data
<1>5. NamesIn(addrs) = {Normal[a.owner] : a \in Addresses}
  BY <1>3, <1>4 DEF NamesIn
<1>6. DataIn(addrs) = {<<Family(a.type), a.ip, a.ttl>> : a \in Addresses}
  BY <1>3, <1>4 DEF DataIn
<1>7. MirroredNames = AliasNames
  <2>1. \A o : o \in MirroredNames <=> o \in DOMAIN cnames /\ \E j \in 1 .. Len(addrs) : addrs[j].name = cnames[o]
    BY DEF MirroredNames
  <2>2. \A x : (\E j \in 1 .. Len(addrs) : addrs[j].name = x) <=> \E a \in Addresses : Normal[a.owner] = x
    <3>1. Elements(addrs) = {addrs[j] : j \in 1 .. Len(addrs)}
      BY <1>1, ElementsSeq
    <3>2. \A x : (\E j \in 1 .. Len(addrs) : addrs[j].name = x) <=> x \in NamesIn(addrs)
      BY <3>1 DEF NamesIn
    <3> QED BY <1>5, <3>2
  <2>3. /\ \A o \in DOMAIN cnames : \E j \in 1 .. n : Last(n, o, j)
        /\ \A o \in Names, j \in 1 .. n :
             Last(n, o, j) => o \in DOMAIN cnames /\ cnames[o] = Normal[msg.answer[j].target]
    BY DEF Collected
  <2>4. \A o : o \in AliasNames <=>
          \E j \in 1 .. n : Last(n, o, j) /\ \E a \in Addresses : Normal[a.owner] = Normal[msg.answer[j].target]
    BY <1>1, ByPosition
  <2>5. \A o, j : j \in 1 .. n /\ Last(n, o, j) => o \in Names
    <3>1. msg.answer \in Seq(RR)
      BY Lengths
    <3>2. \A j \in 1 .. n : Normal[msg.answer[j].owner] \in Names
      BY <3>1, Answers, Basics
    <3> QED BY <3>2 DEF Last
  <2> HIDE DEF n
  <2>6. ASSUME NEW o \in MirroredNames PROVE o \in AliasNames
    <3>1. o \in DOMAIN cnames /\ \E a \in Addresses : Normal[a.owner] = cnames[o]
      BY <2>1, <2>2
    <3>2. PICK j \in 1 .. n : Last(n, o, j)
      BY <2>3, <3>1
    <3>3. cnames[o] = Normal[msg.answer[j].target]
      BY <2>3, <2>5, <3>2
    <3> QED BY <2>4, <3>1, <3>2, <3>3
  <2>7. ASSUME NEW o \in AliasNames PROVE o \in MirroredNames
    <3>1. PICK j \in 1 .. n :
            Last(n, o, j) /\ \E a \in Addresses : Normal[a.owner] = Normal[msg.answer[j].target]
      BY <2>4
    <3>2. o \in DOMAIN cnames /\ cnames[o] = Normal[msg.answer[j].target]
      BY <2>3, <2>5, <3>1
    <3> QED BY <2>1, <2>2, <3>1, <3>2
  <2> QED BY <2>6, <2>7
<1>8. NamesOf = {qname} \cup {Normal[a.owner] : a \in Addresses} \cup AliasNames
  <2>1. qname = IF msg.question = <<>> THEN Root ELSE Normal[msg.question[1]]
    BY DEF Collected, QName
  <2> QED BY <2>1 DEF NamesOf, AliasNames
<1> QED BY <1>5, <1>6, <1>7, <1>8 DEF Parsed, Mirroring

(* Parsing ends with the names and the data of the response, or with       *)
(* nothing if the response holds no address.                               *)
LEMMA ParseExact ==
  ASSUME TypeInv, DispatchInv, EndParse
  PROVE  DispatchInv'
<1>1. /\ pc = "second" /\ pending = {} /\ i' = 0 /\ UNCHANGED <<msg, qname, records, k, tried>>
      /\ IF records = <<>> THEN pc' = "dropped" ELSE pc' = "unique" /\ names' = <<qname>>
  BY DEF EndParse, parseVars, addVars
<1>2. Parsed /\ tried = {} /\ k = 0
  BY <1>1, PassesExact DEF DispatchInv
<1>3. CASE records = <<>>
  <2>1. DataIn(records) = {}
    BY <1>3 DEF DataIn, Elements
  <2>2. Addresses = {}
    BY <1>2, <2>1 DEF Parsed
  <2>3. pc' = "dropped" /\ Addresses' = Addresses
    BY <1>1, <1>3 DEF Addresses
  <2> QED BY <1>1, <1>2, <2>2, <2>3 DEF DispatchInv
<1>4. CASE records # <<>>
  <2>1. pc' = "unique" /\ names' = <<qname>>
    BY <1>1, <1>4
  <2>2. Parsed'
    BY <1>1, <1>2 DEF Parsed, NamesOf, Addresses, Aliases
  <2>3. Elements(names') = {qname'} \cup {records'[j].name : j \in 1 .. i'}
    <3>1. Elements(<<qname>>) = {qname}
      BY DEF Elements
    <3>2. \A j \in 1 .. 0 : FALSE
      OBVIOUS
    <3>3. {records'[j].name : j \in 1 .. i'} = {}
      BY <1>1, <3>2
    <3> QED BY <1>1, <2>1, <3>1, <3>3
  <2> QED BY <1>1, <1>2, <2>1, <2>2, <2>3 DEF DispatchInv
<1> QED BY <1>3, <1>4

(* The names of the response do not change once it is parsed.              *)
LEMMA ParsedStays ==
  ASSUME UNCHANGED <<msg, qname, records>>
  PROVE  Parsed' = Parsed /\ NamesOf' = NamesOf
BY DEF Parsed, NamesOf, Addresses, Aliases

(* The loop of uniqueNames gathers every name.                             *)
LEMMA UniqueExact ==
  ASSUME TypeInv, DispatchInv, UniqueName \/ EndUnique
  PROVE  DispatchInv'
<1>1. /\ records \in Seq(Record) /\ names \in Seq(Names) /\ i \in Nat
      /\ Len(records) \in Nat /\ Len(names) \in Nat
  BY Lengths DEF TypeInv, TypeOK
<1>2. pc = "unique" /\ UNCHANGED <<msg, qname, records, k, tried>>
  BY DEF UniqueName, EndUnique, parseVars, addVars
<1>3. /\ Parsed /\ tried = {} /\ k = 0
      /\ Elements(names) = {qname} \cup {records[j].name : j \in 1 .. i}
  BY <1>2 DEF DispatchInv
<1>4. CASE UniqueName
  <2> DEFINE n == records[i + 1].name
  <2>1. /\ pc' = "unique" /\ i' = i + 1 /\ i + 1 \in 1 .. Len(records)
        /\ names' = IF n \in Elements(names) THEN names ELSE Append(names, n)
    BY <1>1, <1>4 DEF UniqueName
  <2>2. records[i + 1] \in Record
    BY <1>1, <2>1
  <2>3. n \in Names
    BY <2>2 DEF Record
  <2>4. {records[j].name : j \in 1 .. i + 1} = {records[j].name : j \in 1 .. i} \cup {n}
    <3>1. \A j : j \in 1 .. i + 1 <=> j \in 1 .. i \/ j = i + 1
      BY <1>1
    <3> QED BY <3>1
  <2> HIDE DEF n
  <2>5. Elements(names') = Elements(names) \cup {n}
    BY <1>1, <2>1, <2>3, ElementsSeq
  <2>6. Elements(names') = {qname'} \cup {records'[j].name : j \in 1 .. i'}
    <3>1. {records'[j].name : j \in 1 .. i'} = {records[j].name : j \in 1 .. i + 1} /\ qname' = qname
      BY <1>2, <2>1
    <3> QED BY <1>3, <2>4, <2>5, <3>1
  <2> QED BY <1>2, <1>3, <2>1, <2>6, ParsedStays DEF DispatchInv
<1>5. CASE EndUnique
  <2>1. pc' = "names" /\ i = Len(records) /\ UNCHANGED <<names, i>>
    BY <1>5 DEF EndUnique
  <2>2. Elements(records) = {records[j] : j \in 1 .. Len(records)}
    BY <1>1, ElementsSeq
  <2>3. {records[j].name : j \in 1 .. Len(records)} = NamesIn(records)
    BY <2>2 DEF NamesIn
  <2>4. Elements(names) = NamesOf
    BY <1>3, <2>1, <2>3 DEF Parsed
  <2>5. Offered'
    <3>1. \A p \in 1 .. Len(names), q \in 1 .. Len(records) : ~Covered(p, q)'
      BY <1>2, <1>3, <2>1 DEF Covered
    <3> QED BY <1>2, <1>3, <2>1, <3>1 DEF Offered
  <2> QED BY <1>2, <1>3, <2>1, <2>4, <2>5, ParsedStays DEF DispatchInv, Elements
<1> QED BY <1>4, <1>5

(* A step of the dispatch that leaves the names, the records and the flags *)
(* alone keeps what has been tried exact if it does so for the pairs the   *)
(* step goes past.                                                         *)
LEMMA OfferedStep ==
  ASSUME Offered, UNCHANGED <<flags, names, records>>,
         \A p \in 1 .. Len(names), q \in 1 .. Len(records) : Covered(p, q) => Covered(p, q)',
         tried \subseteq tried',
         \A t \in tried' \ tried : \E p \in 1 .. Len(names), q \in 1 .. Len(records) :
           Covered(p, q)' /\ RoutedRecord(names[p], records[q]) /\ t = OfferOf(names[p], records[q]),
         \A p \in 1 .. Len(names), q \in 1 .. Len(records) :
           Covered(p, q)' /\ ~Covered(p, q) /\ RoutedRecord(names[p], records[q])
             => OfferOf(names[p], records[q]) \in tried'
  PROVE  Offered'
<1>1. \A n, r : OfferOf(n, r)' = OfferOf(n, r)
  BY DEF OfferOf, Timeout, ClampTTL
<1>2. /\ \A t \in tried : \E p \in 1 .. Len(names), q \in 1 .. Len(records) :
            Covered(p, q) /\ RoutedRecord(names[p], records[q]) /\ t = OfferOf(names[p], records[q])
      /\ \A p \in 1 .. Len(names), q \in 1 .. Len(records) :
           Covered(p, q) /\ RoutedRecord(names[p], records[q]) => OfferOf(names[p], records[q]) \in tried
  BY DEF Offered
<1>3. \A t \in tried' : \E p \in 1 .. Len(names), q \in 1 .. Len(records) :
        Covered(p, q)' /\ RoutedRecord(names[p], records[q]) /\ t = OfferOf(names[p], records[q])
  BY <1>2
<1>4. \A p \in 1 .. Len(names), q \in 1 .. Len(records) :
        Covered(p, q)' /\ RoutedRecord(names[p], records[q]) => OfferOf(names[p], records[q]) \in tried'
  BY <1>2
<1> QED BY <1>1, <1>3, <1>4 DEF Offered

(* Each step of the two loops offers what the pair of name and record it   *)
(* is at asks for.                                                         *)
LEMMA DispatchStepExact ==
  ASSUME TypeInv, DispatchInv,
         \/ NoMatch \/ Matched \/ SkipFamily \/ EndRecords \/ Dispatched
         \/ \E err \in BOOLEAN : Add(err)
  PROVE  DispatchInv'
<1>1. /\ pc \in {"names", "records"} /\ pc' \in {"names", "records", "dispatched"}
      /\ UNCHANGED <<flags, msg, qname, records, names>>
  BY DEF NoMatch, Matched, SkipFamily, EndRecords, Dispatched, Add, parseVars
<1>2. /\ i \in Nat /\ k \in Nat /\ Len(records) \in Nat /\ Len(names) \in Nat
  BY Lengths
<1>3. Parsed /\ Elements(names) = NamesOf /\ Offered
  BY <1>1 DEF DispatchInv
<1>4. Parsed' /\ Elements(names)' = NamesOf'
  BY <1>1, <1>3, ParsedStays DEF Elements
<1>5. pc' = "dispatched" => k' = Len(names')
  BY <1>1 DEF NoMatch, Matched, SkipFamily, EndRecords, Dispatched, Add
<1>6. SUFFICES Offered'
  BY <1>1, <1>4, <1>5, <1>6 DEF DispatchInv
<1>7. CASE NoMatch
  <2>1. /\ pc = "names" /\ pc' = "names" /\ k' = k + 1 /\ Match[names[k + 1]] = NoRule /\ tried' = tried
    BY <1>7 DEF NoMatch, addVars
  <2>2. \A p \in 1 .. Len(names), q \in 1 .. Len(records) : Covered(p, q)' <=> Covered(p, q) \/ p = k + 1
    BY <1>2, <2>1 DEF Covered
  <2>3. \A q : ~RoutedRecord(names[k + 1], records[q])
    BY <2>1 DEF RoutedRecord
  <2> QED BY <1>1, <1>3, <2>1, <2>2, <2>3, OfferedStep
<1>8. CASE Matched \/ Dispatched
  <2>1. pc = "names" /\ k' = k /\ tried' = tried /\ ((pc' = "records" /\ i' = 0) \/ pc' = "dispatched")
    BY <1>8 DEF Matched, Dispatched, addVars
  <2>2. \A p \in 1 .. Len(names), q \in 1 .. Len(records) : Covered(p, q)' <=> Covered(p, q)
    BY <1>2, <2>1 DEF Covered
  <2> QED BY <1>1, <1>3, <2>1, <2>2, OfferedStep
<1>9. CASE EndRecords
  <2>1. pc = "records" /\ pc' = "names" /\ i = Len(records) /\ k' = k + 1 /\ tried' = tried
    BY <1>9 DEF EndRecords, addVars
  <2>2. \A p \in 1 .. Len(names), q \in 1 .. Len(records) : Covered(p, q)' <=> Covered(p, q)
    BY <1>2, <2>1 DEF Covered
  <2> QED BY <1>1, <1>3, <2>1, <2>2, OfferedStep
<1>10. CASE SkipFamily
  <2>1. /\ pc = "records" /\ pc' = "records" /\ i' = i + 1 /\ k' = k /\ tried' = tried
        /\ SetOf[Match[names[k + 1]]][records[i + 1].family] = NoSet
    BY <1>10 DEF SkipFamily, rule, addVars
  <2>2. \A p \in 1 .. Len(names), q \in 1 .. Len(records) :
          Covered(p, q)' <=> Covered(p, q) \/ (p = k + 1 /\ q = i + 1)
    BY <1>2, <2>1 DEF Covered
  <2>3. ~RoutedRecord(names[k + 1], records[i + 1])
    BY <2>1 DEF RoutedRecord
  <2> QED BY <1>1, <1>3, <2>1, <2>2, <2>3, OfferedStep
<1>11. ASSUME NEW err \in BOOLEAN, Add(err) PROVE Offered'
  <2>0. pc = "records" /\ pc' = "records" /\ i < Len(records) /\ i' = i + 1 /\ k' = k
    BY <1>11 DEF Add
  <2>1. /\ SetOf[Match[names[k + 1]]][records[i + 1].family] # NoSet
        /\ tried' = tried \cup {OfferOf(names[k + 1], records[i + 1])}
    BY <1>11, Zenon DEF Add, rule, OfferOf
  <2>2. \A p \in 1 .. Len(names), q \in 1 .. Len(records) :
          Covered(p, q)' <=> Covered(p, q) \/ (p = k + 1 /\ q = i + 1)
    BY <1>2, <2>0 DEF Covered
  <2>3. /\ k + 1 \in 1 .. Len(names) /\ i + 1 \in 1 .. Len(records)
        /\ RoutedRecord(names[k + 1], records[i + 1])
    <3>1. k < Len(names) /\ Match[names[k + 1]] # NoRule
      BY <2>0 DEF TypeInv, Short
    <3>2. k + 1 \in 1 .. Len(names) /\ i + 1 \in 1 .. Len(records)
      BY <1>2, <2>0, <3>1
    <3>3. RoutedRecord(names[k + 1], records[i + 1])
      BY <2>1, <3>1 DEF RoutedRecord
    <3> QED BY <3>2, <3>3
  <2> QED BY <1>1, <1>3, <2>0, <2>1, <2>2, <2>3, OfferedStep
<1> QED BY <1>7, <1>8, <1>9, <1>10, <1>11

LEMMA DispatchInit == Init => DispatchInv
BY DEF Init, DispatchInv

LEMMA DispatchNext == TypeInv /\ DispatchInv /\ [Next]_vars => DispatchInv'
<1> SUFFICES ASSUME TypeInv, DispatchInv, [Next]_vars PROVE DispatchInv'
  OBVIOUS
<1>1. CASE UNCHANGED vars
  <2>1. UNCHANGED <<flags, msg, pc, i, qname, addrs, cnames, pending, cnameOwner, records, names, k, tried>>
    BY <1>1 DEF vars, parseVars, addVars
  <2>2. /\ \A n : Collected(n)' = Collected(n)
        /\ Mirroring' = Mirroring /\ Parsed' = Parsed /\ NamesOf' = NamesOf /\ Addresses' = Addresses
    BY <2>1 DEF Collected, QName, AddressesIn, Last, Mirroring, MirroredNames, Parsed, NamesOf, Addresses, Aliases
  <2>3. Offered' = Offered
    <3>1. /\ \A n, r : OfferOf(n, r)' = OfferOf(n, r)
          /\ \A p, q : Covered(p, q)' = Covered(p, q)
      BY <2>1 DEF OfferOf, Timeout, ClampTTL, Covered
    <3> QED BY <2>1, <3>1 DEF Offered
  <2> QED BY <2>1, <2>2, <2>3 DEF DispatchInv
<1>2. CASE Next
  BY <1>1, <1>2, QuestionExact, CollectExact, FirstPassExact, MirrorExact, ParseExact, UniqueExact,
     DispatchStepExact DEF Next, Returned
<1> QED BY <1>1, <1>2

(* When both loops are done, the offers are those of the response.         *)
LEMMA DispatchDone == TypeInv /\ DispatchInv => DispatchExact
<1> SUFFICES ASSUME TypeInv, DispatchInv, pc = "dispatched"
             PROVE  tried = {Offer(x[1], x[2]) : x \in {y \in NamesOf \X Addresses : Routed(y[1], y[2])}}
  BY DEF DispatchExact, DispatchInv
<1>1. /\ k = Len(names) /\ Parsed /\ Elements(names) = NamesOf /\ Offered
  BY DEF DispatchInv
<1>2. names \in Seq(Names) /\ records \in Seq(Record)
  BY DEF TypeInv, TypeOK
<1>3. \A p \in 1 .. Len(names), q \in 1 .. Len(records) : Covered(p, q)
  BY <1>1, <1>2 DEF Covered
<1>4. \A n : n \in NamesOf <=> \E p \in 1 .. Len(names) : n = names[p]
  BY <1>1, <1>2, ElementsSeq
<1>5. \A d : d \in DataIn(records) <=> \E q \in 1 .. Len(records) : d = Data(records[q])
  <2>1. Elements(records) = {records[q] : q \in 1 .. Len(records)}
    BY <1>2, ElementsSeq
  <2> QED BY <2>1 DEF DataIn
<1>6. \A d : d \in DataIn(records) <=> \E a \in Addresses : d = <<Family(a.type), a.ip, a.ttl>>
  BY <1>1 DEF Parsed
<1>7. ASSUME NEW n, NEW r, NEW a, Data(r) = <<Family(a.type), a.ip, a.ttl>>
      PROVE  (RoutedRecord(n, r) <=> Routed(n, a)) /\ OfferOf(n, r) = Offer(n, a)
  <2>1. r.family = Family(a.type) /\ r.ip = a.ip /\ r.ttl = a.ttl
    BY <1>7 DEF Data
  <2> QED BY <2>1 DEF RoutedRecord, Routed, OfferOf, Offer
<1>8. ASSUME NEW t \in tried PROVE \E n \in NamesOf, a \in Addresses : Routed(n, a) /\ t = Offer(n, a)
  <2>1. PICK p \in 1 .. Len(names), q \in 1 .. Len(records) :
          RoutedRecord(names[p], records[q]) /\ t = OfferOf(names[p], records[q])
    BY <1>1 DEF Offered
  <2>2. PICK a \in Addresses : Data(records[q]) = <<Family(a.type), a.ip, a.ttl>>
    BY <1>5, <1>6
  <2>3. Routed(names[p], a) /\ t = Offer(names[p], a)
    BY <1>7, <2>1, <2>2
  <2>4. names[p] \in NamesOf
    BY <1>4
  <2> QED BY <2>3, <2>4
<1>9. ASSUME NEW n \in NamesOf, NEW a \in Addresses, Routed(n, a) PROVE Offer(n, a) \in tried
  <2>1. PICK p \in 1 .. Len(names) : n = names[p]
    BY <1>4
  <2>2. PICK q \in 1 .. Len(records) : Data(records[q]) = <<Family(a.type), a.ip, a.ttl>>
    BY <1>5, <1>6
  <2>3. RoutedRecord(names[p], records[q]) /\ OfferOf(names[p], records[q]) = Offer(n, a)
    BY <1>7, <1>9, <2>1, <2>2
  <2> QED BY <1>1, <1>3, <2>3 DEF Offered
<1> DEFINE Pairs == {y \in NamesOf \X Addresses : Routed(y[1], y[2])}
<1>10. ASSUME NEW n \in NamesOf, NEW a \in Addresses, Routed(n, a)
       PROVE  <<n, a>> \in Pairs /\ Offer(<<n, a>>[1], <<n, a>>[2]) = Offer(n, a)
  <2>1. <<n, a>> \in NamesOf \X Addresses /\ <<n, a>>[1] = n /\ <<n, a>>[2] = a
    OBVIOUS
  <2> QED BY <1>10, <2>1
<1>11. \A y \in Pairs : y[1] \in NamesOf /\ y[2] \in Addresses /\ Routed(y[1], y[2])
  OBVIOUS
<1> HIDE DEF Pairs
<1>12. tried \subseteq {Offer(x[1], x[2]) : x \in Pairs}
  <2> SUFFICES ASSUME NEW t \in tried PROVE \E x \in Pairs : t = Offer(x[1], x[2])
    OBVIOUS
  <2>1. PICK n \in NamesOf, a \in Addresses : Routed(n, a) /\ t = Offer(n, a)
    BY <1>8
  <2>2. <<n, a>> \in Pairs /\ t = Offer(<<n, a>>[1], <<n, a>>[2])
    BY <1>10, <2>1
  <2> QED BY <2>2
<1>13. \A x \in Pairs : Offer(x[1], x[2]) \in tried
  BY <1>9, <1>11
<1>14. tried = {Offer(x[1], x[2]) : x \in Pairs}
  BY <1>12, <1>13
<1> QED BY <1>14 DEF Pairs

(* What is offered to the kernel for a message is exactly what its names   *)
(* and addresses ask for, whatever the order of the map and the errors.    *)
THEOREM AlwaysExact == Spec => []DispatchExact
BY TypeInit, TypeNext, DispatchInit, DispatchNext, DispatchDone, PTL DEF Spec
=============================================================================
