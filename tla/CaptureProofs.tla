--------------------------- MODULE CaptureProofs ----------------------------
(***************************************************************************)
(* Proofs about the probe and the life of the daemon around it, for any    *)
(* number of CPUs, tasks, sockets and calls, every size of the ring buffer *)
(* and every depth to which hooks alternate on a CPU.                      *)
(***************************************************************************)
EXTENDS Capture, FiniteSetTheorems, SequenceTheorems, TLAPS

(* The assumptions the proofs need.                                        *)
LEMMA Basics ==
  /\ \A sk \in Sockets : sk.sport \in UInt16 /\ sk.dport \in UInt16
  /\ \A x \in Datagrams : SizeOf[x] \in Nat
  /\ BufLen \in Nat /\ MAX_PAYLOAD \in Nat /\ RingCap \in Nat /\ MaxDepth \in Nat /\ MaxCalls \in Nat
  /\ MaxConns \in Nat
  /\ IsFiniteSet(Tasks)
BY ProbeAssumption, CaptureAssumption DEF UInt16

(* The ports of a header are ports.                                        *)
LEMMA Ports ==
  ASSUME NEW p \in UInt16
  PROVE  bpf_ntohs(p) \in UInt16
<1>1. p \in Nat /\ p < 65536
  BY DEF UInt16
<1>2. p % 256 \in Nat /\ p % 256 < 256 /\ p \div 256 \in Nat /\ p \div 256 < 256
  BY <1>1
<1>3. ASSUME NEW x \in Nat, NEW y \in Nat, x < 256, y < 256
      PROVE  x * 256 + y \in UInt16
  BY <1>3 DEF UInt16
<1> QED BY <1>2, <1>3 DEF bpf_ntohs

(* The length of a payload fits a record.                                  *)
LEMMA ClippedFits ==
  ASSUME NEW len \in Nat
  PROVE  Clipped(len) \in 0 .. MAX_PAYLOAD
BY Basics DEF Clipped

(* Two records with the same fields are the same.                          *)
LEMMA SameRecord ==
  ASSUME NEW x \in Record, NEW y \in Record,
         x.direction = y.direction, x.family = y.family, x.src_port = y.src_port,
         x.dst_port = y.dst_port, x.payload_len = y.payload_len, x.payload = y.payload
  PROVE  x = y
BY DEF Record

(* What a hook should hand over is a record.                               *)
LEMMA AuthorTyped ==
  ASSUME NEW sk \in Sockets, NEW dir \in {DIR_SEND, DIR_RECV}, NEW len \in Nat, NEW p \in Contents
  PROVE  LET a == AuthorOf(sk, dir, len, p)
         IN  /\ a \in Author /\ a.sk = sk /\ a.rec \in Record
             /\ a.rec.direction = dir /\ a.rec.family = fam_short(sk)
             /\ a.rec.src_port = bpf_ntohs(sk.sport) /\ a.rec.dst_port = bpf_ntohs(sk.dport)
             /\ a.rec.payload_len = Clipped(len) /\ a.rec.payload = p
<1>1. /\ fam_short(sk) \in {0, 4, 6}
      /\ bpf_ntohs(sk.sport) \in UInt16 /\ bpf_ntohs(sk.dport) \in UInt16
      /\ Clipped(len) \in 0 .. MAX_PAYLOAD
  BY Basics, Ports, ClippedFits DEF fam_short
<1> QED BY <1>1 DEF AuthorOf, Author, Record

(* What a call record holds.                                               *)
LEMMA CallFields ==
  /\ \A x \in Call \cup {User} : x.pc \in InHook \cup {"recv"} => x \in Call
  /\ \A x \in Call : x.cpu \in CPUs /\ x.sk \in Sockets /\ x.direction \in {DIR_SEND, DIR_RECV}
  /\ \A x \in Call : x.len \in Nat /\ x.peers \in SUBSET Author /\ x.out \in Nat
  /\ User.pc = "user"
BY DEF Call, User, InHook, Header

\* The places of a hook, and those it is not at.
LEMMA Places ==
  /\ \A p \in Header : p \in InHook
  /\ "read" \in InHook /\ "reread" \in InHook /\ "length" \in InHook /\ "output" \in InHook
  /\ "direction" \in Header /\ "family" \in Header /\ "src_port" \in Header /\ "dst_port" \in Header
  /\ "payload_len" \in Header
  /\ "user" \notin InHook /\ "recv" \notin InHook
BY DEF InHook, Header

----------------------------------------------------------------------------
(* The calls of the tasks.                                                 *)

CallsOK == call \in [Tasks -> Call \cup {User}] /\ buf \in [Tasks -> Contents]

\* Every task but t is where it was.
OthersStay(t) == \A u \in Tasks : u # t => call'[u] = call[u]

(* A hook that returns is on no CPU any more.                              *)
LEMMA Returns ==
  ASSUME CallsOK, NEW t \in Tasks, call[t].pc \in InHook, NEW n \in Nat, Return(t, n), buf' = buf
  PROVE  CallsOK' /\ OthersStay(t) /\ call'[t].pc \notin InHook
<1> DEFINE new == IF call[t].direction = DIR_SEND THEN User ELSE [call[t] EXCEPT !.pc = "recv", !.out = n]
<1>1. call[t] \in Call
  BY CallFields DEF CallsOK
<1>2. new \in Call \cup {User} /\ new.pc \notin InHook
  BY <1>1, Places DEF Call, User
<1>3. call' = [call EXCEPT ![t] = new]
  BY DEF Return
<1> HIDE DEF new
<1> QED BY <1>2, <1>3 DEF CallsOK, OthersStay

\* The hook of task t goes on, to p.
Goes(t, p) ==
  /\ OthersStay(t) /\ call'[t].pc = p
  /\ call'[t].cpu = call[t].cpu /\ call'[t].sk = call[t].sk /\ call'[t].direction = call[t].direction
  /\ call'[t].len = call[t].len /\ call'[t].peers = call[t].peers

LEMMA GoesOn ==
  ASSUME CallsOK, NEW t \in Tasks, call[t].pc \in InHook, NEW p \in InHook,
         call' = [call EXCEPT ![t].pc = p], buf' = buf
  PROVE  CallsOK' /\ Goes(t, p)
<1> DEFINE new == [call[t] EXCEPT !.pc = p]
<1>1. call[t] \in Call
  BY CallFields DEF CallsOK
<1>2. /\ new \in Call /\ new.pc = p /\ new.cpu = call[t].cpu /\ new.sk = call[t].sk
      /\ new.direction = call[t].direction /\ new.len = call[t].len /\ new.peers = call[t].peers
  BY <1>1 DEF Call
<1>3. call' = [call EXCEPT ![t] = new]
  OBVIOUS
<1> HIDE DEF new
<1> QED BY <1>2, <1>3 DEF CallsOK, Goes, OthersStay

\* Task t is in a hook on CPU c.
On(t, c) == call[t].pc \in InHook /\ call[t].cpu = c

(* A hook that is entered has the ones it finds on its CPU for peers, and  *)
(* they have it.                                                           *)
LEMMA Enters ==
  ASSUME CallsOK, NEW c \in CPUs, NEW t \in Tasks, NEW sk \in Sockets, NEW dir \in {DIR_SEND, DIR_RECV},
         NEW len \in Nat, NEW p \in Contents, Enter(c, t, sk, dir, len, p),
         buf' \in [Tasks -> Contents], buf'[t] = p, \A u \in Tasks : u # t => buf'[u] = buf[u]
  PROVE  /\ CallsOK' /\ call'[t].pc = "direction" /\ call'[t].cpu = c /\ Self(t)' = AuthorOf(sk, dir, len, p)
         /\ \A u \in Tasks : On(u, c) => Self(u) \in call'[t].peers
         /\ \A u \in Tasks : u # t =>
              /\ call'[u].pc = call[u].pc
              /\ call[u].pc \in InHook => Self(u)' = Self(u) /\ call'[u].cpu = call[u].cpu /\ call[u].peers \subseteq call'[u].peers
              /\ On(u, c) => Self(t)' \in call'[u].peers
              /\ ~On(u, c) => call'[u] = call[u]
<1> DEFINE new == [pc |-> "direction", cpu |-> c, sk |-> sk, direction |-> dir, len |-> len,
                   peers |-> {Self(u) : u \in OnCpu(c)}, out |-> 0]
           a == AuthorOf(sk, dir, len, p)
           joined(u) == [call[u] EXCEPT !.peers = @ \cup {a}]
<1>1. \A u \in Tasks : u \in OnCpu(c) <=> On(u, c)
  BY DEF OnCpu, On
<1>2. a \in Author
  BY AuthorTyped
<1>3. \A u \in Tasks : On(u, c) => call[u] \in Call /\ call[u].cpu = c /\ Self(u) \in Author
  <2> SUFFICES ASSUME NEW u \in Tasks, On(u, c) PROVE call[u] \in Call /\ call[u].cpu = c /\ Self(u) \in Author
    OBVIOUS
  <2>1. call[u] \in Call /\ call[u].cpu = c /\ buf[u] \in Contents
    BY CallFields DEF CallsOK, On
  <2> QED BY <2>1, CallFields, AuthorTyped DEF Self
<1>4. {Self(u) : u \in OnCpu(c)} \in SUBSET Author
  BY <1>1, <1>3 DEF OnCpu
<1>5. /\ new \in Call /\ new.pc = "direction" /\ new.cpu = c /\ new.sk = sk /\ new.direction = dir /\ new.len = len
      /\ new.peers = {Self(u) : u \in OnCpu(c)}
  BY <1>4, Places DEF Call
<1>6. ASSUME NEW u \in Tasks, On(u, c)
      PROVE  /\ joined(u) \in Call /\ joined(u).pc = call[u].pc /\ joined(u).cpu = call[u].cpu
             /\ joined(u).sk = call[u].sk /\ joined(u).direction = call[u].direction /\ joined(u).len = call[u].len
             /\ joined(u).peers = call[u].peers \cup {a}
  <2>1. call[u] \in Call /\ call[u].peers \cup {a} \in SUBSET Author
    BY <1>2, <1>3, <1>6, CallFields
  <2> HIDE DEF a
  <2> QED BY <2>1 DEF Call
<1>7. call' = [u \in Tasks |-> IF u = t THEN new ELSE IF u \in OnCpu(c) THEN joined(u) ELSE call[u]]
  BY DEF Enter
<1> HIDE DEF new, joined
<1>8. /\ call'[t] = new
      /\ \A u \in Tasks : u # t => (On(u, c) => call'[u] = joined(u)) /\ (~On(u, c) => call'[u] = call[u])
  BY <1>1, <1>7
<1>9. CallsOK'
  BY <1>1, <1>5, <1>6, <1>7 DEF CallsOK
<1>10. Self(t)' = a
  BY <1>5, <1>8 DEF Self
<1>11. \A u \in Tasks : On(u, c) => Self(u) \in call'[t].peers
  BY <1>1, <1>5, <1>8
<1>12. ASSUME NEW u \in Tasks, u # t
       PROVE  /\ call'[u].pc = call[u].pc
              /\ call[u].pc \in InHook => Self(u)' = Self(u) /\ call'[u].cpu = call[u].cpu /\ call[u].peers \subseteq call'[u].peers
              /\ On(u, c) => Self(t)' \in call'[u].peers
              /\ ~On(u, c) => call'[u] = call[u]
  <2>1. CASE On(u, c)
    BY <1>6, <1>8, <1>10, <1>12, <2>1 DEF Self
  <2>2. CASE ~On(u, c)
    BY <1>8, <1>12, <2>2 DEF Self
  <2> QED BY <2>1, <2>2
<1> QED BY <1>5, <1>8, <1>9, <1>10, <1>11, <1>12

Depth == \A c \in CPUs : Cardinality(OnCpu(c)) <= MaxDepth

(* Hooks that are on one CPU are peers.                                    *)
Together == \A t, u \in Tasks : call[t].pc \in InHook /\ u # t /\ On(u, call[t].cpu) => Self(u) \in call[t].peers

CallInv == CallsOK /\ Depth /\ Together

LEMMA OnCpuFinite ==
  ASSUME NEW c PROVE IsFiniteSet(OnCpu(c)) /\ Cardinality(OnCpu(c)) \in Nat
<1>1. OnCpu(c) \in SUBSET Tasks
  BY DEF OnCpu
<1>2. IsFiniteSet(OnCpu(c))
  BY <1>1, FS_Subset, Basics
<1> QED BY <1>2, FS_CardinalityType

(* No CPU gets more hooks by a step after which no hook is where none was. *)
LEMMA DepthKept ==
  ASSUME Depth, \A u \in Tasks, c \in CPUs : On(u, c)' => On(u, c)
  PROVE  Depth'
<1> SUFFICES ASSUME NEW c \in CPUs PROVE Cardinality(OnCpu(c)') <= MaxDepth
  BY DEF Depth
<1> DEFINE before == OnCpu(c)
           after == OnCpu(c)'
<1>1. after \in SUBSET before
  BY DEF OnCpu, On
<1>2. IsFiniteSet(before) /\ Cardinality(before) \in Nat /\ Cardinality(before) <= MaxDepth
  BY OnCpuFinite DEF Depth
<1> HIDE DEF before, after
<1>3. Cardinality(after) <= Cardinality(before) /\ IsFiniteSet(after)
  BY <1>1, <1>2, FS_Subset
<1>4. Cardinality(after) \in Nat
  BY <1>3, FS_CardinalityType
<1>5. Cardinality(after) <= MaxDepth
  BY <1>2, <1>3, <1>4, Basics
<1> QED BY <1>5 DEF after

(* A hook is entered.                                                      *)
LEMMA CallEnter ==
  ASSUME CallInv, NEW c \in CPUs, NEW t \in Tasks, NEW sk \in Sockets, NEW dir \in {DIR_SEND, DIR_RECV},
         NEW len \in Nat, NEW p \in Contents, Enter(c, t, sk, dir, len, p),
         buf' \in [Tasks -> Contents], buf'[t] = p, \A u \in Tasks : u # t => buf'[u] = buf[u]
  PROVE  CallInv'
<1>1. call[t].pc = "user" /\ Cardinality(OnCpu(c)) < MaxDepth
  BY DEF Enter
<1>2. /\ CallsOK' /\ call'[t].pc = "direction" /\ call'[t].cpu = c
      /\ \A u \in Tasks : On(u, c) => Self(u) \in call'[t].peers
      /\ \A u \in Tasks : u # t =>
           /\ call'[u].pc = call[u].pc
           /\ call[u].pc \in InHook => Self(u)' = Self(u) /\ call'[u].cpu = call[u].cpu /\ call[u].peers \subseteq call'[u].peers
           /\ On(u, c) => Self(t)' \in call'[u].peers
           /\ ~On(u, c) => call'[u] = call[u]
  BY Enters DEF CallInv
<1>3. Depth'
  <2> SUFFICES ASSUME NEW e \in CPUs PROVE Cardinality(OnCpu(e)') <= MaxDepth
    BY DEF Depth
  <2> DEFINE before == OnCpu(e)
             after == OnCpu(e)'
  <2>1. after = IF e = c THEN before \cup {t} ELSE before
    <3>1. \A u \in Tasks : On(u, e)' <=> On(u, e) \/ (u = t /\ e = c)
      <4>1. "direction" \in InHook /\ "user" \notin InHook
        BY Places
      <4>2. On(t, e)' <=> e = c
        BY <1>2, <4>1 DEF On
      <4>3. ~On(t, e)
        BY <1>1, <4>1 DEF On
      <4>4. ASSUME NEW u \in Tasks, u # t PROVE On(u, e)' <=> On(u, e)
        BY <1>2, <4>4 DEF On
      <4> QED BY <4>2, <4>3, <4>4
    <3>2. before = {u \in Tasks : On(u, e)} /\ after = {u \in Tasks : On(u, e)'}
      BY DEF OnCpu, On
    <3> QED BY <3>1, <3>2
  <2>2. IsFiniteSet(before) /\ Cardinality(before) \in Nat /\ Cardinality(before) <= MaxDepth
    BY OnCpuFinite DEF CallInv, Depth
  <2>3. e = c => Cardinality(before) < MaxDepth
    BY <1>1
  <2> HIDE DEF before, after
  <2>4. Cardinality(before \cup {t}) <= Cardinality(before) + 1 /\ Cardinality(before \cup {t}) \in Nat
    <3>1. Cardinality(before \cup {t}) = IF t \in before THEN Cardinality(before) ELSE Cardinality(before) + 1
      BY <2>2, FS_AddElement, Zenon
    <3> QED BY <2>2, <3>1
  <2>5. Cardinality(after) <= MaxDepth
    BY <2>1, <2>2, <2>3, <2>4, Basics
  <2> QED BY <2>5 DEF after
<1>4. Together'
  <2> SUFFICES ASSUME NEW x \in Tasks, NEW u \in Tasks, call'[x].pc \in InHook, u # x,
                      call'[u].pc \in InHook, call'[u].cpu = call'[x].cpu
               PROVE  Self(u)' \in call'[x].peers
    BY DEF Together, On
  <2>1. CASE x = t
    <3>1. On(u, c) /\ Self(u)' = Self(u)
      BY <1>2, <2>1 DEF On
    <3> QED BY <1>2, <2>1, <3>1
  <2>2. CASE x # t /\ u = t
    <3>1. On(x, c)
      BY <1>2, <2>2 DEF On
    <3> QED BY <1>2, <2>2, <3>1
  <2>3. CASE x # t /\ u # t
    <3>1. call[x].pc \in InHook /\ On(u, call[x].cpu) /\ Self(u)' = Self(u) /\ call[x].peers \subseteq call'[x].peers
      BY <1>2, <2>3 DEF On
    <3> QED BY <3>1 DEF CallInv, Together
  <2> QED BY <2>1, <2>2, <2>3
<1> QED BY <1>2, <1>3, <1>4 DEF CallInv

(* A hook returns or goes on, or a call of udp_recvmsg returns.            *)
LEMMA CallStep ==
  ASSUME CallInv, CallsOK', NEW t \in Tasks, OthersStay(t), \A u \in Tasks : call[u].pc \in InHook => buf'[u] = buf[u],
         \/ call'[t].pc \notin InHook
         \/ call[t].pc \in InHook /\ Goes(t, call'[t].pc)
  PROVE  CallInv'
<1>1. \A u \in Tasks, c \in CPUs : On(u, c)' => On(u, c)
  BY DEF On, OthersStay, Goes
<1>2. Depth'
  BY <1>1, DepthKept DEF CallInv
<1>3. Together'
  <2> SUFFICES ASSUME NEW x \in Tasks, NEW u \in Tasks, call'[x].pc \in InHook, u # x,
                      call'[u].pc \in InHook, call'[u].cpu = call'[x].cpu
               PROVE  Self(u)' \in call'[x].peers
    BY DEF Together, On
  <2>1. ASSUME NEW y \in Tasks, call'[y].pc \in InHook
        PROVE  /\ call[y].pc \in InHook /\ call[y].cpu = call'[y].cpu /\ call[y].peers = call'[y].peers
               /\ call[y].sk = call'[y].sk /\ call[y].direction = call'[y].direction /\ call[y].len = call'[y].len
    BY <2>1 DEF OthersStay, Goes
  <2>2. Self(u)' = Self(u)
    BY <2>1 DEF Self
  <2> QED BY <2>1, <2>2 DEF CallInv, Together, On
<1> QED BY <1>2, <1>3 DEF CallInv

----------------------------------------------------------------------------
(* The records.                                                            *)

OutputRecord == [rec : Record, own : Author, peers : SUBSET Author]

\* What the types of the probe say of everything but the calls.
DataOK ==
  /\ scratch \in [CPUs -> Record]
  /\ ring \in Seq(Record) /\ Len(ring) <= RingCap
  /\ calls \in 0 .. MaxCalls
  /\ output \in Seq(OutputRecord) /\ accepted \in Seq(Record)

\* The fields of s that a hook at pc has stored are its own, as in o, or those
\* of a hook in others that stored them since.
Stored(pc, s, o, others) ==
  /\ pc \in InHook \ {"direction"} =>
       s.direction = o.direction \/ \E a \in others : s.direction = a.rec.direction
  /\ pc \in InHook \ {"direction", "family"} =>
       s.family = o.family \/ \E a \in others : s.family = a.rec.family
  /\ pc \in InHook \ {"direction", "family", "src_port"} =>
       s.src_port = o.src_port \/ \E a \in others : s.src_port = a.rec.src_port
  /\ pc \in InHook \ {"direction", "family", "src_port", "dst_port"} =>
       s.dst_port = o.dst_port \/ \E a \in others : s.dst_port = a.rec.dst_port
  /\ pc \in {"length", "output"} =>
       s.payload = o.payload \/ \E a \in others : s.payload = a.rec.payload \/ s.payload = Blank
  /\ pc = "output" =>
       s.payload_len = o.payload_len \/ \E a \in others : s.payload_len = a.rec.payload_len \/ s.payload_len = 0

(* A hook goes on past the filter for a DNS socket only, and what it has   *)
(* stored is its own or a DNS peer's.                                      *)
Scratch(t) ==
  call[t].pc \in InHook =>
    /\ call[t].pc # "direction" => IsDns(call[t].sk)
    /\ Stored(call[t].pc, scratch[call[t].cpu], Self(t).rec, Dns(call[t].peers))

(* The same of the records handed over.                                    *)
Handed ==
  \A i \in 1 .. Len(output) :
    IsDns(output[i].own.sk) /\ Stored("output", output[i].rec, output[i].own.rec, Dns(output[i].peers))

ProbeInv == DataOK /\ CallInv /\ (\A t \in Tasks : Scratch(t)) /\ Handed

(* The invariant has the type invariant of the probe in it.                *)
LEMMA ProbeTyped == ProbeInv => ProbeTypeOK
BY DEF ProbeInv, DataOK, CallInv, CallsOK, Depth, ProbeTypeOK, OutputRecord

(* A record that no other DNS hook had a part in is its own hook's.        *)
LEMMA ProbeIntact == ProbeInv => RecordIntact
<1> SUFFICES ASSUME ProbeInv, NEW i \in 1 .. Len(output), Dns(output[i].peers) = {}
             PROVE  output[i].rec = output[i].own.rec
  BY DEF RecordIntact
<1>1. output[i].rec \in Record /\ output[i].own.rec \in Record
  <2>1. output[i] \in OutputRecord
    BY DEF ProbeInv, DataOK
  <2> QED BY <2>1 DEF OutputRecord, Author
<1>2. Stored("output", output[i].rec, output[i].own.rec, {})
  BY DEF ProbeInv, Handed
<1> QED BY <1>1, <1>2, SameRecord, Places DEF Stored

(* Each field of a record is that of a DNS hook.                           *)
LEMMA ProbeFields == ProbeInv => FieldsOfDns
<1> SUFFICES ASSUME ProbeInv, NEW i \in 1 .. Len(output)
             PROVE  LET r == output[i].rec
                        authors == Dns({output[i].own} \cup output[i].peers)
                    IN  /\ r.direction \in {a.rec.direction : a \in authors}
                        /\ r.family \in {a.rec.family : a \in authors}
                        /\ r.src_port \in {a.rec.src_port : a \in authors}
                        /\ r.dst_port \in {a.rec.dst_port : a \in authors}
                        /\ r.payload_len \in {a.rec.payload_len : a \in authors} \cup {0}
                        /\ r.payload \in {a.rec.payload : a \in authors} \cup {Blank}
  BY DEF FieldsOfDns
<1> DEFINE r == output[i].rec
           o == output[i].own
           others == Dns(output[i].peers)
           authors == Dns({o} \cup output[i].peers)
<1>1. IsDns(o.sk) /\ Stored("output", r, o.rec, others)
  BY DEF ProbeInv, Handed
<1>2. o \in authors /\ others \subseteq authors
  BY <1>1 DEF Dns
<1> HIDE DEF r, o, others, authors
<1>3. /\ \E a \in authors : r.direction = a.rec.direction
      /\ \E a \in authors : r.family = a.rec.family
      /\ \E a \in authors : r.src_port = a.rec.src_port
      /\ \E a \in authors : r.dst_port = a.rec.dst_port
      /\ r.payload_len = 0 \/ \E a \in authors : r.payload_len = a.rec.payload_len
      /\ r.payload = Blank \/ \E a \in authors : r.payload = a.rec.payload
  BY <1>1, <1>2, Places DEF Stored
<1>4. /\ r.direction \in {a.rec.direction : a \in authors}
      /\ r.family \in {a.rec.family : a \in authors}
      /\ r.src_port \in {a.rec.src_port : a \in authors}
      /\ r.dst_port \in {a.rec.dst_port : a \in authors}
      /\ r.payload_len \in {a.rec.payload_len : a \in authors} \cup {0}
      /\ r.payload \in {a.rec.payload : a \in authors} \cup {Blank}
  BY <1>3
<1> QED BY <1>4 DEF r, o, authors

LEMMA ZeroedRecord == Zeroed \in Record
<1>1. 0 \in UInt16 /\ 0 \in 0 .. MAX_PAYLOAD
  BY Basics DEF UInt16
<1> QED BY <1>1 DEF Zeroed, Record, Contents

(* Nothing is in the buffers and no task is in a call.                     *)
LEMMA ProbeInitial == ProbeInit => ProbeInv
<1> SUFFICES ASSUME ProbeInit PROVE ProbeInv
  OBVIOUS
<1>1. Zeroed \in Record
  BY ZeroedRecord
<1>2. DataOK
  <2>1. calls \in 0 .. MaxCalls /\ 0 <= RingCap
    BY Basics DEF ProbeInit
  <2> QED BY <1>1, <2>1, EmptySeq DEF ProbeInit, DataOK
<1>3. CallsOK /\ \A t \in Tasks : call[t].pc = "user"
  BY CallFields DEF ProbeInit, CallsOK, Contents
<1>4. \A t \in Tasks : call[t].pc \notin InHook
  BY <1>3, Places
<1>5. Depth
  <2> SUFFICES ASSUME NEW c \in CPUs PROVE Cardinality(OnCpu(c)) <= MaxDepth
    BY DEF Depth
  <2>1. OnCpu(c) = {}
    BY <1>4 DEF OnCpu
  <2> QED BY <2>1, FS_EmptySet, Basics
<1>6. CallInv /\ \A t \in Tasks : Scratch(t)
  BY <1>3, <1>4, <1>5 DEF CallInv, Together, Scratch
<1>7. Handed
  <2>1. \A j \in 1 .. 0 : FALSE
    OBVIOUS
  <2>2. Len(output) = 0
    BY DEF ProbeInit
  <2> QED BY <2>1, <2>2 DEF Handed
<1> QED BY <1>2, <1>6, <1>7 DEF ProbeInv

(* More peers allow more.                                                  *)
LEMMA StoredMore ==
  ASSUME NEW pc, NEW s, NEW o, NEW P, NEW Q, P \subseteq Q, Stored(pc, s, o, Dns(P))
  PROVE  Stored(pc, s, o, Dns(Q))
<1>1. Dns(P) \subseteq Dns(Q)
  BY DEF Dns
<1> QED BY <1>1 DEF Stored

(* Entering a hook and receiving a datagram touch no record.               *)
LEMMA KernelKeeps ==
  ASSUME ProbeInv, CallInv', UNCHANGED <<scratch, ring, output, accepted>>, calls' \in 0 .. MaxCalls,
         \A t \in Tasks : call'[t].pc \in InHook =>
            \/ call'[t].pc = "direction"
            \/ /\ call'[t].pc = call[t].pc /\ call'[t].cpu = call[t].cpu /\ Self(t)' = Self(t)
               /\ call'[t].sk = call[t].sk /\ call[t].peers \subseteq call'[t].peers
  PROVE  ProbeInv'
<1>1. DataOK' /\ Handed'
  BY DEF ProbeInv, DataOK, Handed
<1>2. ASSUME NEW t \in Tasks PROVE Scratch(t)'
  <2> SUFFICES ASSUME call'[t].pc \in InHook
               PROVE  /\ call'[t].pc # "direction" => IsDns(call'[t].sk)
                      /\ Stored(call'[t].pc, scratch'[call'[t].cpu], (Self(t)').rec, Dns(call'[t].peers))
    BY DEF Scratch, Stored, Dns
  <2>1. CASE call'[t].pc = "direction"
    BY <2>1 DEF Stored
  <2>2. CASE call'[t].pc # "direction"
    <3>1. /\ call'[t].pc = call[t].pc /\ call'[t].cpu = call[t].cpu /\ Self(t)' = Self(t)
          /\ call'[t].sk = call[t].sk /\ call[t].peers \subseteq call'[t].peers
      BY <2>2
    <3>2. /\ IsDns(call[t].sk)
          /\ Stored(call[t].pc, scratch[call[t].cpu], Self(t).rec, Dns(call[t].peers))
      BY <2>2, <3>1 DEF ProbeInv, Scratch
    <3>3. Stored(call[t].pc, scratch[call[t].cpu], Self(t).rec, Dns(call'[t].peers))
      BY <3>1, <3>2, StoredMore
    <3> QED BY <3>1, <3>2, <3>3
  <2> QED BY <2>1, <2>2
<1> QED BY <1>1, <1>2 DEF ProbeInv

LEMMA KernelStep ==
  ASSUME ProbeInv,
         \/ \E c \in CPUs, t \in Tasks, sk \in Sockets, x \in Datagrams : Sendmsg(c, t, sk, x)
         \/ \E c \in CPUs, t \in Tasks, sk \in Sockets : Recvmsg(c, t, sk)
         \/ \E t \in Tasks, x \in Datagrams : Receive(t, x)
  PROVE  ProbeInv'
<1>0. CallInv /\ CallsOK /\ buf \in [Tasks -> Contents] /\ calls \in 0 .. MaxCalls
  BY DEF ProbeInv, DataOK, CallInv, CallsOK
<1>1. ASSUME NEW c \in CPUs, NEW t \in Tasks, NEW sk \in Sockets, NEW dir \in {DIR_SEND, DIR_RECV},
             NEW len \in Nat, NEW p \in Contents, Enter(c, t, sk, dir, len, p),
             UNCHANGED <<scratch, ring, output, accepted>>,
             buf' \in [Tasks -> Contents], buf'[t] = p, \A u \in Tasks : u # t => buf'[u] = buf[u]
      PROVE  ProbeInv'
  <2>1. CallInv'
    BY <1>0, <1>1, CallEnter
  <2>2. calls' \in 0 .. MaxCalls
    BY <1>0, <1>1, Basics DEF Enter
  <2>3. /\ call'[t].pc = "direction"
        /\ \A u \in Tasks : u # t =>
             /\ call'[u].pc = call[u].pc
             /\ call[u].pc \in InHook => Self(u)' = Self(u) /\ call'[u].cpu = call[u].cpu /\ call[u].peers \subseteq call'[u].peers
    BY <1>0, <1>1, Enters
  <2>4. ASSUME NEW u \in Tasks, u # t, call[u].pc \in InHook PROVE call'[u].sk = call[u].sk
    <3>1. Self(u)'.sk = call'[u].sk /\ Self(u).sk = call[u].sk
      BY DEF Self, AuthorOf
    <3> QED BY <2>3, <2>4, <3>1
  <2> QED BY <1>1, <2>1, <2>2, <2>3, <2>4, KernelKeeps
<1>2. ASSUME NEW c \in CPUs, NEW t \in Tasks, NEW sk \in Sockets, NEW x \in Datagrams, Sendmsg(c, t, sk, x)
      PROVE  ProbeInv'
  <2>1. SizeOf[x] \in Nat /\ DIR_SEND \in {DIR_SEND, DIR_RECV} /\ x \in Contents
    BY Basics DEF Contents
  <2>2. buf' \in [Tasks -> Contents] /\ buf'[t] = x /\ \A u \in Tasks : u # t => buf'[u] = buf[u]
    BY <1>0, <1>2, <2>1 DEF Sendmsg
  <2> QED BY <1>1, <1>2, <2>1, <2>2 DEF Sendmsg
<1>3. ASSUME NEW c \in CPUs, NEW t \in Tasks, NEW sk \in Sockets, Recvmsg(c, t, sk)
      PROVE  ProbeInv'
  <2>1. BufLen \in Nat /\ DIR_RECV \in {DIR_SEND, DIR_RECV} /\ buf[t] \in Contents
    BY <1>0, Basics
  <2> QED BY <1>0, <1>1, <1>3, <2>1 DEF Recvmsg
<1>4. ASSUME NEW t \in Tasks, NEW x \in Datagrams, Receive(t, x)
      PROVE  ProbeInv'
  <2>1. call[t].pc = "recv" /\ call' = [call EXCEPT ![t] = User] /\ buf' = [buf EXCEPT ![t] = x]
    BY <1>4 DEF Receive
  <2>2. CallsOK' /\ OthersStay(t) /\ call'[t].pc = "user"
    BY <1>0, <2>1, CallFields DEF CallsOK, OthersStay, Contents
  <2>3. call'[t].pc \notin InHook /\ \A u \in Tasks : u # t => buf'[u] = buf[u] /\ call'[u] = call[u]
    BY <1>0, <2>1, <2>2, Places DEF OthersStay
  <2>4. CallInv'
    <3>1. \A u \in Tasks : call[u].pc \in InHook => buf'[u] = buf[u]
      BY <2>1, <2>3, Places
    <3> QED BY <1>0, <2>2, <2>3, <3>1, CallStep
  <2>5. ASSUME NEW u \in Tasks, call'[u].pc \in InHook
        PROVE  /\ call'[u].pc = call[u].pc /\ call'[u].cpu = call[u].cpu /\ Self(u)' = Self(u)
               /\ call'[u].sk = call[u].sk /\ call[u].peers \subseteq call'[u].peers
    BY <2>3, <2>5 DEF Self
  <2> QED BY <1>0, <1>4, <2>4, <2>5, KernelKeeps DEF Receive
<1> QED BY <1>2, <1>3, <1>4

\* What a hook, w, may have stored over record s.
Stores(s, new, w) ==
  /\ new.direction \in {s.direction, w.rec.direction}
  /\ new.family \in {s.family, w.rec.family}
  /\ new.src_port \in {s.src_port, w.rec.src_port}
  /\ new.dst_port \in {s.dst_port, w.rec.dst_port}
  /\ new.payload_len \in {s.payload_len, w.rec.payload_len, 0}
  /\ new.payload \in {s.payload, w.rec.payload, Blank}

(* What a peer stores is a peer's.                                         *)
LEMMA StoredByPeer ==
  ASSUME NEW pc, NEW s, NEW o, NEW others, NEW new, NEW w \in others, Stored(pc, s, o, others), Stores(s, new, w)
  PROVE  Stored(pc, new, o, others)
<1>1. pc \in InHook \ {"direction"} =>
        new.direction = o.direction \/ \E a \in others : new.direction = a.rec.direction
  BY DEF Stored, Stores
<1>2. pc \in InHook \ {"direction", "family"} =>
        new.family = o.family \/ \E a \in others : new.family = a.rec.family
  BY DEF Stored, Stores
<1>3. pc \in InHook \ {"direction", "family", "src_port"} =>
        new.src_port = o.src_port \/ \E a \in others : new.src_port = a.rec.src_port
  BY DEF Stored, Stores
<1>4. pc \in InHook \ {"direction", "family", "src_port", "dst_port"} =>
        new.dst_port = o.dst_port \/ \E a \in others : new.dst_port = a.rec.dst_port
  BY DEF Stored, Stores
<1>5. pc \in {"length", "output"} =>
        new.payload = o.payload \/ \E a \in others : new.payload = a.rec.payload \/ new.payload = Blank
  BY DEF Stored, Stores
<1>6. pc = "output" => new.payload_len = o.payload_len
                       \/ \E a \in others : new.payload_len = a.rec.payload_len \/ new.payload_len = 0
  BY DEF Stored, Stores
<1> QED BY <1>1, <1>2, <1>3, <1>4, <1>5, <1>6 DEF Stored

(* What a DNS hook stores in its scratch buffer leaves the claims of the   *)
(* others as they were: those on its CPU have it for a peer.               *)
LEMMA OthersKeep ==
  ASSUME ProbeInv, NEW t \in Tasks, call[t].pc \in InHook, IsDns(call[t].sk), OthersStay(t), buf' = buf,
         NEW new \in Record, scratch' = [scratch EXCEPT ![call[t].cpu] = new],
         Stores(scratch[call[t].cpu], new, Self(t)),
         NEW u \in Tasks, u # t
  PROVE  Scratch(u)'
<1>1. call'[u] = call[u] /\ scratch \in [CPUs -> Record] /\ Scratch(u)
  BY DEF ProbeInv, DataOK, OthersStay
<1>2. Self(u)' = Self(u)
  BY <1>1 DEF Self
<1> SUFFICES ASSUME call[u].pc \in InHook
             PROVE  Stored(call[u].pc, scratch'[call[u].cpu], Self(u).rec, Dns(call[u].peers))
  BY <1>1, <1>2 DEF Scratch, Stored, Dns
<1>3. Stored(call[u].pc, scratch[call[u].cpu], Self(u).rec, Dns(call[u].peers)) /\ call[u].cpu \in CPUs
  BY <1>1, CallFields DEF Scratch, ProbeInv, CallInv, CallsOK
<1>4. CASE call[u].cpu = call[t].cpu
  <2>1. scratch'[call[u].cpu] = new
    BY <1>1, <1>3, <1>4
  <2>2. Self(t) \in call[u].peers
    BY <1>4 DEF ProbeInv, CallInv, Together, On
  <2>3. Self(t).sk = call[t].sk
    BY DEF Self, AuthorOf
  <2>4. Self(t) \in Dns(call[u].peers)
    BY <2>2, <2>3 DEF Dns
  <2> QED BY <1>3, <1>4, <2>1, <2>4, StoredByPeer
<1>5. CASE call[u].cpu # call[t].cpu
  <2>1. scratch'[call[u].cpu] = scratch[call[u].cpu]
    BY <1>1, <1>3, <1>5
  <2> QED BY <1>3, <2>1
<1> QED BY <1>4, <1>5

(* A step of a hook that hands nothing over.                               *)
LEMMA HookKeeps ==
  ASSUME ProbeInv, NEW t \in Tasks, call[t].pc \in InHook, OthersStay(t), CallInv',
         UNCHANGED <<buf, ring, calls, output, accepted>>,
         NEW new \in Record, scratch' = [scratch EXCEPT ![call[t].cpu] = new], IsDns(call[t].sk),
         Stores(scratch[call[t].cpu], new, Self(t)),
         Scratch(t)'
  PROVE  ProbeInv'
<1>1. DataOK' /\ Handed'
  BY DEF ProbeInv, DataOK, Handed
<1>2. \A u \in Tasks : Scratch(u)'
  BY OthersKeep
<1> QED BY <1>1, <1>2 DEF ProbeInv

(* The filter lets DNS sockets through.                                    *)
LEMMA WantedDns ==
  ASSUME NEW sk \in Sockets, Wanted(sk)
  PROVE  IsDns(sk)
<1>1. sk.family \in {"inet", "inet6", "other"}
  BY ProbeAssumption
<1> QED BY <1>1 DEF Wanted, IsDns, fam_short

(* A hook that is over makes no claims.                                    *)
LEMMA ReturnedScratch ==
  ASSUME NEW t \in Tasks, call'[t].pc \notin InHook
  PROVE  Scratch(t)'
BY DEF Scratch

(* A hook that returns without a store.                                    *)
LEMMA EarlyReturn ==
  ASSUME ProbeInv, NEW t \in Tasks, Ignore(t) \/ NoIov(t)
  PROVE  ProbeInv'
<1>1. call[t].pc \in InHook /\ Return(t, 0) /\ UNCHANGED <<buf, scratch, ring, calls, output, accepted>>
  BY Places DEF Ignore, NoIov
<1>2. CallsOK' /\ OthersStay(t) /\ call'[t].pc \notin InHook
  BY <1>1, Returns DEF ProbeInv, CallInv
<1>3. CallInv'
  BY <1>1, <1>2, CallStep DEF ProbeInv
<1>4. ASSUME NEW u \in Tasks, call'[u].pc \in InHook
      PROVE  /\ call'[u].pc = call[u].pc /\ call'[u].cpu = call[u].cpu /\ Self(u)' = Self(u)
             /\ call'[u].sk = call[u].sk /\ call[u].peers \subseteq call'[u].peers
  BY <1>1, <1>2, <1>4 DEF OthersStay, Self
<1>5. calls' \in 0 .. MaxCalls
  BY <1>1 DEF ProbeInv, DataOK
<1> QED BY <1>1, <1>3, <1>4, <1>5, KernelKeeps

(* A step of Store, if what it leaves is the hook's own and the hook's     *)
(* claims at its next place hold of it.                                    *)
LEMMA StoreStep ==
  ASSUME ProbeInv, NEW t \in Tasks, call[t].pc \in InHook, NEW new \in Record, NEW p \in InHook,
         Store(t, new, p), IsDns(call[t].sk),
         Stores(scratch[call[t].cpu], new, Self(t)),
         Stored(p, new, Self(t).rec, Dns(call[t].peers))
  PROVE  ProbeInv'
<1>1. /\ scratch' = [scratch EXCEPT ![call[t].cpu] = new] /\ call' = [call EXCEPT ![t].pc = p]
      /\ UNCHANGED <<buf, ring, calls, output, accepted>>
  BY DEF Store
<1>2. CallsOK' /\ Goes(t, p)
  BY <1>1, GoesOn DEF ProbeInv, CallInv
<1>3. CallInv' /\ OthersStay(t)
  BY <1>1, <1>2, CallStep DEF ProbeInv, Goes
<1>4. scratch'[call'[t].cpu] = new
  <2>1. call[t].cpu \in CPUs /\ scratch \in [CPUs -> Record] /\ call'[t].cpu = call[t].cpu
    BY <1>2, CallFields DEF ProbeInv, DataOK, CallInv, CallsOK, Goes
  <2> QED BY <1>1, <2>1
<1>5. Self(t)' = Self(t) /\ call'[t].sk = call[t].sk /\ call'[t].peers = call[t].peers /\ call'[t].pc = p
  BY <1>1, <1>2 DEF Goes, Self
<1>6. Scratch(t)'
  BY <1>4, <1>5 DEF Scratch, Stored, Dns
<1> QED BY <1>1, <1>3, <1>6, HookKeeps

\* What is known of a hook in the middle of its work.
LEMMA InTheMiddle ==
  ASSUME ProbeInv, NEW t \in Tasks, call[t].pc \in InHook
  PROVE  /\ call[t] \in Call /\ call[t].cpu \in CPUs /\ scratch[call[t].cpu] \in Record
         /\ call[t].sk \in Sockets /\ buf[t] \in Contents /\ call[t].len \in Nat
         /\ Self(t) \in Author /\ Self(t).sk = call[t].sk /\ Self(t).rec \in Record
         /\ Self(t).rec.direction = call[t].direction /\ Self(t).rec.family = fam_short(call[t].sk)
         /\ Self(t).rec.src_port = bpf_ntohs(call[t].sk.sport)
         /\ Self(t).rec.dst_port = bpf_ntohs(call[t].sk.dport)
         /\ Self(t).rec.payload_len = Clipped(call[t].len) /\ Self(t).rec.payload = buf[t]
         /\ Stored(call[t].pc, scratch[call[t].cpu], Self(t).rec, Dns(call[t].peers))
         /\ call[t].pc # "direction" => IsDns(call[t].sk)
<1>1. call[t] \in Call /\ buf[t] \in Contents
  BY CallFields DEF ProbeInv, CallInv, CallsOK
<1>2. /\ call[t].cpu \in CPUs /\ call[t].sk \in Sockets /\ call[t].direction \in {DIR_SEND, DIR_RECV}
      /\ call[t].len \in Nat
  BY <1>1, CallFields
<1>3. scratch[call[t].cpu] \in Record
  BY <1>2 DEF ProbeInv, DataOK
<1>4. /\ Stored(call[t].pc, scratch[call[t].cpu], Self(t).rec, Dns(call[t].peers))
      /\ call[t].pc # "direction" => IsDns(call[t].sk)
  BY DEF ProbeInv, Scratch
<1> QED BY <1>1, <1>2, <1>3, <1>4, AuthorTyped DEF Self

\* s and new agree but for the fields in fs.
SameBut(s, new, fs) ==
  /\ "direction" \in fs \/ new.direction = s.direction
  /\ "family" \in fs \/ new.family = s.family
  /\ "src_port" \in fs \/ new.src_port = s.src_port
  /\ "dst_port" \in fs \/ new.dst_port = s.dst_port
  /\ "payload_len" \in fs \/ new.payload_len = s.payload_len
  /\ "payload" \in fs \/ new.payload = s.payload

(* The header, one field at a time.                                        *)
LEMMA HeaderStep ==
  ASSUME ProbeInv, NEW t \in Tasks, WriteHeader(t)
  PROVE  ProbeInv'
<1> DEFINE e == scratch[call[t].cpu]
           o == Self(t).rec
           others == Dns(call[t].peers)
<1>1. call[t].pc \in InHook /\ Wanted(call[t].sk)
  BY Places DEF WriteHeader
<1>2. /\ e \in Record /\ o \in Record /\ call[t].sk \in Sockets
      /\ o.direction = call[t].direction /\ o.family = fam_short(call[t].sk)
      /\ o.src_port = bpf_ntohs(call[t].sk.sport) /\ o.dst_port = bpf_ntohs(call[t].sk.dport)
      /\ Stored(call[t].pc, e, o, others)
  BY <1>1, InTheMiddle
<1>3. IsDns(call[t].sk)
  BY <1>1, <1>2, WantedDns
<1> HIDE DEF e, o, others
<1>4. ASSUME NEW new \in Record, NEW p \in InHook, Store(t, new, p), Stores(e, new, Self(t)), Stored(p, new, o, others)
      PROVE  ProbeInv'
  BY <1>1, <1>3, <1>4, StoreStep DEF e, o, others
<1>5. CASE call[t].pc = "direction" /\ Store(t, [e EXCEPT !.direction = call[t].direction], "family")
  <2> DEFINE new == [e EXCEPT !.direction = call[t].direction]
  <2>1. new \in Record /\ new.direction = o.direction /\ SameBut(e, new, {"direction"})
    BY <1>2 DEF Record, SameBut
  <2>2. Store(t, new, "family")
    BY <1>5
  <2> HIDE DEF new
  <2>3. Stores(e, new, Self(t)) /\ Stored("family", new, o, others)
    BY <1>2, <1>5, <2>1, Places DEF Stores, Stored, SameBut, o
  <2> QED BY <1>4, <2>1, <2>2, <2>3, Places
<1>6. CASE call[t].pc = "family" /\ Store(t, [e EXCEPT !.family = fam_short(call[t].sk)], "src_port")
  <2> DEFINE new == [e EXCEPT !.family = fam_short(call[t].sk)]
  <2>1. new \in Record /\ new.family = o.family /\ SameBut(e, new, {"family"})
    BY <1>2 DEF Record, SameBut
  <2>2. Store(t, new, "src_port")
    BY <1>6
  <2> HIDE DEF new
  <2>3. Stores(e, new, Self(t)) /\ Stored("src_port", new, o, others)
    BY <1>2, <1>6, <2>1, Places DEF Stores, Stored, SameBut, o
  <2> QED BY <1>4, <2>1, <2>2, <2>3, Places
<1>7. CASE call[t].pc = "src_port" /\ Store(t, [e EXCEPT !.src_port = bpf_ntohs(call[t].sk.sport)], "dst_port")
  <2> DEFINE new == [e EXCEPT !.src_port = bpf_ntohs(call[t].sk.sport)]
  <2>1. new \in Record /\ new.src_port = o.src_port /\ SameBut(e, new, {"src_port"})
    BY <1>2 DEF Record, SameBut
  <2>2. Store(t, new, "dst_port")
    BY <1>7
  <2> HIDE DEF new
  <2>3. Stores(e, new, Self(t)) /\ Stored("dst_port", new, o, others)
    BY <1>2, <1>7, <2>1, Places DEF Stores, Stored, SameBut, o
  <2> QED BY <1>4, <2>1, <2>2, <2>3, Places
<1>8. CASE call[t].pc = "dst_port" /\ Store(t, [e EXCEPT !.dst_port = bpf_ntohs(call[t].sk.dport)], "payload_len")
  <2> DEFINE new == [e EXCEPT !.dst_port = bpf_ntohs(call[t].sk.dport)]
  <2>1. new \in Record /\ new.dst_port = o.dst_port /\ SameBut(e, new, {"dst_port"})
    BY <1>2 DEF Record, SameBut
  <2>2. Store(t, new, "payload_len")
    BY <1>8
  <2> HIDE DEF new
  <2>3. Stores(e, new, Self(t)) /\ Stored("payload_len", new, o, others)
    BY <1>2, <1>8, <2>1, Places DEF Stores, Stored, SameBut, o
  <2> QED BY <1>4, <2>1, <2>2, <2>3, Places
<1>9. CASE call[t].pc = "payload_len" /\ Store(t, [e EXCEPT !.payload_len = 0], "read")
  <2> DEFINE new == [e EXCEPT !.payload_len = 0]
  <2>1. new \in Record /\ new.payload_len = 0 /\ SameBut(e, new, {"payload_len"})
    BY <1>2, Basics DEF Record, SameBut
  <2>2. Store(t, new, "read")
    BY <1>9
  <2> HIDE DEF new
  <2>3. Stores(e, new, Self(t)) /\ Stored("read", new, o, others)
    BY <1>2, <1>9, <2>1, Places DEF Stores, Stored, SameBut, o
  <2> QED BY <1>4, <2>1, <2>2, <2>3, Places
<1> QED BY <1>5, <1>6, <1>7, <1>8, <1>9 DEF WriteHeader, e

(* The payload and its length.                                             *)
LEMMA PayloadStep ==
  ASSUME ProbeInv, NEW t \in Tasks, ReadAgain(t) \/ ReadPayload(t) \/ SetLength(t)
  PROVE  ProbeInv'
<1> DEFINE e == scratch[call[t].cpu]
           o == Self(t).rec
           others == Dns(call[t].peers)
<1>1. call[t].pc \in {"read", "reread", "length"} /\ call[t].pc \in InHook
  BY Places DEF ReadAgain, ReadPayload, SetLength
<1>2. /\ e \in Record /\ o \in Record /\ buf[t] \in Contents /\ call[t].len \in Nat
      /\ o.payload = buf[t] /\ o.payload_len = Clipped(call[t].len)
      /\ Stored(call[t].pc, e, o, others) /\ IsDns(call[t].sk)
  BY <1>1, InTheMiddle
<1> HIDE DEF e, o, others
<1>3. ASSUME NEW new \in Record, NEW p \in InHook, Store(t, new, p), Stores(e, new, Self(t)), Stored(p, new, o, others)
      PROVE  ProbeInv'
  BY <1>1, <1>2, <1>3, StoreStep DEF e, o, others
<1>4. CASE ReadAgain(t)
  <2> DEFINE new == [e EXCEPT !.payload = Blank]
  <2>1. new \in Record /\ new.payload = Blank /\ SameBut(e, new, {"payload"})
    BY <1>2 DEF Record, SameBut, Contents
  <2>2. Store(t, new, "reread") /\ call[t].pc = "read"
    BY <1>4 DEF ReadAgain, e
  <2> HIDE DEF new
  <2>3. Stores(e, new, Self(t)) /\ Stored("reread", new, o, others)
    BY <1>2, <2>1, <2>2, Places DEF Stores, Stored, SameBut, o
  <2> QED BY <1>3, <2>1, <2>2, <2>3, Places
<1>5. CASE ReadPayload(t)
  <2> DEFINE new == [e EXCEPT !.payload = buf[t]]
  <2>1. new \in Record /\ new.payload = o.payload /\ SameBut(e, new, {"payload"})
    BY <1>2 DEF Record, SameBut
  <2>2. Store(t, new, "length") /\ call[t].pc \in {"read", "reread"}
    BY <1>5 DEF ReadPayload, e
  <2> HIDE DEF new
  <2>3. Stores(e, new, Self(t)) /\ Stored("length", new, o, others)
    BY <1>2, <2>1, <2>2, Places DEF Stores, Stored, SameBut, o
  <2> QED BY <1>3, <2>1, <2>2, <2>3, Places
<1>6. CASE SetLength(t)
  <2> DEFINE new == [e EXCEPT !.payload_len = Clipped(call[t].len)]
  <2>1. new \in Record /\ new.payload_len = o.payload_len /\ SameBut(e, new, {"payload_len"})
    BY <1>2, ClippedFits DEF Record, SameBut
  <2>2. Store(t, new, "output") /\ call[t].pc = "length"
    BY <1>6 DEF SetLength, e
  <2> HIDE DEF new
  <2>3. Stores(e, new, Self(t)) /\ Stored("output", new, o, others)
    BY <1>2, <2>1, <2>2, Places DEF Stores, Stored, SameBut, o
  <2> QED BY <1>3, <2>1, <2>2, <2>3, Places
<1> QED BY <1>4, <1>5, <1>6

(* A hook that cannot read the caller's buffer leaves zeroes behind.       *)
LEMMA ReadFailsStep ==
  ASSUME ProbeInv, NEW t \in Tasks, ReadFails(t)
  PROVE  ProbeInv'
<1> DEFINE e == scratch[call[t].cpu]
           new == [e EXCEPT !.payload = Blank]
<1>1. /\ call[t].pc = "reread" /\ scratch' = [scratch EXCEPT ![call[t].cpu] = new] /\ Return(t, 0)
      /\ UNCHANGED <<buf, ring, calls, output, accepted>>
  BY DEF ReadFails
<1>2. call[t].pc \in InHook
  BY <1>1, Places
<1>3. e \in Record /\ IsDns(call[t].sk)
  BY <1>1, <1>2, InTheMiddle
<1>4. new \in Record /\ new.payload = Blank /\ SameBut(e, new, {"payload"})
  BY <1>3 DEF Record, SameBut, Contents
<1> HIDE DEF new
<1>5. Stores(e, new, Self(t))
  BY <1>4 DEF Stores, SameBut
<1>6. CallsOK' /\ OthersStay(t) /\ call'[t].pc \notin InHook
  BY <1>1, <1>2, Returns DEF ProbeInv, CallInv
<1>7. CallInv'
  BY <1>1, <1>6, CallStep DEF ProbeInv
<1> QED BY <1>1, <1>2, <1>3, <1>4, <1>5, <1>6, <1>7, HookKeeps, ReturnedScratch

(* A record is handed over, if there is room.                              *)
LEMMA OutputStep ==
  ASSUME ProbeInv, NEW t \in Tasks, Output(t)
  PROVE  ProbeInv'
<1> DEFINE rec == scratch[call[t].cpu]
           new == [rec |-> rec, own |-> Self(t), peers |-> call[t].peers]
<1>1. call[t].pc = "output" /\ Return(t, Len(output) + 1) /\ UNCHANGED <<buf, scratch, calls>>
  BY DEF Output
<1>2. call[t].pc \in InHook /\ "output" # "direction"
  BY <1>1, Places
<1>3. /\ rec \in Record /\ Self(t) \in Author /\ call[t].peers \in SUBSET Author /\ IsDns(Self(t).sk)
      /\ Stored("output", rec, Self(t).rec, Dns(call[t].peers))
  BY <1>1, <1>2, InTheMiddle, CallFields
<1>4. /\ ring \in Seq(Record) /\ Len(ring) <= RingCap /\ Len(ring) \in Nat
      /\ output \in Seq(OutputRecord) /\ accepted \in Seq(Record) /\ Len(output) \in Nat
  BY DEF ProbeInv, DataOK
<1>5. CallsOK' /\ OthersStay(t) /\ call'[t].pc \notin InHook
  <2>1. CallsOK /\ Len(output) + 1 \in Nat
    BY <1>4 DEF ProbeInv, CallInv
  <2> QED BY <1>1, <1>2, <2>1, Returns
<1>6. CallInv'
  BY <1>1, <1>5, CallStep DEF ProbeInv
<1>7. \/ Len(ring) < RingCap /\ ring' = Append(ring, rec) /\ accepted' = Append(accepted, rec)
      \/ UNCHANGED <<ring, accepted>>
  BY DEF Output
<1>8. output' = Append(output, new)
  BY DEF Output
<1>9. new \in OutputRecord /\ new.rec = rec /\ new.own = Self(t) /\ new.peers = call[t].peers
  BY <1>3 DEF OutputRecord
<1> HIDE DEF new, rec
<1>10. DataOK'
  <2>1. output' \in Seq(OutputRecord)
    BY <1>4, <1>8, <1>9
  <2>2. ring' \in Seq(Record) /\ Len(ring') <= RingCap /\ accepted' \in Seq(Record)
    <3>1. RingCap \in Nat
      BY Basics
    <3>2. CASE Len(ring) < RingCap /\ ring' = Append(ring, rec) /\ accepted' = Append(accepted, rec)
      BY <1>3, <1>4, <3>1, <3>2
    <3> QED BY <1>4, <1>7, <3>2
  <2> QED BY <1>1, <2>1, <2>2 DEF ProbeInv, DataOK
<1>11. ASSUME NEW u \in Tasks PROVE Scratch(u)'
  <2>1. CASE u = t
    BY <1>5, <2>1, ReturnedScratch
  <2>2. CASE u # t
    <3>1. call'[u] = call[u] /\ scratch' = scratch /\ buf' = buf /\ Scratch(u)
      BY <1>1, <1>5, <2>2 DEF OthersStay, ProbeInv
    <3>2. Self(u)' = Self(u)
      BY <3>1 DEF Self
    <3> QED BY <3>1, <3>2 DEF Scratch, Stored, Dns
  <2> QED BY <2>1, <2>2
<1>12. Handed'
  <2>1. /\ Len(output') = Len(output) + 1 /\ output'[Len(output) + 1] = new
        /\ \A j \in 1 .. Len(output) : output'[j] = output[j]
    BY <1>4, <1>8, <1>9
  <2>2. ASSUME NEW j \in 1 .. Len(output')
        PROVE  IsDns(output'[j].own.sk) /\ Stored("output", output'[j].rec, output'[j].own.rec, Dns(output'[j].peers))
    <3>1. CASE j = Len(output) + 1
      BY <1>3, <1>9, <2>1, <3>1
    <3>2. CASE j # Len(output) + 1
      <4>1. j \in 1 .. Len(output)
        BY <1>4, <2>1, <3>2
      <4> QED BY <2>1, <4>1 DEF ProbeInv, Handed
    <3> QED BY <3>1, <3>2
  <2> QED BY <2>2 DEF Handed, Stored, Dns
<1> QED BY <1>6, <1>10, <1>11, <1>12 DEF ProbeInv

(* Every step of the kernel keeps the records what they should be.         *)
LEMMA ProbeKernel == ProbeInv /\ Kernel => ProbeInv'
BY KernelStep, EarlyReturn, HeaderStep, PayloadStep, ReadFailsStep, OutputStep DEF Kernel, Hook

(* The reader takes records from the ring buffer and touches nothing else. *)
LEMMA ProbeReads ==
  ASSUME ProbeInv, UNCHANGED <<buf, call, scratch, calls, output, accepted>>,
         ring' = ring \/ (ring # <<>> /\ ring' = Tail(ring))
  PROVE  ProbeInv'
<1>1. ring \in Seq(Record) /\ Len(ring) <= RingCap /\ Len(ring) \in Nat /\ RingCap \in Nat
  BY Basics DEF ProbeInv, DataOK
<1>2. ring' \in Seq(Record) /\ Len(ring') <= RingCap
  <2>1. CASE ring # <<>> /\ ring' = Tail(ring)
    <3>1. ring' \in Seq(Record) /\ Len(ring') = Len(ring) - 1
      BY <1>1, <2>1, HeadTailProperties
    <3> QED BY <1>1, <3>1
  <2> QED BY <1>1, <2>1
<1>3. DataOK'
  BY <1>2 DEF ProbeInv, DataOK
<1>4. \A t \in Tasks : Self(t)' = Self(t)
  BY DEF Self
<1>5. CallInv'
  BY <1>4 DEF ProbeInv, CallInv, CallsOK, Depth, OnCpu, Together, On
<1>6. (\A t \in Tasks : Scratch(t)') /\ Handed'
  BY <1>4 DEF ProbeInv, Scratch, Handed, Stored, Dns
<1> QED BY <1>3, <1>5, <1>6 DEF ProbeInv

----------------------------------------------------------------------------
(* The daemon.                                                             *)

Opening == {"rlimit", "objs", "send", "recv", "rd"}

Phases == {"rlimit", "objs", "send", "recv", "rd", "failed", "start", "running", "shutdown",
           "cancel", "closeReader", "closeLinks", "closeObjs", "return", "exited"}

(* What is open in each phase of main, and where Loader.Run is.            *)
Life ==
  /\ phase \in Phases
  /\ res \in [Resources -> {"none", "open", "closed"}]
  /\ src \in {"none", "read", "send", "returned"}
  /\ phase \in {"rlimit", "objs"} => \A r \in Resources : res[r] = "none"
  /\ phase = "send" => res["objs"] = "open" /\ \A r \in {"send", "recv", "rd"} : res[r] = "none"
  /\ phase = "recv" => (\A r \in {"objs", "send"} : res[r] = "open") /\ \A r \in {"recv", "rd"} : res[r] = "none"
  /\ phase = "rd" => (\A r \in {"objs", "send", "recv"} : res[r] = "open") /\ res["rd"] = "none"
  /\ phase = "start" => \A r \in Resources : res[r] = "open"
  /\ phase = "failed" => \A r \in Resources : res[r] # "open"
  /\ phase \in {"running", "shutdown", "cancel", "closeReader", "closeLinks", "closeObjs"} => res["objs"] = "open"
  /\ phase \in {"running", "shutdown", "cancel", "closeReader", "closeLinks"} =>
       res["send"] = "open" /\ res["recv"] = "open"
  /\ phase \in {"running", "shutdown", "cancel", "closeReader"} => res["rd"] \in {"open", "closed"}
  /\ phase \in {"closeLinks", "closeObjs", "return"} => res["rd"] = "closed"
  /\ phase \in {"closeObjs", "return"} => res["send"] = "closed" /\ res["recv"] = "closed"
  /\ phase = "return" => res["objs"] = "closed"
  /\ phase \in Opening \cup {"failed", "start"} => src = "none"
  /\ phase = "running" => src # "none"
  /\ phase \in {"shutdown", "cancel", "closeReader", "closeLinks", "closeObjs", "return"} => src = "returned"
  /\ phase = "exited" => src \in {"none", "returned"}
  /\ status \in {NoStatus, "0", "1", "2", "killed"}
  /\ status = "0" => phase = "exited" /\ src = "returned" /\ \A r \in Resources : res[r] = "closed"

LEMMA LifeInit == Init => Life
BY DEF Init, Life, Phases, Opening, Resources, NoStatus

LEMMA LifeStartup == Life /\ Startup => Life'
<1> SUFFICES ASSUME Life, Startup PROVE Life'
  OBVIOUS
<1> USE DEF Resources, NoStatus, Phases, Opening
<1>1. ASSUME NEW ok \in BOOLEAN, RemoveMemlock(ok) PROVE Life'
  BY <1>1 DEF Life, RemoveMemlock, NewFails, Closed, srcVars
<1>2. ASSUME NEW ok \in BOOLEAN, NEW r \in Resources, Open(r, ok) PROVE Life'
  <2>1. phase = r /\ UNCHANGED <<src, status>>
    BY <1>2 DEF Open, srcVars
  <2>2. CASE ok
    <3>1. phase' = Following(r) /\ res' = [res EXCEPT ![r] = "open"]
      BY <1>2, <2>2 DEF Open
    <3> QED BY <2>1, <3>1 DEF Life, Following
  <2>3. CASE ~ok
    <3>1. phase' = "failed" /\ res' = Closed(CloseOnError(r))
      BY <1>2, <2>3 DEF Open, NewFails
    <3> QED BY <2>1, <3>1 DEF Life, Closed, CloseOnError
  <2> QED BY <2>2, <2>3
<1>3. CASE ExitFailed
  BY <1>3 DEF Life, ExitFailed, srcVars
<1>4. ASSUME NEW listens \in BOOLEAN, Start(listens) PROVE Life'
  BY <1>4 DEF Life, Start
<1> QED BY <1>1, <1>2, <1>3, <1>4 DEF Startup

LEMMA LifeStop == Life /\ (Stop \/ Sigterm) => Life'
<1> SUFFICES ASSUME Life, Stop \/ Sigterm PROVE Life'
  OBVIOUS
<1> USE DEF Resources, NoStatus, Phases, Opening
<1>1. CASE RunReturns
  BY <1>1 DEF Life, RunReturns, srcVars
<1>2. CASE StopListening
  BY <1>2 DEF Life, StopListening, srcVars, mainVars
<1>3. CASE ShutdownReturns \/ CancelContext
  BY <1>3 DEF Life, ShutdownReturns, CancelContext, srcVars
<1>4. CASE CloseLoader
  <2>1. UNCHANGED <<src, status>>
    BY <1>4 DEF CloseLoader, srcVars
  <2>2. CASE phase = "closeReader"
    <3>1. res' = Closed({"rd"}) /\ phase' = "closeLinks"
      BY <1>4, <2>2 DEF CloseLoader
    <3> QED BY <2>1, <2>2, <3>1 DEF Life, Closed
  <2>3. CASE phase = "closeLinks"
    <3>1. res' = Closed({"send", "recv"}) /\ phase' = "closeObjs"
      BY <1>4, <2>3 DEF CloseLoader
    <3> QED BY <2>1, <2>3, <3>1 DEF Life, Closed
  <2>4. CASE phase = "closeObjs"
    <3>1. res' = Closed({"objs"}) /\ phase' = "return"
      BY <1>4, <2>4 DEF CloseLoader
    <3> QED BY <2>1, <2>4, <3>1 DEF Life, Closed
  <2> QED BY <1>4, <2>2, <2>3, <2>4 DEF CloseLoader
<1>5. CASE MainReturns
  BY <1>5 DEF Life, MainReturns, srcVars
<1>6. CASE Sigterm
  BY <1>6 DEF Life, Sigterm, srcVars
<1> QED BY <1>1, <1>2, <1>3, <1>4, <1>5, <1>6 DEF Stop

LEMMA LifeSource == Life /\ (CloseReader \/ Source) => Life'
<1> SUFFICES ASSUME Life, CloseReader \/ Source PROVE Life'
  OBVIOUS
<1> USE DEF Resources, NoStatus, Phases, Opening
<1>0. phase # "exited" /\ phase' = phase /\ status' = status
  BY DEF CloseReader, Source, Read, ReadError, SendEvent, AbandonEvent, SourceStep, Alive
<1>1. CASE CloseReader
  <2>1. src' = src /\ src # "none" /\ res["rd"] = "open" /\ res' = Closed({"rd"})
    BY <1>1 DEF CloseReader, srcVars
  <2> QED BY <1>0, <2>1 DEF Life, Closed
<1>2. CASE Source
  <2>1. src \in {"read", "send"} /\ src' \in {"read", "send", "returned"} /\ res' = res
    BY <1>2 DEF Source, Read, ReadError, SendEvent, AbandonEvent
  <2>2. phase = "running"
    BY <1>0, <2>1 DEF Life
  <2> QED BY <1>0, <2>1, <2>2 DEF Life
<1> QED BY <1>1, <1>2

LEMMA LifeNext == Life /\ [Next]_vars => Life'
<1>1. ASSUME Life, Kernel \/ Scrape \/ Scraped \/ Terminated \/ UNCHANGED vars PROVE Life'
  <2>1. UNCHANGED <<phase, res, src, status>>
    BY <1>1 DEF Kernel, Scrape, Scraped, Terminated, vars, srcVars, mainVars
  <2> QED BY <1>1, <2>1 DEF Life
<1> QED BY <1>1, LifeStartup, LifeStop, LifeSource DEF Next

----------------------------------------------------------------------------
(* The events.                                                             *)

(* Loader.Run holds an event only between Read and the select's outcome.   *)
EventsOK ==
  /\ held \in Seq(Event) /\ Len(held) <= 1 /\ (src = "send" => Len(held) = 1)
  /\ src \in {"none", "read"} => held = <<>>
  /\ srcErr \in BOOLEAN /\ ctxDone \in BOOLEAN
  /\ delivered \in Seq(Event)
  /\ http \in {"off", "set", "up", "closed"} /\ conns \in 0 .. MaxConns

(* A record is decoded into an event.                                      *)
LEMMA DecodeEvent == \A rec \in Record : Decodes(rec) /\ Decode(rec) \in Event
BY Basics DEF Record, Decodes, Decode, Event

(* The events of a sequence of records, as it grows and shrinks.           *)
LEMMA EventsSeq ==
  ASSUME NEW s \in Seq(Record)
  PROVE  Events(s) \in Seq(Event) /\ Len(Events(s)) = Len(s) /\ \A j \in 1 .. Len(s) : Events(s)[j] = Decode(s[j])
<1>1. Events(s) = [j \in 1 .. Len(s) |-> Decode(s[j])] /\ Len(s) \in Nat
  BY DEF Events
<1>2. \A j \in 1 .. Len(s) : Decode(s[j]) \in Event
  BY DecodeEvent
<1> QED BY <1>1, <1>2

LEMMA EventsAppend ==
  ASSUME NEW s \in Seq(Record), NEW rec \in Record
  PROVE  Events(Append(s, rec)) = Append(Events(s), Decode(rec))
<1> DEFINE u == Append(s, rec)
           e == Events(s)
           v == Append(e, Decode(rec))
<1>1. /\ u \in Seq(Record) /\ Len(u) = Len(s) + 1 /\ u[Len(s) + 1] = rec /\ Len(s) \in Nat
      /\ \A j \in 1 .. Len(s) : u[j] = s[j]
  OBVIOUS
<1>2. e \in Seq(Event) /\ Len(e) = Len(s) /\ \A j \in 1 .. Len(s) : e[j] = Decode(s[j])
  BY EventsSeq
<1>3. Decode(rec) \in Event
  BY DecodeEvent
<1> HIDE DEF u, e
<1>4. /\ v \in Seq(Event) /\ Len(v) = Len(s) + 1 /\ v[Len(s) + 1] = Decode(rec)
      /\ \A j \in 1 .. Len(s) : v[j] = Decode(s[j])
  BY <1>2, <1>3, AppendProperties
<1>5. /\ Events(u) \in Seq(Event) /\ Len(Events(u)) = Len(s) + 1
      /\ \A j \in 1 .. Len(s) + 1 : Events(u)[j] = Decode(u[j])
  BY <1>1, EventsSeq
<1> HIDE DEF v
<1>6. \A j \in 1 .. Len(s) + 1 : Events(u)[j] = v[j]
  <2> SUFFICES ASSUME NEW j \in 1 .. Len(s) + 1 PROVE Decode(u[j]) = v[j]
    BY <1>5
  <2>1. j \in 1 .. Len(s) \/ j = Len(s) + 1
    BY <1>1
  <2> QED BY <1>1, <1>4, <2>1
<1>7. Events(u) = v
  BY <1>4, <1>5, <1>6, SeqEqual
<1> QED BY <1>7 DEF u, e, v

LEMMA EventsTail ==
  ASSUME NEW s \in Seq(Record), s # <<>>
  PROVE  Events(s) = <<Decode(Head(s))>> \o Events(Tail(s)) /\ Decode(Head(s)) \in Event /\ Tail(s) \in Seq(Record)
<1> DEFINE u == Tail(s)
           e == Events(u)
           h == <<Decode(Head(s))>>
           v == h \o e
<1>1. /\ u \in Seq(Record) /\ Len(u) = Len(s) - 1 /\ Len(s) \in Nat /\ Head(s) \in Record /\ Head(s) = s[1]
      /\ \A j \in 1 .. Len(u) : u[j] = s[j + 1]
  BY HeadTailProperties
<1>2. h \in Seq(Event) /\ Len(h) = 1 /\ h[1] = Decode(s[1]) /\ Decode(Head(s)) \in Event
  BY <1>1, DecodeEvent
<1> HIDE DEF u, h
<1>3. e \in Seq(Event) /\ Len(e) = Len(u) /\ \A j \in 1 .. Len(u) : e[j] = Decode(u[j])
  BY <1>1, EventsSeq
<1> HIDE DEF e
<1>4. /\ v \in Seq(Event) /\ Len(v) = Len(h) + Len(e)
      /\ \A j \in 1 .. Len(h) + Len(e) : v[j] = IF j <= Len(h) THEN h[j] ELSE e[j - Len(h)]
  BY <1>2, <1>3, ConcatProperties, Zenon
<1>5. Events(s) \in Seq(Event) /\ Len(Events(s)) = Len(s) /\ \A j \in 1 .. Len(s) : Events(s)[j] = Decode(s[j])
  BY EventsSeq
<1> HIDE DEF v
<1>6. Len(v) = Len(s)
  BY <1>1, <1>2, <1>3, <1>4
<1>7. ASSUME NEW j \in 1 .. Len(s) PROVE Events(s)[j] = v[j]
  <2>1. CASE j = 1
    BY <1>1, <1>2, <1>4, <1>5, <1>6, <2>1
  <2>2. CASE j # 1
    <3>1. j - 1 \in 1 .. Len(u) /\ (j - 1) + 1 = j /\ j \in 1 .. Len(h) + Len(e) /\ ~(j <= Len(h))
      BY <1>1, <1>2, <1>3, <2>2
    <3>2. v[j] = e[j - 1] /\ e[j - 1] = Decode(u[j - 1]) /\ u[j - 1] = s[j]
      BY <1>1, <1>2, <1>3, <1>4, <3>1
    <3> QED BY <1>5, <3>2
  <2> QED BY <2>1, <2>2
<1>8. Events(s) = v
  BY <1>4, <1>5, <1>6, <1>7, SeqEqual
<1> QED BY <1>1, <1>2, <1>8 DEF u, e, h, v

InOrder == EventsOK /\ DeliveredInOrder

(* What a step of the kernel does to the queue: a record goes to its end,  *)
(* or is dropped.                                                          *)
LEMMA OrderKernel ==
  ASSUME ProbeInv, InOrder, Kernel
  PROVE  InOrder'
<1>1. UNCHANGED <<held, delivered, src, srcErr, ctxDone, http, conns>>
  BY DEF Kernel, srcVars, httpVars, mainVars
<1>2. EventsOK'
  BY <1>1 DEF InOrder, EventsOK
<1>3. \/ UNCHANGED <<ring, accepted>>
      \/ \E rec \in Record : ring' = Append(ring, rec) /\ accepted' = Append(accepted, rec)
  <2>1. ASSUME NEW t \in Tasks, Output(t)
        PROVE  \/ UNCHANGED <<ring, accepted>>
               \/ \E rec \in Record : ring' = Append(ring, rec) /\ accepted' = Append(accepted, rec)
    <3>1. scratch[call[t].cpu] \in Record
      BY <2>1, InTheMiddle, Places DEF Output
    <3> QED BY <2>1, <3>1 DEF Output
  <2>2. ASSUME NEW t \in Tasks, Ignore(t) \/ WriteHeader(t) \/ NoIov(t) \/ ReadAgain(t) \/ ReadFails(t)
                               \/ ReadPayload(t) \/ SetLength(t)
        PROVE  UNCHANGED <<ring, accepted>>
    BY <2>2 DEF Ignore, WriteHeader, NoIov, ReadAgain, ReadFails, ReadPayload, SetLength, Store
  <2>3. ASSUME NEW c \in CPUs, NEW t \in Tasks, NEW sk \in Sockets, NEW x \in Datagrams,
               Sendmsg(c, t, sk, x)
        PROVE  UNCHANGED <<ring, accepted>>
    BY <2>3 DEF Sendmsg
  <2>4. ASSUME NEW c \in CPUs, NEW t \in Tasks, NEW sk \in Sockets, Recvmsg(c, t, sk)
        PROVE  UNCHANGED <<ring, accepted>>
    BY <2>4 DEF Recvmsg
  <2>5. ASSUME NEW t \in Tasks, NEW x \in Datagrams, Receive(t, x) PROVE UNCHANGED <<ring, accepted>>
    BY <2>5 DEF Receive
  <2> QED BY <2>1, <2>2, <2>3, <2>4, <2>5 DEF Kernel, Hook
<1>4. CASE UNCHANGED <<ring, accepted>>
  BY <1>1, <1>2, <1>4 DEF InOrder, DeliveredInOrder, Events
<1>5. ASSUME NEW rec \in Record, ring' = Append(ring, rec), accepted' = Append(accepted, rec)
      PROVE  InOrder'
  <2> DEFINE e == Decode(rec)
             front == delivered \o held
             old == Events(ring)
  <2>1. ring \in Seq(Record) /\ accepted \in Seq(Record)
    BY DEF ProbeInv, DataOK
  <2>2. e \in Event /\ old \in Seq(Event) /\ front \in Seq(Event)
    BY <2>1, DecodeEvent, EventsSeq DEF InOrder, EventsOK
  <2>3. Events(accepted) = front \o old
    BY DEF InOrder, DeliveredInOrder
  <2>4. Events(ring') = Append(old, e) /\ Events(accepted') = Append(front \o old, e)
    BY <1>5, <2>1, <2>3, EventsAppend
  <2> HIDE DEF e, front, old
  <2>5. front \o Append(old, e) = Append(front \o old, e)
    <3> DEFINE last == <<e>>
    <3>1. last \in Seq(Event) /\ front \o old \in Seq(Event)
      BY <2>2
    <3>2. Append(old, e) = old \o last /\ Append(front \o old, e) = (front \o old) \o last
      BY <2>2, <3>1, AppendIsConcat
    <3> HIDE DEF last
    <3>3. (front \o old) \o last = front \o (old \o last)
      BY <2>2, <3>1, ConcatAssociative
    <3> QED BY <3>2, <3>3
  <2>6. Events(accepted') = front \o Events(ring')
    BY <2>4, <2>5
  <2>7. Events(accepted') = delivered' \o held' \o Events(ring')
    BY <1>1, <2>6 DEF front
  <2> QED BY <1>2, <2>7 DEF InOrder, DeliveredInOrder
<1> QED BY <1>3, <1>4, <1>5

(* Read takes the head of the queue, and the select sends what was read.   *)
LEMMA OrderSource ==
  ASSUME ProbeInv, InOrder, CloseReader \/ Source
  PROVE  InOrder'
<1>1. accepted' = accepted /\ UNCHANGED <<ctxDone, http, conns>>
  BY DEF CloseReader, Source, Read, ReadError, SendEvent, AbandonEvent, SourceStep, httpVars
<1>2. /\ ring \in Seq(Record) /\ held \in Seq(Event) /\ delivered \in Seq(Event)
      /\ Events(ring) \in Seq(Event)
  BY EventsSeq DEF ProbeInv, DataOK, InOrder, EventsOK
<1>3. Events(accepted) = delivered \o held \o Events(ring)
  BY DEF InOrder, DeliveredInOrder
<1>4. CASE CloseReader \/ AbandonEvent
  <2>1. UNCHANGED <<held, delivered, srcErr, ring>> /\ (src' = src \/ src' = "returned")
    BY <1>4 DEF CloseReader, AbandonEvent, srcVars
  <2>2. EventsOK'
    BY <1>1, <2>1 DEF InOrder, EventsOK
  <2> QED BY <1>1, <1>3, <2>1, <2>2 DEF InOrder, DeliveredInOrder
<1>5. ASSUME NEW fatal \in BOOLEAN, ReadError(fatal) PROVE InOrder'
  <2>1. UNCHANGED <<held, delivered, ring>> /\ src' = "returned" /\ srcErr' = fatal
    BY <1>5 DEF ReadError
  <2>2. EventsOK'
    BY <1>1, <2>1 DEF InOrder, EventsOK
  <2> QED BY <1>1, <1>3, <2>1, <2>2 DEF InOrder, DeliveredInOrder
<1>6. CASE Read
  <2> DEFINE e == Decode(Head(ring))
             first == <<e>>
             rest == Events(Tail(ring))
  <2>1. src = "read" /\ ring # <<>> /\ ring' = Tail(ring) /\ UNCHANGED <<srcErr, delivered>>
    BY <1>6 DEF Read
  <2>2. Events(ring) = first \o rest /\ e \in Event /\ Tail(ring) \in Seq(Record)
    BY <1>2, <2>1, EventsTail
  <2>3. held' = first /\ src' = "send"
    <3>1. Head(ring) \in Record
      BY <1>2, <2>1, HeadTailProperties
    <3> QED BY <1>6, <3>1, DecodeEvent DEF Read
  <2>4. rest \in Seq(Event)
    BY <2>2, EventsSeq
  <2>5. held = <<>>
    BY <2>1 DEF InOrder, EventsOK
  <2> HIDE DEF e, rest
  <2>6. first \in Seq(Event) /\ Len(first) = 1
    BY <2>2
  <2> HIDE DEF first
  <2>7. delivered \o <<>> = delivered
    BY <1>2, ConcatEmptySeq, Zenon
  <2>8. (delivered \o first) \o rest = delivered \o (first \o rest)
    BY <1>2, <2>4, <2>6, ConcatAssociative
  <2>9. Events(accepted) = (delivered \o first) \o rest
    BY <1>3, <2>2, <2>5, <2>7, <2>8
  <2>10. Events(accepted') = delivered' \o held' \o Events(ring')
    BY <1>1, <2>1, <2>3, <2>9 DEF rest
  <2>11. EventsOK'
    <3>1. held' \in Seq(Event) /\ Len(held') = 1
      BY <2>3, <2>6
    <3> QED BY <1>1, <2>1, <2>3, <3>1 DEF InOrder, EventsOK
  <2> QED BY <2>10, <2>11 DEF InOrder, DeliveredInOrder
<1>7. CASE SendEvent
  <2>1. /\ src = "send" /\ delivered' = delivered \o held /\ held' = <<>> /\ src' = "read"
        /\ UNCHANGED <<srcErr, ring>>
    BY <1>7 DEF SendEvent
  <2>2. delivered \o held \in Seq(Event)
    BY <1>2
  <2>3. (delivered \o held) \o <<>> = delivered \o held
    BY <2>2, ConcatEmptySeq, Zenon
  <2>4. Events(accepted') = delivered' \o held' \o Events(ring')
    BY <1>1, <1>3, <2>1, <2>3
  <2>5. EventsOK'
    <3>1. held' \in Seq(Event) /\ Len(held') = 0
      BY <2>1
    <3> QED BY <1>1, <2>1, <2>2, <3>1 DEF InOrder, EventsOK
  <2> QED BY <2>4, <2>5 DEF InOrder, DeliveredInOrder
<1> QED BY <1>4, <1>5, <1>6, <1>7 DEF Source

(* The rest of the daemon leaves the events alone.                         *)
LEMMA OrderMain ==
  ASSUME InOrder, Startup \/ Stop \/ Sigterm \/ Scrape \/ Scraped \/ Terminated \/ UNCHANGED vars, Life
  PROVE  InOrder'
<1>1. UNCHANGED <<held, delivered, srcErr, ring, accepted>>
  BY DEF Startup, RemoveMemlock, Open, ExitFailed, Start, Stop, RunReturns, StopListening, ShutdownReturns,
         CancelContext, CloseLoader, MainReturns, Sigterm, Scrape, Scraped, Terminated, vars, srcVars, probeVars
<1>2. src' = src \/ (src = "none" /\ src' = "read")
  BY DEF Startup, RemoveMemlock, Open, ExitFailed, Start, Stop, RunReturns, StopListening, ShutdownReturns,
         CancelContext, CloseLoader, MainReturns, Sigterm, Scrape, Scraped, Terminated, vars, srcVars,
         Life, Opening
<1>3. ctxDone' \in BOOLEAN
  BY DEF Startup, RemoveMemlock, Open, ExitFailed, Start, Stop, RunReturns, StopListening, ShutdownReturns,
         CancelContext, CloseLoader, MainReturns, Sigterm, Scrape, Scraped, Terminated, vars, mainVars,
         InOrder, EventsOK
<1>4. http' \in {"off", "set", "up", "closed"} /\ conns' \in 0 .. MaxConns
  <2>1. conns' = conns \/ (conns < MaxConns /\ conns' = conns + 1) \/ (conns > 0 /\ conns' = conns - 1)
    BY DEF Startup, RemoveMemlock, Open, ExitFailed, Start, Stop, RunReturns, StopListening, ShutdownReturns,
           CancelContext, CloseLoader, MainReturns, Sigterm, Scrape, Scraped, Terminated, vars, httpVars
  <2>2. http' = http \/ http' \in {"up", "closed"}
    BY DEF Startup, RemoveMemlock, Open, ExitFailed, Start, Stop, RunReturns, StopListening, ShutdownReturns,
           CancelContext, CloseLoader, MainReturns, Sigterm, Scrape, Scraped, Terminated, vars, httpVars
  <2> QED BY <2>1, <2>2, Basics DEF InOrder, EventsOK
<1>5. EventsOK'
  BY <1>1, <1>2, <1>3, <1>4 DEF InOrder, EventsOK
<1> QED BY <1>1, <1>5 DEF InOrder, DeliveredInOrder

----------------------------------------------------------------------------

IInv == ProbeInv /\ Life /\ InOrder

LEMMA IInvInit == Init => IInv
<1> SUFFICES ASSUME Init PROVE IInv
  OBVIOUS
<1>1. ProbeInit
  BY DEF Init
<1>2. EventsOK
  <2>1. conns \in 0 .. MaxConns
    BY Basics DEF Init
  <2>2. held = <<>> /\ delivered = <<>> /\ held \in Seq(Event) /\ delivered \in Seq(Event) /\ Len(held) = 0
    BY DEF Init
  <2>3. src = "none" /\ http \in {"off", "set"}
    BY DEF Init
  <2>4. srcErr \in BOOLEAN /\ ctxDone \in BOOLEAN
    BY Zenon DEF Init
  <2>5. Len(held) <= 1 /\ src # "send"
    BY <2>2, <2>3
  <2> QED BY <2>1, <2>2, <2>3, <2>4, <2>5 DEF EventsOK
<1>3. DeliveredInOrder
  <2>1. accepted = <<>> /\ ring = <<>> /\ delivered = <<>> /\ held = <<>>
    BY DEF Init, ProbeInit
  <2>2. Events(<<>>) = <<>>
    BY DEF Events
  <2> QED BY <2>1, <2>2 DEF DeliveredInOrder
<1> QED BY <1>1, <1>2, <1>3, ProbeInitial, LifeInit DEF IInv, InOrder

LEMMA IInvNext == IInv /\ [Next]_vars => IInv'
<1> SUFFICES ASSUME IInv, [Next]_vars PROVE IInv'
  OBVIOUS
<1>1. Life'
  BY LifeNext DEF IInv
<1>2. CASE Kernel
  BY <1>1, <1>2, ProbeKernel, OrderKernel DEF IInv
<1>3. CASE CloseReader \/ Source
  <2>1. UNCHANGED <<buf, call, scratch, calls, output, accepted>>
    BY <1>3 DEF CloseReader, Source, Read, ReadError, SendEvent, AbandonEvent, SourceStep
  <2>2. ring' = ring \/ (ring # <<>> /\ ring' = Tail(ring))
    BY <1>3 DEF CloseReader, Source, Read, ReadError, SendEvent, AbandonEvent
  <2> QED BY <1>1, <1>3, <2>1, <2>2, ProbeReads, OrderSource DEF IInv
<1>4. CASE Startup \/ Stop \/ Sigterm \/ Scrape \/ Scraped \/ Terminated \/ UNCHANGED vars
  <2>1. UNCHANGED <<buf, call, scratch, ring, calls, output, accepted>>
    BY <1>4 DEF Startup, RemoveMemlock, Open, ExitFailed, Start, Stop, RunReturns, StopListening,
         ShutdownReturns, CancelContext, CloseLoader, MainReturns, Sigterm, Scrape, Scraped, Terminated,
         vars, probeVars
  <2> QED BY <1>1, <1>4, <2>1, ProbeReads, OrderMain DEF IInv
<1> QED BY <1>2, <1>3, <1>4 DEF Next

LEMMA IInvHolds == Safety => []IInv
BY IInvInit, IInvNext, PTL DEF Safety

(* The daemon and the hooks stay in their types: the ring buffer never     *)
(* holds more than it has room for.                                        *)
THEOREM TypeCorrect == Safety => []TypeOK
<1>1. IInv => TypeOK
  BY ProbeTyped DEF IInv, Life, Phases, InOrder, EventsOK, TypeOK
<1> QED BY <1>1, IInvHolds, PTL

(* A record is what its hook was called with, unless another hook of a DNS *)
(* socket was on the CPU at the same time.                                 *)
THEOREM AlwaysIntact == Safety => []RecordIntact
<1>1. IInv => RecordIntact
  BY ProbeIntact DEF IInv
<1> QED BY <1>1, IInvHolds, PTL

(* However hooks alternate on a CPU, each field of a record is that of a   *)
(* DNS socket's hook that was there.                                       *)
THEOREM AlwaysOfDns == Safety => []FieldsOfDns
<1>1. IInv => FieldsOfDns
  BY ProbeFields DEF IInv
<1> QED BY <1>1, IInvHolds, PTL

(* The pipeline gets the records that found room, once each and in order.  *)
THEOREM AlwaysInOrder == Safety => []DeliveredInOrder
<1>1. IInv => DeliveredInOrder
  BY DEF IInv, InOrder
<1> QED BY <1>1, IInvHolds, PTL

(* bpf.New leaves nothing open when it fails.                              *)
THEOREM AlwaysAllOrNothing == Safety => []NewAllOrNothing
<1>1. IInv => NewAllOrNothing
  BY DEF IInv, Life, NewAllOrNothing
<1> QED BY <1>1, IInvHolds, PTL

(* The loader is closed only after Loader.Run has returned.                *)
THEOREM AlwaysClosedAfterUse == Safety => []ClosedAfterUse
<1>1. IInv => ClosedAfterUse
  BY DEF IInv, Life, Phases, Opening, Resources, ClosedAfterUse
<1> QED BY <1>1, IInvHolds, PTL
=============================================================================
