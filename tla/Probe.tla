------------------------------- MODULE Probe --------------------------------
(***************************************************************************)
(* The BPF programs (internal/bpf/c/dns2ipset.bpf.c): the hooks at the     *)
(* entry of udp_sendmsg and udp_recvmsg, which run on every CPU at once,   *)
(* put a record together in the CPU's scratch buffer and copy it into one  *)
(* ring buffer.                                                            *)
(*                                                                         *)
(* A task calls udp_sendmsg with a datagram in its buffer, or udp_recvmsg  *)
(* with a buffer that the kernel fills after the hook has returned.  On a  *)
(* kernel that preempts BPF programs the hooks of several tasks may        *)
(* alternate on one CPU, between any two stores to its scratch buffer.     *)
(***************************************************************************)
EXTENDS Integers, Sequences, FiniteSets

CONSTANTS
  CPUs,
  Tasks,       \* threads that send and receive datagrams, each with a buffer
  Sockets,     \* [sport, dport, family]: ports in network byte order, 0 if not connected
  Datagrams,   \* contents of datagrams
  Blank,       \* contents of a buffer that nothing was put into
  SizeOf,      \* [Datagrams -> Nat]: lengths
  BufLen,      \* length of the buffers given to udp_recvmsg
  MAX_PAYLOAD, \* length of a record's payload (4096 bytes)
  RingCap,     \* records the ring buffer holds (1 MiB of them)
  MaxDepth,    \* hooks at once on a CPU: 1 where BPF programs are not preempted
  MaxCalls     \* bound on the calls of udp_sendmsg and udp_recvmsg

UInt16 == {n \in Nat : n < 65536}

ASSUME ProbeAssumption ==
  /\ Sockets \subseteq [sport : UInt16, dport : UInt16, family : {"inet", "inet6", "other"}]
  /\ Blank \notin Datagrams
  /\ SizeOf \in [Datagrams -> Nat]
  /\ BufLen \in Nat \ {0}
  /\ MAX_PAYLOAD \in UInt16 \ {0}
  /\ RingCap \in Nat \ {0} /\ MaxDepth \in Nat \ {0} /\ MaxCalls \in Nat
  /\ IsFiniteSet(Tasks)

VARIABLES
  buf,         \* [Tasks -> contents of the task's buffer]
  call,        \* [Tasks -> the call of udp_sendmsg or udp_recvmsg the task is in]
  scratch,     \* [CPUs -> the record in the per-CPU scratch buffer]
  ring,        \* the records in the ring buffer
  calls,       \* history: the number of calls made
  output,      \* history: the records offered to the ring buffer
  accepted     \* history: the records that found room in it

probeVars == <<buf, call, scratch, ring, calls, output, accepted>>

DIR_SEND == 0
DIR_RECV == 1

Contents == Datagrams \cup {Blank}

\* struct event, without its time stamp.
Record == [direction : {DIR_SEND, DIR_RECV}, family : {0, 4, 6}, src_port : UInt16,
           dst_port : UInt16, payload_len : 0 .. MAX_PAYLOAD, payload : Contents]

Zeroed == [direction |-> DIR_SEND, family |-> 0, src_port |-> 0, dst_port |-> 0,
           payload_len |-> 0, payload |-> Blank]

\* The points of handle() at which a hook may be preempted: before a store to
\* the scratch buffer, named for the field, before a read of the caller's
\* buffer, and before the record is handed over.
Header == {"direction", "family", "src_port", "dst_port", "payload_len"}
InHook == Header \cup {"read", "reread", "length", "output"}

\* History of a hook: the socket it was called for and the record it should
\* hand over.
Author == [sk : Sockets, rec : Record]

\* len: iov_len of the first segment.  peers: the other hooks that have been
\* on the CPU at the same time.  out: the index of the call's record in output.
User == [pc |-> "user"]
Call == [pc : InHook \cup {"recv"}, cpu : CPUs, sk : Sockets, direction : {DIR_SEND, DIR_RECV},
         len : Nat, peers : SUBSET Author, out : Nat]

ProbeInit ==
  /\ buf = [t \in Tasks |-> Blank]
  /\ call = [t \in Tasks |-> User]
  /\ scratch = [c \in CPUs |-> Zeroed]
  /\ ring = <<>>
  /\ calls = 0 /\ output = <<>> /\ accepted = <<>>

----------------------------------------------------------------------------
(* What a hook reads of its arguments.                                     *)

bpf_ntohs(p) == (p % 256) * 256 + p \div 256

fam_short(sk) == CASE sk.family = "inet" -> 4 [] sk.family = "inet6" -> 6 [] OTHER -> 0

\* Mutant of Clipped: the length is not limited.
ClippedNot(len) == len

\* if (len > MAX_PAYLOAD) len = MAX_PAYLOAD
Clipped(len) == IF len > MAX_PAYLOAD THEN MAX_PAYLOAD ELSE len

\* A hook with the given arguments and contents of the caller's buffer.
AuthorOf(sk, dir, len, contents) ==
  [sk |-> sk, rec |-> [direction |-> dir, family |-> fam_short(sk), src_port |-> bpf_ntohs(sk.sport),
                       dst_port |-> bpf_ntohs(sk.dport), payload_len |-> Clipped(len), payload |-> contents]]

Self(t) == AuthorOf(call[t].sk, call[t].direction, call[t].len, buf[t])

----------------------------------------------------------------------------
(* The kernel around the hooks.                                            *)

OnCpu(c) == {t \in Tasks : call[t].pc \in InHook /\ call[t].cpu = c}

\* A hook is entered on CPU c.
Enter(c, t, sk, dir, len, contents) ==
  LET new == [pc |-> "direction", cpu |-> c, sk |-> sk, direction |-> dir, len |-> len,
              peers |-> {Self(u) : u \in OnCpu(c)}, out |-> 0]
      joined(u) == [call[u] EXCEPT !.peers = @ \cup {AuthorOf(sk, dir, len, contents)}]
  IN  /\ calls < MaxCalls
      /\ call[t].pc = "user"
      /\ Cardinality(OnCpu(c)) < MaxDepth
      /\ calls' = calls + 1
      /\ call' = [u \in Tasks |-> IF u = t THEN new ELSE IF u \in OnCpu(c) THEN joined(u) ELSE call[u]]

\* udp_sendmsg(sk, msg): the datagram is in the task's buffer.
Sendmsg(c, t, sk, d) ==
  /\ Enter(c, t, sk, DIR_SEND, SizeOf[d], d)
  /\ buf' = [buf EXCEPT ![t] = d]
  /\ UNCHANGED <<scratch, ring, output, accepted>>

\* udp_recvmsg(sk, msg): the buffer holds what was put into it before.
Recvmsg(c, t, sk) ==
  /\ Enter(c, t, sk, DIR_RECV, BufLen, buf[t])
  /\ UNCHANGED <<buf, scratch, ring, output, accepted>>

\* A datagram arrives: udp_recvmsg copies it into the buffer and returns.
Receive(t, d) ==
  /\ call[t].pc = "recv"
  /\ buf' = [buf EXCEPT ![t] = d]
  /\ call' = [call EXCEPT ![t] = User]
  /\ UNCHANGED <<scratch, ring, calls, output, accepted>>

----------------------------------------------------------------------------
(* handle(), in the call of a task: one step for each store to the scratch *)
(* buffer of the CPU.                                                      *)

\* return 0 from the hook, with the n-th record or none: udp_sendmsg goes on
\* to return, udp_recvmsg to wait for a datagram.
Return(t, n) ==
  call' = [call EXCEPT ![t] = IF @.direction = DIR_SEND THEN User
                              ELSE [@ EXCEPT !.pc = "recv", !.out = n]]

Wanted(sk) == (bpf_ntohs(sk.sport) = 53 \/ bpf_ntohs(sk.dport) = 53) /\ fam_short(sk) # 0

\* Mutant of Ignore: the ports are stored before they are looked at.
IgnoreLate(t) ==
  /\ call[t].pc = "direction" /\ ~Wanted(call[t].sk)
  /\ scratch' = [scratch EXCEPT ![call[t].cpu] =
       [@ EXCEPT !.src_port = bpf_ntohs(call[t].sk.sport), !.dst_port = bpf_ntohs(call[t].sk.dport)]]
  /\ Return(t, 0)
  /\ UNCHANGED <<buf, ring, calls, output, accepted>>

\* Neither port is 53, or the socket is of another family.
Ignore(t) ==
  /\ call[t].pc = "direction" /\ ~Wanted(call[t].sk)
  /\ Return(t, 0)
  /\ UNCHANGED <<buf, scratch, ring, calls, output, accepted>>

\* Mutant of Store: one scratch buffer for all CPUs.
StoreShared(t, rec, pc) ==
  /\ scratch' = [c \in CPUs |-> rec]
  /\ call' = [call EXCEPT ![t].pc = pc]
  /\ UNCHANGED <<buf, ring, calls, output, accepted>>

\* The hook leaves rec in the scratch buffer of its CPU and goes on to pc.
Store(t, rec, pc) ==
  /\ scratch' = [scratch EXCEPT ![call[t].cpu] = rec]
  /\ call' = [call EXCEPT ![t].pc = pc]
  /\ UNCHANGED <<buf, ring, calls, output, accepted>>

\* e->direction = direction; ... e->payload_len = 0
WriteHeader(t) ==
  LET cl == call[t]
      e  == scratch[cl.cpu]
  IN  /\ cl.pc \in Header /\ Wanted(cl.sk)
      /\ \/ cl.pc = "direction"   /\ Store(t, [e EXCEPT !.direction = cl.direction], "family")
         \/ cl.pc = "family"      /\ Store(t, [e EXCEPT !.family = fam_short(cl.sk)], "src_port")
         \/ cl.pc = "src_port"    /\ Store(t, [e EXCEPT !.src_port = bpf_ntohs(cl.sk.sport)], "dst_port")
         \/ cl.pc = "dst_port"    /\ Store(t, [e EXCEPT !.dst_port = bpf_ntohs(cl.sk.dport)], "payload_len")
         \/ cl.pc = "payload_len" /\ Store(t, [e EXCEPT !.payload_len = 0], "read")

\* The iov cannot be read, or it is empty.
NoIov(t) ==
  /\ call[t].pc = "read"
  /\ Return(t, 0)
  /\ UNCHANGED <<buf, scratch, ring, calls, output, accepted>>

\* bpf_probe_read fails (a page of the buffer is not in memory), which zeroes
\* its destination.
ReadAgain(t) ==
  /\ call[t].pc = "read" /\ call[t].len # 0
  /\ Store(t, [scratch[call[t].cpu] EXCEPT !.payload = Blank], "reread")

\* bpf_probe_read_kernel fails as well.
ReadFails(t) ==
  /\ call[t].pc = "reread"
  /\ scratch' = [scratch EXCEPT ![call[t].cpu].payload = Blank]
  /\ Return(t, 0)
  /\ UNCHANGED <<buf, ring, calls, output, accepted>>

\* One of bpf_probe_read and bpf_probe_read_kernel succeeds.
ReadPayload(t) ==
  /\ call[t].pc \in {"read", "reread"} /\ call[t].len # 0
  /\ Store(t, [scratch[call[t].cpu] EXCEPT !.payload = buf[t]], "length")

\* e->payload_len = (u16)len
SetLength(t) ==
  /\ call[t].pc = "length"
  /\ Store(t, [scratch[call[t].cpu] EXCEPT !.payload_len = Clipped(call[t].len)], "output")

\* bpf_ringbuf_output copies the scratch buffer; with the ring buffer full it
\* fails, and its result is not looked at.
Output(t) ==
  /\ call[t].pc = "output"
  /\ LET rec == scratch[call[t].cpu]
     IN  /\ IF Len(ring) < RingCap
            THEN ring' = Append(ring, rec) /\ accepted' = Append(accepted, rec)
            ELSE UNCHANGED <<ring, accepted>>
         /\ output' = Append(output, [rec |-> rec, own |-> Self(t), peers |-> call[t].peers])
  /\ Return(t, Len(output) + 1)
  /\ UNCHANGED <<buf, scratch, calls>>

Hook(t) ==
  \/ Ignore(t)
  \/ WriteHeader(t)
  \/ NoIov(t)
  \/ ReadAgain(t)
  \/ ReadFails(t)
  \/ ReadPayload(t)
  \/ SetLength(t)
  \/ Output(t)

----------------------------------------------------------------------------
(* The hooks by themselves: attached, and with nobody to empty the ring    *)
(* buffer.  Module Capture has the rest of the daemon around them.         *)

ProbeNext ==
  \/ \E c \in CPUs, t \in Tasks, sk \in Sockets, d \in Datagrams : Sendmsg(c, t, sk, d)
  \/ \E c \in CPUs, t \in Tasks, sk \in Sockets : Recvmsg(c, t, sk)
  \/ \E t \in Tasks, d \in Datagrams : Receive(t, d)
  \/ \E t \in Tasks : Hook(t)

ProbeSpec == ProbeInit /\ [][ProbeNext]_probeVars

----------------------------------------------------------------------------
(* Type invariant of the probe.                                            *)
ProbeTypeOK ==
  /\ buf \in [Tasks -> Contents]
  /\ call \in [Tasks -> Call \cup {User}]
  /\ \A c \in CPUs : Cardinality(OnCpu(c)) <= MaxDepth
  /\ scratch \in [CPUs -> Record]
  /\ ring \in Seq(Record) /\ Len(ring) <= RingCap
  /\ calls \in 0 .. MaxCalls
  /\ output \in Seq([rec : Record, own : Author, peers : SUBSET Author])
  /\ accepted \in Seq(Record)

\* A socket of DNS.
IsDns(sk) == 53 \in {bpf_ntohs(sk.sport), bpf_ntohs(sk.dport)} /\ sk.family \in {"inet", "inet6"}

\* The hooks of DNS sockets among those of a set.
Dns(authors) == {a \in authors : IsDns(a.sk)}

(* A record holds what its own hook was called with, all of it: direction, *)
(* family, ports, length and payload are never those of a hook on another  *)
(* CPU, of an earlier hook, of a socket the program filters out, nor a     *)
(* mixture.  Only where another hook of a DNS socket was on the CPU at the *)
(* same time may the record have some of that one's.                       *)
RecordIntact ==
  \A i \in 1 .. Len(output) : Dns(output[i].peers) = {} => output[i].rec = output[i].own.rec

(* Where hooks did alternate on a CPU the fields of a record may be those  *)
(* of different sockets, so that neither port is 53, but nothing but DNS   *)
(* gets into it: each field is that of a DNS socket's hook that was on the *)
(* CPU at the time, or was zeroed by one, and the payload is never that of *)
(* a socket the program filters out, nor left by an earlier hook.          *)
FieldsOfDns ==
  \A i \in 1 .. Len(output) :
    LET r       == output[i].rec
        authors == Dns({output[i].own} \cup output[i].peers)
    IN  /\ r.direction \in {a.rec.direction : a \in authors}
        /\ r.family \in {a.rec.family : a \in authors}
        /\ r.src_port \in {a.rec.src_port : a \in authors}
        /\ r.dst_port \in {a.rec.dst_port : a \in authors}
        /\ r.payload_len \in {a.rec.payload_len : a \in authors} \cup {0}
        /\ r.payload \in {a.rec.payload : a \in authors} \cup {Blank}
=============================================================================
