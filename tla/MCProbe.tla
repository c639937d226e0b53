------------------------------ MODULE MCProbe -------------------------------
(* Instance of Probe for TLC: two sockets of DNS, the one of a resolver    *)
(* (port 53, not connected) and one connected to an upstream resolver, and *)
(* one that has nothing to do with DNS.  Ports are in network byte order:  *)
(* 53 is 13568.                                                            *)
EXTENDS Probe, TLC

CONSTANT d

server   == [sport |-> 13568, dport |-> 0, family |-> "inet"]
upstream == [sport |-> 1024, dport |-> 13568, family |-> "inet6"]
web      == [sport |-> 2048, dport |-> 0, family |-> "inet"]

MCSockets == {server, upstream, web}
MCSizeOf  == d :> 1

\* CPUs and tasks are interchangeable.
Symmetry == Permutations(CPUs) \cup Permutations(Tasks)
=============================================================================
