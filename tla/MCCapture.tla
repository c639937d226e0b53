----------------------------- MODULE MCCapture ------------------------------
(* Instances of Capture for TLC, with the socket of a resolver (port 53,   *)
(* not connected) or one connected to an upstream resolver.  Ports are in  *)
(* network byte order: 53 is 13568.                                        *)
EXTENDS Capture, TLC

CONSTANT d

server   == [sport |-> 13568, dport |-> 0, family |-> "inet"]
upstream == [sport |-> 1024, dport |-> 13568, family |-> "inet"]

Server   == {server}
Upstream == {upstream}
MCSizeOf == d :> 1
=============================================================================
