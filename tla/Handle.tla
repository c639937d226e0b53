------------------------------- MODULE Handle --------------------------------
(***************************************************************************)
(* What a worker does with one payload that dedup lets through: the rest   *)
(* of Pipeline.handle (internal/pipeline/pipeline.go), with the parser     *)
(* (internal/dnsparse/parser.go), the clamping of TTLs and Netlink.Add     *)
(* (internal/ipset/client.go).                                             *)
(*                                                                         *)
(* A message is what dns.Msg.Unpack makes of the payload.  Names are       *)
(* opaque: Normal is what normalize makes of them and Match what the trie  *)
(* finds for them (module Rules).  The trie is fetched once and is not     *)
(* nil (module Reload).                                                    *)
(***************************************************************************)
EXTENDS Integers, Sequences

CONSTANTS
  Names,      \* domain names as they appear in messages
  Root,       \* the empty name
  Normal,     \* [Names -> Names]: dnsparse.normalize
  IPs,        \* addresses
  TTLs,       \* TTLs of records, in seconds
  Messages,   \* the messages handled
  Rules,      \* the rules in the trie
  NoRule,     \* no rule matches
  Match,      \* [Names -> Rules or NoRule]: Trie.Lookup
  Sets,       \* names of ipsets
  NoSet,      \* the rule has no set for a family
  SetOf,      \* [Rules -> [{4, 6} -> Sets or NoSet]]
  Flags       \* values of --ttl-min and --ttl-max, in milliseconds and in any order

RR      == [type : {"A", "AAAA"}, owner : Names, ip : IPs, ttl : TTLs]
             \cup [type : {"CNAME"}, owner : Names, target : Names]
             \cup [type : {"other"}, owner : Names]
Message == [ok : BOOLEAN, response : BOOLEAN, rcode : 0 .. 15,
            question : Seq(Names), answer : Seq(RR)]
Record  == [name : Names, family : {4, 6}, ip : IPs, ttl : TTLs]

ASSUME HandleAssumption ==
  /\ Root \in Names
  /\ Normal \in [Names -> Names]
  /\ TTLs \subseteq Nat
  /\ Messages \subseteq Message
  /\ NoRule \notin Rules
  /\ Match \in [Names -> Rules \cup {NoRule}]
  /\ NoSet \notin Sets
  /\ SetOf \in [Rules -> [{4, 6} -> Sets \cup {NoSet}]]
  /\ Flags \subseteq [ttlMin : Nat, ttlMax : Nat]

VARIABLES
  flags,      \* the flags the process was started with
  msg,        \* the message
  pc,         \* the loop handle is in, or how it returned
  i,          \* how far the loop over answers, addresses or records has got
  qname,      \* r.QName
  addrs,      \* the A and AAAA records of the first pass
  cnames,     \* the map of CNAME owners to targets
  pending,    \* the owners that the range over the map has not visited
  cnameOwner, \* the owner it is at
  records,    \* r.Records
  names,      \* uniqueNames(resp)
  k,          \* the names done
  kernel,     \* [<<set, ip>> -> timeout in seconds], for the entries written
  tried       \* history: <<set, ip, timeout>> of the calls of ipset.Add

parseVars == <<qname, addrs, cnames, pending, cnameOwner, records>>
addVars   == <<kernel, tried>>
vars      == <<flags, msg, pc, i, parseVars, names, k, addVars>>

Init ==
  /\ flags \in Flags /\ msg \in Messages
  /\ pc = "parse" /\ i = 0
  /\ qname = Root /\ addrs = <<>> /\ cnames = [o \in {} |-> Root] /\ pending = {}
  /\ cnameOwner = Root /\ records = <<>> /\ names = <<>> /\ k = 0
  /\ kernel = [e \in {} |-> 0] /\ tried = {}

----------------------------------------------------------------------------
(* Parse.                                                                  *)

Usable(m) == m.ok /\ m.response /\ m.rcode = 0 /\ m.answer # <<>>

\* Unpack fails, not a response, an error code, or no answers.
Reject ==
  /\ pc = "parse" /\ ~Usable(msg)
  /\ pc' = "dropped"
  /\ UNCHANGED <<flags, msg, i, parseVars, names, k, addVars>>

ReadQuestion ==
  /\ pc = "parse" /\ Usable(msg)
  /\ qname' = IF msg.question # <<>> THEN Normal[msg.question[1]] ELSE Root
  /\ pc' = "first"
  /\ UNCHANGED <<flags, msg, i, addrs, cnames, pending, cnameOwner, records, names, k, addVars>>

Family(type) == IF type = "A" THEN 4 ELSE 6

\* The record of an A or AAAA answer.
Addr(rr) == [name |-> Normal[rr.owner], family |-> Family(rr.type), ip |-> rr.ip, ttl |-> rr.ttl]

\* First pass: one answer.
Collect ==
  /\ pc = "first" /\ i < Len(msg.answer)
  /\ LET rr == msg.answer[i + 1]
         o  == Normal[rr.owner]
     IN  /\ addrs' = IF rr.type \in {"A", "AAAA"} THEN Append(addrs, Addr(rr)) ELSE addrs
         /\ cnames' = IF rr.type = "CNAME"
                      THEN [x \in DOMAIN cnames \cup {o} |->
                              IF x = o THEN Normal[rr.target] ELSE cnames[x]]
                      ELSE cnames
  /\ i' = i + 1
  /\ UNCHANGED <<flags, msg, pc, qname, pending, cnameOwner, records, names, k, addVars>>

EndFirstPass ==
  /\ pc = "first" /\ i = Len(msg.answer)
  /\ records' = addrs
  /\ pending' = DOMAIN cnames
  /\ pc' = "second"
  /\ UNCHANGED <<flags, msg, i, qname, addrs, cnames, cnameOwner, names, k, addVars>>

\* Second pass: the map is ranged over in any order, and for each owner the
\* addresses of its target are mirrored under its own name.
Mirror(o) ==
  /\ pc = "second" /\ o \in pending
  /\ cnameOwner' = o /\ pending' = pending \ {o}
  /\ pc' = "mirror" /\ i' = 0
  /\ UNCHANGED <<flags, msg, qname, addrs, cnames, records, names, k, addVars>>

MirrorAddr ==
  /\ pc = "mirror" /\ i < Len(addrs)
  /\ LET rec == addrs[i + 1]
     IN  records' = IF rec.name = cnames[cnameOwner]
                    THEN Append(records, [rec EXCEPT !.name = cnameOwner]) ELSE records
  /\ i' = i + 1
  /\ UNCHANGED <<flags, msg, pc, qname, addrs, cnames, pending, cnameOwner, names, k, addVars>>

EndMirror ==
  /\ pc = "mirror" /\ i = Len(addrs)
  /\ pc' = "second"
  /\ UNCHANGED <<flags, msg, i, parseVars, names, k, addVars>>

\* Mutant of EndParse: the index over the answers is kept.
EndParseNoReset ==
  /\ pc = "second" /\ pending = {}
  /\ IF records = <<>>
     THEN pc' = "dropped" /\ UNCHANGED names
     ELSE pc' = "unique" /\ names' = <<qname>>
  /\ UNCHANGED <<flags, msg, i, parseVars, k, addVars>>

\* Nothing usable, or uniqueNames starts with the question.
EndParse ==
  /\ pc = "second" /\ pending = {}
  /\ i' = 0
  /\ IF records = <<>>
     THEN pc' = "dropped" /\ UNCHANGED names
     ELSE pc' = "unique" /\ names' = <<qname>>
  /\ UNCHANGED <<flags, msg, parseVars, k, addVars>>

----------------------------------------------------------------------------
(* Dispatch.                                                               *)

Elements(s) == {s[j] : j \in DOMAIN s}

\* One record of the loop of uniqueNames.
UniqueName ==
  /\ pc = "unique" /\ i < Len(records)
  /\ LET n == records[i + 1].name
     IN  names' = IF n \in Elements(names) THEN names ELSE Append(names, n)
  /\ i' = i + 1
  /\ UNCHANGED <<flags, msg, pc, parseVars, k, addVars>>

EndUnique ==
  /\ pc = "unique" /\ i = Len(records)
  /\ pc' = "names"
  /\ UNCHANGED <<flags, msg, i, parseVars, names, k, addVars>>

NoMatch ==
  /\ pc = "names" /\ k < Len(names)
  /\ Match[names[k + 1]] = NoRule
  /\ k' = k + 1
  /\ UNCHANGED <<flags, msg, pc, i, parseVars, names, addVars>>

\* Mutant of Matched: the loop goes on where the last name's stopped.
MatchedNoReset ==
  /\ pc = "names" /\ k < Len(names)
  /\ Match[names[k + 1]] # NoRule
  /\ pc' = "records"
  /\ UNCHANGED <<flags, msg, i, parseVars, names, k, addVars>>

Matched ==
  /\ pc = "names" /\ k < Len(names)
  /\ Match[names[k + 1]] # NoRule
  /\ pc' = "records" /\ i' = 0
  /\ UNCHANGED <<flags, msg, parseVars, names, k, addVars>>

rule == Match[names[k + 1]]

\* Mutant of ClampTTL: the lower bound is not applied.
ClampTTLMaxOnly(ttl) == IF ttl > flags.ttlMax THEN flags.ttlMax ELSE ttl

\* ipset.ClampTTL, with its parameters taken from the configuration.
ClampTTL(ttl) ==
  IF ttl <= 0 \/ ttl < flags.ttlMin THEN flags.ttlMin
  ELSE IF ttl > flags.ttlMax THEN flags.ttlMax ELSE ttl

\* uint32(ttl.Seconds()) of Netlink.Add: the fraction is cut off.
Timeout(ttl) == ClampTTL(1000 * ttl) \div 1000

SkipFamily ==
  /\ pc = "records" /\ i < Len(records)
  /\ SetOf[rule][records[i + 1].family] = NoSet
  /\ i' = i + 1
  /\ UNCHANGED <<flags, msg, pc, parseVars, names, k, addVars>>

\* ipset.Add with Replace: the entry is made or its timeout refreshed, or
\* netlink returns an error and the loop goes on.
Add(err) ==
  /\ pc = "records" /\ i < Len(records)
  /\ LET r   == records[i + 1]
         set == SetOf[rule][r.family]
         e   == <<set, r.ip>>
         t   == Timeout(r.ttl)
     IN  /\ set # NoSet
         /\ tried' = tried \cup {<<set, r.ip, t>>}
         /\ kernel' = IF err THEN kernel
                      ELSE [x \in DOMAIN kernel \cup {e} |-> IF x = e THEN t ELSE kernel[x]]
  /\ i' = i + 1
  /\ UNCHANGED <<flags, msg, pc, parseVars, names, k>>

EndRecords ==
  /\ pc = "records" /\ i = Len(records)
  /\ pc' = "names" /\ k' = k + 1
  /\ UNCHANGED <<flags, msg, i, parseVars, names, addVars>>

Dispatched ==
  /\ pc = "names" /\ k = Len(names)
  /\ pc' = "dispatched"
  /\ UNCHANGED <<flags, msg, i, parseVars, names, k, addVars>>

Returned == pc \in {"dropped", "dispatched"} /\ UNCHANGED vars

Next ==
  \/ Reject \/ ReadQuestion
  \/ Collect \/ EndFirstPass
  \/ \E o \in Names : Mirror(o)
  \/ MirrorAddr \/ EndMirror
  \/ EndParse
  \/ UniqueName \/ EndUnique
  \/ NoMatch \/ Matched
  \/ SkipFamily
  \/ \E err \in BOOLEAN : Add(err)
  \/ EndRecords \/ Dispatched
  \/ Returned

Spec == Init /\ [][Next]_vars

----------------------------------------------------------------------------
\* What the loop over i ranges over.
Ranged ==
  CASE pc \in {"parse", "first", "second", "dropped"} -> msg.answer
    [] pc = "mirror" -> addrs
    [] OTHER -> records

(* Type invariant.                                                         *)
TypeOK ==
  /\ flags \in Flags /\ msg \in Messages
  /\ pc \in {"parse", "first", "second", "mirror", "unique", "names", "records", "dropped",
             "dispatched"}
  /\ i \in 0 .. Len(Ranged)
  /\ qname \in Names /\ cnameOwner \in Names
  /\ addrs \in Seq(Record) /\ records \in Seq(Record)
  /\ DOMAIN cnames \subseteq Names /\ \A o \in DOMAIN cnames : cnames[o] \in Names
  /\ pending \subseteq DOMAIN cnames /\ (pc = "mirror" => cnameOwner \in DOMAIN cnames)
  /\ names \in Seq(Names)
  /\ k \in 0 .. Len(names)
  /\ tried \subseteq Sets \X IPs \X Nat
  /\ DOMAIN kernel \subseteq Sets \X IPs /\ \A e \in DOMAIN kernel : kernel[e] \in Nat

\* The address answers, and the CNAME answers that no later one overrides.
Addresses == {rr \in Elements(msg.answer) : rr.type \in {"A", "AAAA"}}

Aliases ==
  {msg.answer[j] : j \in {j \in DOMAIN msg.answer :
     /\ msg.answer[j].type = "CNAME"
     /\ \A l \in j + 1 .. Len(msg.answer) :
          msg.answer[l].type = "CNAME" => Normal[msg.answer[l].owner] # Normal[msg.answer[j].owner]}}

\* The names of a response: its question, the owners of its addresses, and
\* the aliases that point to one of these owners directly.
NamesOf ==
  {IF msg.question = <<>> THEN Root ELSE Normal[msg.question[1]]}
    \cup {Normal[a.owner] : a \in Addresses}
    \cup {Normal[c.owner] : c \in {c \in Aliases :
            \E a \in Addresses : Normal[a.owner] = Normal[c.target]}}

\* A name has a rule, with a set for an address's family; what is offered then.
Routed(n, a) == Match[n] # NoRule /\ SetOf[Match[n]][Family(a.type)] # NoSet
Offer(n, a)  == <<SetOf[Match[n]][Family(a.type)], a.ip, Timeout(a.ttl)>>

(* In whatever order the map of CNAMEs is ranged over, and whichever       *)
(* writes fail, a usable response has each of its addresses offered to the *)
(* set of its family of every rule that matches one of its names, with the *)
(* clamped TTL it came with; nothing else is offered, and a response that  *)
(* is not usable offers nothing.                                           *)
DispatchExact ==
  /\ pc = "dispatched" =>
       tried = {Offer(x[1], x[2]) : x \in {y \in NamesOf \X Addresses : Routed(y[1], y[2])}}
  /\ pc = "dropped" => tried = {} /\ ~(Usable(msg) /\ Addresses # {})

(* Every entry expires within the configured bounds, cut to whole seconds, *)
(* also when the flags are given in the wrong order: then between          *)
(* --ttl-max and --ttl-min.  The timeout is zero, which the kernel takes   *)
(* for permanent, only if the lesser bound is below one second.            *)
TimeoutInRange ==
  \A e \in DOMAIN kernel : \E lo, hi \in {flags.ttlMin, flags.ttlMax} :
    /\ {lo, hi} = {flags.ttlMin, flags.ttlMax} /\ lo <= hi
    /\ kernel[e] \in lo \div 1000 .. hi \div 1000

(* Every owner name of the answer section of a dispatched response is      *)
(* looked up, so that a rule on any link of a CNAME chain matches.         *)
ChainLookedUp ==
  pc = "dispatched" => {Normal[rr.owner] : rr \in Addresses \cup Aliases} \subseteq Elements(names)
=============================================================================
