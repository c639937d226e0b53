------------------------------ MODULE MCIpset --------------------------------
(* An instance of Ipset for TLC: netlink has two texts for a missing set,  *)
(* one of which the caller's test does not look for, and one for another   *)
(* failure; the name of set t holds the word that Add uses.                *)
EXTENDS Ipset, TLC

CONSTANTS s, t, enoent, named, busy

MCInName == s :> {} @@ t :> {"missing"}
MCInText == enoent :> {"no such"} @@ named :> {"does not exist"} @@ busy :> {}
=============================================================================
