-------------------------- MODULE MCWitnessSchedule --------------------------
(* Two nodes run three witnesses, two of which are active at a time.  n2 asks *)
(* for participation and lacks the key of a witness it is configured with; n1 *)
(* may produce on a stale chain.                                              *)
EXTENDS WitnessSchedule

CONSTANTS n1, n2, w1, w2, w3

MCRuns == (n1 :> {w1, w3}) @@ (n2 :> {w1, w2})
MCKeys == (n1 :> {w1, w3}) @@ (n2 :> {w2})
MCActiveSets == {{w1, w2}, {w1, w3}}
MCRequired == (n1 :> 0) @@ (n2 :> 50)
=============================================================================
