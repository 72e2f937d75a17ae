----------------------------- MODULE MCProposals -----------------------------
(* Instance of Proposals for TLC: accounts 1 and 2, and 3 as the committee   *)
(* whose members they are.  Authorities may nest deeper than MaxDepth and    *)
(* refer to each other in a circle.                                          *)
EXTENDS Proposals

Au(threshold, keys, accounts) ==
  [threshold |-> threshold, keys |-> [k \in keys |-> 1], accounts |-> [a \in accounts |-> 1]]

MCAuthorities ==
  <<{Au(1, {1}, {}), Au(1, {}, {2})}, {Au(2, {1, 2}, {1})}, {Au(2, {}, {1, 2})}>>

\* Every authority of threshold 1 or 2 over the keys and the other accounts,
\* where account 2 has both keys and the committee none.
MCGraphs ==
  LET Of(keys, accounts) ==
        {au \in {Au(t, ks, as) : t \in {1, 2}, ks \in SUBSET keys, as \in SUBSET accounts} :
           Cardinality(DOMAIN au.keys) + Cardinality(DOMAIN au.accounts) >= au.threshold}
  IN {<<x, y, z>> : x \in Of({1}, {2, 3}), y \in Of({1, 2}, {1, 3}), z \in Of({}, {1, 2})}

MCOwner == <<Au(1, {1}, {}), Au(2, {2}, {1}), Au(2, {}, {1, 2})>>

MCProposed ==
  {[active |-> {1, 2}, owner |-> {}, keys |-> {}],
   [active |-> {2}, owner |-> {2}, keys |-> {}],
   [active |-> {3}, owner |-> {}, keys |-> {}]}

NoReviewPeriod == -1
=============================================================================
