------------------------------ MODULE Authority ------------------------------
(***************************************************************************)
(* Who may sign: verify_authority and the search for a set of signatures   *)
(* (protocol/transaction.cpp), next to a reference definition of what an   *)
(* authority means.                                                        *)
(*                                                                         *)
(* Accounts and keys are numbers, in the order of the flat_maps.  An       *)
(* authority is [threshold, keys, accounts], the last two functions to     *)
(* weights; active and owner are functions from accounts to authorities.   *)
(* A search carries [signed, used, approved]: the keys that signed, those  *)
(* the search has used, and the accounts known to approve (approved_by).   *)
(* Authorities of legacy addresses are left out.                           *)
(***************************************************************************)
EXTENDS Integers, Sequences, FiniteSets, FiniteSetsExt, Functions

CONSTANTS Accounts, Keys, Committee, MaxDepth

ASSUME AuthorityAssumption ==
  /\ IsFiniteSet(Accounts \cup Keys) /\ Accounts \cup Keys \subseteq Nat \ {0}
  /\ Committee \in Accounts
  /\ MaxDepth \in Nat

IsAuthority(au) ==
  /\ au.threshold \in Nat
  /\ DOMAIN au.keys \subseteq Keys /\ \A k \in DOMAIN au.keys : au.keys[k] \in Nat
  /\ DOMAIN au.accounts \subseteq Accounts /\ \A a \in DOMAIN au.accounts : au.accounts[a] \in Nat

SearchStates ==
  {s \in [signed : SUBSET Keys, used : SUBSET Keys, approved : SUBSET Accounts] :
     s.used \subseteq s.signed}

LastNumber == Max({0} \cup Accounts \cup Keys)

\* A loop over the members of S in their order, from value r.
InOrder(S, r, Step(_, _)) ==
  LET run[i \in 0..LastNumber] ==
        IF i = 0 THEN r ELSE IF i \in S THEN Step(run[i - 1], i) ELSE run[i - 1]
  IN run[LastNumber]

\* Adding a weight; the search is done once the threshold is reached.
Weigh(au, r, w, s) ==
  [done |-> r.total + w >= au.threshold, total |-> r.total + w, s |-> s]

\* The keys of an authority.
AddKey(au, r, k) ==
  IF r.done \/ k \notin r.s.signed THEN r
  ELSE Weigh(au, r, au.keys[k], [r.s EXCEPT !.used = @ \cup {k}])

SearchKeys(au, s) ==
  InOrder(DOMAIN au.keys, [done |-> FALSE, total |-> 0, s |-> s], LAMBDA r, k : AddKey(au, r, k))

\* Its accounts: one is known to approve, or is searched itself.
AddAccount(au, r, a, deeper) ==
  LET q == deeper[<<a, r.s>>]
  IN IF r.done THEN r
     ELSE IF a \in r.s.approved THEN Weigh(au, r, au.accounts[a], r.s)
     ELSE IF ~q.ok THEN [r EXCEPT !.s = q.s]
     ELSE Weigh(au, r, au.accounts[a], [q.s EXCEPT !.approved = @ \cup {a}])

SearchAccounts(au, r, deeper) ==
  InOrder(DOMAIN au.accounts, r, LAMBDA q, a : AddAccount(au, q, a, deeper))

\* An authority from state s; what is found stays marked even if this fails.
Search(au, s, deeper) ==
  LET r == SearchAccounts(au, SearchKeys(au, s), deeper)
  IN [ok |-> r.total >= au.threshold, s |-> r.s]

\* The search of an account's active authority with n levels left of MaxDepth:
\* with none left it finds nothing.
SearchAccount(active, n) ==
  LET level[i \in 0..n] ==
        [p \in Accounts \X SearchStates |->
           IF i = 0 THEN [ok |-> FALSE, s |-> p[2]]
           ELSE Search(active[p[1]], p[2], level[i - 1])]
  IN level[n]

\* sign_state::check_authority, called from outside.
check_authority(active, au, s) == Search(au, s, SearchAccount(active, MaxDepth))

\* A required active authority: the account approves already, or its active
\* authority is satisfied, or its owner authority.
CheckActive(active, owner, s, a) ==
  IF a \in s.approved THEN [ok |-> TRUE, s |-> s]
  ELSE LET q == check_authority(active, active[a], s)
       IN IF q.ok THEN q ELSE check_authority(active, owner[a], q.s)

CheckActives(active, owner, r, accounts) ==
  InOrder(accounts, r, LAMBDA q, a : IF ~q.ok THEN q ELSE CheckActive(active, owner, q.s, a))

\* Mutant: an active approval counts for the owner authority.
OwnerByActiveApproval(active, owner, s, a, owner_approvals) ==
  IF a \in s.approved THEN [ok |-> TRUE, s |-> s]
  ELSE check_authority(active, owner[a], s)

\* A required owner authority: an owner approval, or its owner authority.
CheckOwner(active, owner, s, a, owner_approvals) ==
  IF a \in owner_approvals THEN [ok |-> TRUE, s |-> s]
  ELSE check_authority(active, owner[a], s)

CheckOwners(active, owner, r, accounts, owner_approvals) ==
  InOrder(accounts, r, LAMBDA q, a :
            IF ~q.ok THEN q ELSE CheckOwner(active, owner, q.s, a, owner_approvals))

\* The authority that proposal_update_operation asks of the keys it names.
KeysAuthority(ks) == [threshold |-> Cardinality(ks), keys |-> [k \in ks |-> 1],
                      accounts |-> [a \in {} |-> 1]]

\* What an operation requires: accounts' active and owner authority, and keys.
\* verify_authority answers "ok", or which of its assertions fails first.
verify_authority(active, owner, req, sigs, allow_committee, actives, owners) ==
  LET s0 == [signed |-> sigs, used |-> {}, approved |-> actives \cup owners]
      byKeys == check_authority(active, KeysAuthority(req.keys), s0)
      byActive == CheckActives(active, owner, byKeys, req.active)
      byOwner == CheckOwners(active, owner, byActive, req.owner, owners)
  IN IF ~allow_committee /\ Committee \in req.active THEN "committee"
     ELSE IF ~byOwner.ok THEN "missing"
     ELSE IF byOwner.s.used # sigs THEN "irrelevant"
     ELSE "ok"

\* get_required_signatures: of the available keys, those a search that takes
\* each of them as signed makes use of; owner authorities come first here.
get_required_signatures(active, owner, req, available) ==
  LET s0 == [signed |-> available, used |-> {}, approved |-> {}]
      byKeys == check_authority(active, KeysAuthority(req.keys), s0).s
      byOwner == InOrder(req.owner, byKeys, LAMBDA s, a :
                         check_authority(active, owner[a], s).s)
      byActive == InOrder(req.active, byOwner, LAMBDA s, a :
                          IF a \in s.approved THEN s ELSE check_authority(active, active[a], s).s)
  IN byActive.used

\* Mutant: the keys are not tried one by one.
AllUsedKeys(active, owner, req, available) ==
  [ok |-> TRUE, keys |-> get_required_signatures(active, owner, req, available)]

\* minimize_required_signatures: each key is left out if verify_authority does
\* without it; a signature that becomes irrelevant makes it throw (~ok).
minimize_required_signatures(active, owner, req, available) ==
  LET Try(r, k) ==
        LET v == verify_authority(active, owner, req, r.keys \ {k}, FALSE, {}, {})
        IN IF ~r.ok \/ v = "missing" THEN r
           ELSE IF v = "ok" THEN [r EXCEPT !.keys = @ \ {k}]
           ELSE [r EXCEPT !.ok = FALSE]
      all == get_required_signatures(active, owner, req, available)
  IN InOrder(all, [ok |-> TRUE, keys |-> all], Try)

(***************************************************************************)
(* The reference: which accounts approve, given the keys that signed and   *)
(* the accounts that approved, within n levels of nesting.                 *)
(***************************************************************************)

Satisfied(au, sigs, approving) ==
  au.threshold <= SumFunctionOnSet(au.keys, sigs \cap DOMAIN au.keys)
                  + SumFunctionOnSet(au.accounts, approving \cap DOMAIN au.accounts)

Approving(active, sigs, approvals, n) ==
  LET level[i \in 0..n] ==
        IF i = 0 THEN approvals
        ELSE level[i - 1] \cup {a \in Accounts : Satisfied(active[a], sigs, level[i - 1])}
  IN level[n]

\* What verify_authority is to decide, within n levels of nesting.
Authorized(active, owner, req, sigs, actives, owners, n) ==
  LET approving == Approving(active, sigs, actives \cup owners, n)
  IN /\ req.keys \subseteq sigs
     /\ \A a \in req.active : \/ a \in actives \cup owners
                              \/ Satisfied(active[a], sigs, approving)
                              \/ Satisfied(owner[a], sigs, approving)
     /\ \A a \in req.owner : a \in owners \/ Satisfied(owner[a], sigs, approving)
=============================================================================
