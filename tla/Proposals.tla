------------------------------ MODULE Proposals ------------------------------
(***************************************************************************)
(* Proposed transactions: created, approved by accounts and keys, executed *)
(* when authorized or at their expiration, vetoed, and removed             *)
(* (proposal_evaluator.cpp, proposal_object.cpp, push_proposal, and        *)
(* clear_expired_proposals in db_update.cpp), while the authorities that   *)
(* approve them change.                                                    *)
(*                                                                         *)
(* A proposed transaction is what it requires, [active, owner, keys], and  *)
(* whether it would succeed is a matter of the rest of the state, `funded`.*)
(* Transactions whose operations act on proposals are left out.            *)
(***************************************************************************)
EXTENDS Authority

CONSTANTS
  Proposed,        \* the transactions that may be proposed
  Authorities,     \* Authorities[a]: the active authorities a may take on
  Owner,           \* Owner[a]: the owner authority of a
  Graphs,          \* the active authorities that the search is checked on
  MaxLifetime,     \* maximum_proposal_lifetime
  CommitteeReview, \* committee_proposal_review_period
  NoReview,        \* an absent review period
  MaxProposals,    \* bound: proposals made
  MaxApprovals,    \* bound: approvals that proposals hold at a time
  MaxTime          \* bound: time

Requirements == [active : SUBSET Accounts, owner : SUBSET Accounts, keys : SUBSET Keys]

\* Each account has an authority.
AuthorityMap(m) ==
  m = [a \in Accounts |-> m[a]] /\ \A a \in Accounts : IsAuthority(m[a])

ASSUME ProposalsAssumption ==
  /\ {MaxLifetime, CommitteeReview, MaxProposals, MaxApprovals, MaxTime} \subseteq Nat
  /\ NoReview \notin Nat
  /\ \A p \in Proposed : p \in Requirements /\ p.keys = {}
  /\ \A a \in Accounts : Authorities[a] # {} /\ \A au \in Authorities[a] : IsAuthority(au)
  /\ AuthorityMap(Owner)
  /\ \A g \in Graphs : AuthorityMap(g)

VARIABLES
  active,     \* the active authority of each account
  funded,     \* whether the proposed transactions would succeed now
  time,       \* head_block_time()
  proposals,  \* the proposal objects, by id
  order,      \* pairs of ids, the first of which entered the index earlier
  executed    \* how often each proposal made so far was executed

vars == <<active, funded, time, proposals, order, executed>>

Ids == DOMAIN executed

is_authorized_to_execute(p) ==
  verify_authority(active, Owner, p.trx, p.keys, TRUE, p.actives, p.owners) = "ok"

\* Some set of keys signs a transaction that requires req.
Signable(req) ==
  \E sigs \in SUBSET Keys :
    verify_authority(active, Owner, req, sigs, FALSE, {}, {}) = "ok"

\* The proposals of ids leave the index.
RemoveAll(ids) ==
  /\ proposals' = [i \in DOMAIN proposals \ ids |-> proposals[i]]
  /\ order' = {e \in order : e[1] \notin ids /\ e[2] \notin ids}

(***************************************************************************)
(* Operations                                                              *)
(***************************************************************************)

Init ==
  /\ active = [a \in Accounts |-> CHOOSE au \in Authorities[a] : TRUE]
  /\ funded = FALSE
  /\ time = 0
  /\ proposals = <<>>
  /\ order = {}
  /\ executed = <<>>

\* proposal_create_evaluator: a proposal that needs the committee has a review
\* period; accounts required with both authorities are required as owners.
proposal_create(trx, expiration, review) ==
  LET auths == trx.active \cup trx.owner
      id == Len(executed) + 1
  IN /\ id <= MaxProposals
     /\ expiration > time /\ expiration <= time + MaxLifetime /\ expiration <= MaxTime
     /\ review # NoReview => review < expiration - time
     /\ Committee \in auths => review # NoReview /\ review >= CommitteeReview
     /\ executed' = Append(executed, 0)
     /\ order' = order \cup {<<i, id>> : i \in DOMAIN proposals}
     /\ proposals' = [i \in DOMAIN proposals \cup {id} |->
          IF i # id THEN proposals[i]
          ELSE [trx |-> trx, expiration |-> expiration,
                review |-> IF review = NoReview THEN NoReview ELSE expiration - review,
                required_active |-> trx.active \ trx.owner,
                required_owner |-> trx.owner,
                actives |-> {}, owners |-> {}, keys |-> {}]]
     /\ UNCHANGED <<active, funded, time>>

\* What one proposal_update_operation changes.
NoChange == [addA |-> {}, remA |-> {}, addO |-> {}, remO |-> {}, addK |-> {}, remK |-> {}]

Updates(p) ==
  UNION {{[NoChange EXCEPT !.addA = {a}] : a \in Accounts \ p.actives},
         {[NoChange EXCEPT !.addO = {a}] : a \in Accounts \ p.owners},
         {[NoChange EXCEPT !.addK = {k}] : k \in Keys \ p.keys},
         {[NoChange EXCEPT !.remA = {a}] : a \in p.actives},
         {[NoChange EXCEPT !.remO = {a}] : a \in p.owners},
         {[NoChange EXCEPT !.remK = {k}] : k \in p.keys}}

Approvals(p) == Cardinality(p.actives) + Cardinality(p.owners) + Cardinality(p.keys)

Updated(p, o) == [p EXCEPT !.actives = (@ \cup o.addA) \ o.remA,
                           !.owners = (@ \cup o.addO) \ o.remO,
                           !.keys = (@ \cup o.addK) \ o.remK]

\* No account adds an approval in the review period.
MayAdd(p, o) ==
  p.review # NoReview /\ time >= p.review => o.addA = {} /\ o.addO = {}

\* Mutant: a proposal with a review period is executed once it is approved.
ExecutesInReview(p) == is_authorized_to_execute(p) /\ funded

\* Whether an update that leaves the proposal as p executes it: it has no
\* review period, it is authorized, and its operations succeed.
ExecutesNow(p) == p.review = NoReview /\ is_authorized_to_execute(p) /\ funded

\* proposal_update_evaluator and push_proposal: a transaction that fails leaves
\* the proposal as it is, to be tried again when it expires.
proposal_update(id, o) ==
  LET p == proposals[id]
      q == Updated(p, o)
  IN /\ Approvals(q) + MapThenSumSet(LAMBDA i : Approvals(proposals[i]), DOMAIN proposals \ {id}) <= MaxApprovals
     /\ MayAdd(p, o)
     /\ Signable([active |-> o.addA \cup o.remA, owner |-> o.addO \cup o.remO,
                  keys |-> o.addK \cup o.remK])
     /\ IF ExecutesNow(q)
        THEN /\ RemoveAll({id})
             /\ executed' = [executed EXCEPT ![id] = @ + 1]
             /\ funded' = FALSE
        ELSE /\ proposals' = [proposals EXCEPT ![id] = q]
             /\ UNCHANGED <<order, executed, funded>>
     /\ UNCHANGED <<active, time>>

\* proposal_delete_evaluator: a veto of an account whose approval is required.
MayDelete(id, a, using_owner) ==
  /\ a \in IF using_owner THEN proposals[id].required_owner
           ELSE proposals[id].required_active
  /\ Signable([active |-> IF using_owner THEN {} ELSE {a},
               owner |-> IF using_owner THEN {a} ELSE {}, keys |-> {}])

proposal_delete(id, a, using_owner) ==
  /\ MayDelete(id, a, using_owner)
  /\ RemoveAll({id})
  /\ UNCHANGED <<active, funded, time, executed>>

\* The same while it is only pending: the next block undoes it, which inserts
\* the proposal again, behind those with the same expiration.
UndoDelete(id, a, using_owner) ==
  /\ MayDelete(id, a, using_owner)
  /\ order' = {e \in order : id \notin {e[1], e[2]}} \cup {<<i, id>> : i \in DOMAIN proposals \ {id}}
  /\ order' # order
  /\ UNCHANGED <<active, funded, time, proposals, executed>>

Expired(now) == {id \in DOMAIN proposals : proposals[id].expiration <= now}

\* Mutant: an expired proposal is only removed.
DropExpired(r, id) == r

\* One round of the loop of clear_expired_proposals: the proposal is executed a
\* last time if it is authorized, and is gone in any case.
ExecuteExpired(r, id) ==
  IF is_authorized_to_execute(proposals[id]) /\ r.funded
  THEN [r EXCEPT !.funded = FALSE, !.executed[id] = @ + 1]
  ELSE r

\* The order in which the by_expiration index lists proposals, and the first of ids.
Before(i, j) ==
  \/ proposals[i].expiration < proposals[j].expiration
  \/ proposals[i].expiration = proposals[j].expiration /\ <<i, j>> \in order

First(ids) == CHOOSE i \in ids : \A j \in ids \ {i} : Before(i, j)

\* clear_expired_proposals goes through the expired proposals in that order.
clear_expired_proposals(expired) ==
  LET n == Cardinality(expired)
      run[i \in 0..n] ==
        IF i = 0 THEN [left |-> expired, funded |-> funded, executed |-> executed]
        ELSE LET r == run[i - 1] IN ExecuteExpired([r EXCEPT !.left = @ \ {First(@)}], First(r.left))
  IN run[n]

\* A block: time passes and the proposals that have expired then are cleared.
apply_block ==
  LET expired == Expired(time + 1)
  IN /\ time < MaxTime
     /\ time' = time + 1
     /\ RemoveAll(expired)
     /\ \E r \in {clear_expired_proposals(expired)} : executed' = r.executed /\ funded' = r.funded
     /\ UNCHANGED active

\* account_update_operation changes the active authority.
account_update(a, au) ==
  /\ au # active[a]
  /\ Signable([active |-> {a}, owner |-> {}, keys |-> {}])
  /\ active' = [active EXCEPT ![a] = au]
  /\ UNCHANGED <<funded, time, proposals, order, executed>>

\* Some other operation makes the proposed transactions possible.
Fund ==
  /\ ~funded
  /\ funded' = TRUE
  /\ UNCHANGED <<active, time, proposals, order, executed>>

Next ==
  \/ \E trx \in Proposed, expiration \in (time + 1)..(time + MaxLifetime),
        review \in {NoReview, CommitteeReview} : proposal_create(trx, expiration, review)
  \/ \E id \in DOMAIN proposals : \E o \in Updates(proposals[id]) : proposal_update(id, o)
  \/ \E id \in DOMAIN proposals, a \in Accounts, using_owner \in BOOLEAN :
       proposal_delete(id, a, using_owner) \/ UndoDelete(id, a, using_owner)
  \/ apply_block
  \/ \E a \in Accounts : \E au \in Authorities[a] : account_update(a, au)
  \/ Fund

Spec == Init /\ [][Next]_vars

(***************************************************************************)
(* Properties                                                              *)
(***************************************************************************)

\* verify_authority accepts what the authorities mean: whatever nests within
\* MaxDepth levels is found, and nothing is accepted that does not follow from
\* them at all, although the search stops early, remembers accounts it found
\* deeper or earlier, and may run in circles.  (A statement about every graph of
\* authorities, evaluated in the first states only.)
VerifyExact == time = 0 /\ ~funded /\ executed = <<>> =>
  \A g \in Graphs, trx \in Proposed, sigs \in SUBSET Keys :
    \A approvals \in SUBSET (Accounts \ {Committee}) :
      LET v == verify_authority(g, Owner, trx, sigs, TRUE, approvals, {})
      IN /\ Authorized(g, Owner, trx, sigs, approvals, {}, MaxDepth)
               => v \in {"ok", "irrelevant"}
         /\ v = "ok" =>
              Authorized(g, Owner, trx, sigs, approvals, {}, Cardinality(Accounts))

\* If the keys at hand satisfy the active and owner authorities that are asked
\* for, minimize_required_signatures does not throw, verify_authority accepts
\* its answer, and without any one of those keys it does not.
MinimalSignatures == time = 0 /\ ~funded /\ executed = <<>> =>
  \A g \in Graphs, trx \in Proposed, available \in SUBSET Keys :
    LET approving == Approving(g, available, {}, MaxDepth)
    IN /\ Committee \notin trx.active
       /\ \A a \in trx.active : Satisfied(g[a], available, approving)
       /\ \A a \in trx.owner : Satisfied(Owner[a], available, approving)
       => \E m \in {minimize_required_signatures(g, Owner, trx, available)} :
            /\ m.ok
            /\ verify_authority(g, Owner, trx, m.keys, FALSE, {}, {}) = "ok"
            /\ \A k \in m.keys :
                 verify_authority(g, Owner, trx, m.keys \ {k}, FALSE, {}, {}) # "ok"

AuthorizedBy(p, n) ==
  Authorized(active, Owner, p.trx, p.keys, p.actives, p.owners, n)

\* A proposal is executed at most once, is gone then, and what it requires
\* followed from its approvals and the authorities of that moment; one that
\* needs the committee is executed at its expiration and not before.
ExecutionAuthorized ==
  [][\A id \in Ids : executed'[id] # executed[id] =>
       LET p == proposals[id]
       IN /\ executed'[id] = 1
          /\ id \notin DOMAIN proposals'
          /\ IF time' = time
             THEN /\ Committee \notin p.trx.active \cup p.trx.owner
                  /\ \E o \in Updates(p) :
                       AuthorizedBy(Updated(p, o), Cardinality(Accounts))
             ELSE /\ time' = p.expiration
                  /\ AuthorizedBy(p, Cardinality(Accounts))]_vars

\* When proposals expire, one of them that accounts have approved and that can
\* succeed is executed ("Will try again when it expires").
FinalAttempt ==
  [][funded /\ (\E id \in DOMAIN proposals : /\ proposals[id].expiration = time'
                                           /\ proposals[id].keys = {}
                                           /\ AuthorizedBy(proposals[id], MaxDepth))
       => time' = time \/ \E id \in Ids : executed'[id] # executed[id]]_vars

=============================================================================
