--------------------------- MODULE ProposalsProofs ---------------------------
(***************************************************************************)
(* Proofs about verify_authority and about the proposals it guards, for    *)
(* every graph of authorities with every weight and threshold, every depth *)
(* and every number of accounts, keys and proposals.                       *)
(***************************************************************************)
EXTENDS Proposals, FoldTheorems

(***************************************************************************)
(* Sums of weights                                                         *)
(***************************************************************************)

\* More members do not weigh less.
LEMMA SumSubset ==
  ASSUME NEW T, IsFiniteSet(T), NEW f, \A x \in T : f[x] \in Nat, NEW S \in SUBSET T
  PROVE  SumFunctionOnSet(f, S) <= SumFunctionOnSet(f, T)
<1> DEFINE F(U) == SumFunctionOnSet(f, U)
           G == {U \in SUBSET T : S \subseteq U => F(S) <= F(U)}
<1>1. \A U \in SUBSET T : IsFiniteSet(U) /\ IntOn(f, U) /\ F(U) \in Nat
  BY FS_Subset, SumNat DEF IntOn
<1>2. ASSUME NEW U \in SUBSET T, \A V \in SUBSET U : V # U => V \in G
      PROVE  U \in G
  <2> SUFFICES ASSUME S \subseteq U PROVE F(S) <= F(U)
    OBVIOUS
  <2>1. CASE S = U
    BY <1>1, <2>1
  <2>2. CASE S # U
    <3>1. PICK x \in U : x \notin S
      BY <2>2
    <3>2. U \ {x} \in G /\ S \subseteq U \ {x} /\ U \ {x} \in SUBSET T
      BY <1>2, <3>1
    <3>3. F(U) = f[x] + F(U \ {x})
      BY <1>1, <3>1, SumRemove
    <3>4. F(S) \in Nat /\ F(U \ {x}) \in Nat /\ f[x] \in Nat /\ F(S) <= F(U \ {x})
      BY <1>1, <3>1, <3>2
    <3> HIDE DEF F
    <3> QED BY <3>3, <3>4
  <2> QED BY <2>1, <2>2
<1> HIDE DEF G
<1>3. G \in SUBSET SUBSET T
  BY DEF G
<1>4. T \in G
  BY <1>2, <1>3, SubsetInduction
<1> QED BY <1>4 DEF G

\* The members of S up to i.
UpTo(S, i) == {x \in S : x <= i}

\* A loop over S in its order that adds the weight of members of High only, and
\* of every member of Low until it is done.
Weighs(run, last, f, Low, High) ==
  \A i \in 1..last :
    /\ run[i].total = run[i - 1].total \/ (i \in High /\ run[i].total = run[i - 1].total + f[i])
    /\ run[i - 1].done => run[i].done
    /\ i \in Low /\ ~run[i].done => run[i].total = run[i - 1].total + f[i]

\* It adds no more than High weighs, and no less than Low unless it is done.
LEMMA WeightAdded ==
  ASSUME NEW last \in Nat, NEW run, \A i \in 0..last : run[i].total \in Nat,
         NEW f, NEW Low \in SUBSET (1..last), NEW High \in SUBSET (1..last), Low \subseteq High,
         \A x \in High : f[x] \in Nat, Weighs(run, last, f, Low, High)
  PROVE  /\ run[last].total <= run[0].total + SumFunctionOnSet(f, High)
         /\ run[last].done \/ run[last].total >= run[0].total + SumFunctionOnSet(f, Low)
<1> DEFINE F(S) == SumFunctionOnSet(f, S)
           P(i) == /\ run[i].total <= run[0].total + F(UpTo(High, i))
                   /\ run[i].done \/ run[i].total >= run[0].total + F(UpTo(Low, i))
           G == {i \in 0..last : P(i)}
<1>0. \A x \in High : x \in Int /\ 1 <= x /\ x <= last
  OBVIOUS
<1>1. ASSUME NEW S \in SUBSET High
      PROVE  IsFiniteSet(S) /\ IntOn(f, S) /\ F(S) \in Nat
  <2>1. IsFiniteSet(1..last)
    BY FS_Interval
  <2>2. S \in SUBSET (1..last) /\ \A x \in S : f[x] \in Nat
    OBVIOUS
  <2>3. IsFiniteSet(S)
    BY <2>1, <2>2, FS_Subset
  <2>4. F(S) \in Nat
    BY <2>2, <2>3, SumNat
  <2> QED BY <2>2, <2>3, <2>4 DEF IntOn
<1>2. ASSUME NEW S \in SUBSET High, NEW i \in 1..last
      PROVE  F(UpTo(S, i)) = IF i \in S THEN F(UpTo(S, i - 1)) + f[i] ELSE F(UpTo(S, i - 1))
  <2>1. CASE i \in S
    <3>1. UpTo(S, i) = UpTo(S, i - 1) \cup {i} /\ i \notin UpTo(S, i - 1)
      <4>1. (\A x \in S : x <= i <=> x <= i - 1 \/ x = i) /\ ~(i <= i - 1)
        BY <1>0
      <4>2. \A x : x \in UpTo(S, i) <=> x \in UpTo(S, i - 1) \cup {i}
        BY <2>1, <4>1 DEF UpTo
      <4> QED BY <4>1, <4>2 DEF UpTo
    <3>2. UpTo(S, i - 1) \in SUBSET High
      BY DEF UpTo
    <3>3. f[i] \in Int
      BY <2>1
    <3> QED BY <1>1, <2>1, <3>1, <3>2, <3>3, SumAdd
  <2>2. CASE i \notin S
    <3>1. UpTo(S, i) = UpTo(S, i - 1)
      <4>1. \A x \in S : x <= i <=> x <= i - 1
        BY <1>0, <2>2
      <4> QED BY <4>1 DEF UpTo
    <3> QED BY <2>2, <3>1
  <2> QED BY <2>1, <2>2
<1>3. UpTo(High, 0) = {} /\ UpTo(Low, 0) = {} /\ UpTo(High, last) = High /\ UpTo(Low, last) = Low
  <2>1. \A x \in High : ~(x <= 0) /\ x <= last
    BY <1>0
  <2> QED BY <2>1 DEF UpTo
<1>4. 0 \in G
  <2>1. F({}) = 0
    BY SumEmpty
  <2> HIDE DEF F
  <2>2. F(UpTo(High, 0)) = 0 /\ F(UpTo(Low, 0)) = 0
    BY <1>3, <2>1
  <2>3. run[0].total \in Nat /\ 0 \in 0..last
    OBVIOUS
  <2> QED BY <2>2, <2>3
<1>5. ASSUME NEW i \in 1..last, i - 1 \in G
      PROVE  i \in G
  <2> DEFINE h == F(UpTo(High, i - 1))
             l == F(UpTo(Low, i - 1))
             t == run[i - 1].total
             b == run[0].total
  <2>1. h \in Nat /\ l \in Nat /\ t \in Nat /\ b \in Nat /\ run[i].total \in Nat
    <3>1. UpTo(High, i - 1) \in SUBSET High /\ UpTo(Low, i - 1) \in SUBSET High
      BY DEF UpTo
    <3> QED BY <1>1, <3>1
  <2>2. t <= b + h /\ (run[i - 1].done \/ t >= b + l)
    BY <1>5
  <2>3. /\ F(UpTo(High, i)) = IF i \in High THEN h + f[i] ELSE h
        /\ F(UpTo(Low, i)) = IF i \in Low THEN l + f[i] ELSE l
    BY <1>2
  <2>4. i \in High => f[i] \in Nat
    OBVIOUS
  <2>5. /\ run[i].total = t \/ (i \in High /\ run[i].total = t + f[i])
        /\ run[i - 1].done => run[i].done
        /\ i \in Low /\ ~run[i].done => run[i].total = t + f[i]
    BY DEF Weighs
  <2> HIDE DEF F, h, l, t, b
  <2>6. run[i].total <= b + F(UpTo(High, i))
    BY <2>1, <2>2, <2>3, <2>4, <2>5
  <2>7. run[i].done \/ run[i].total >= b + F(UpTo(Low, i))
    BY <2>1, <2>2, <2>3, <2>4, <2>5
  <2> QED BY <2>6, <2>7 DEF b
<1> HIDE DEF G
<1>6. \A i \in 0..last : i \in G
  BY <1>4, <1>5, UpToInduction
<1>7. last \in G
  BY <1>6
<1> QED BY <1>3, <1>7 DEF G

(***************************************************************************)
(* Loops in the order of accounts and keys                                 *)
(***************************************************************************)

\* There is a last account or key, and every one is among the numbers up to it.
LEMMA LastNatural ==
  LastNumber \in Nat /\ Accounts \subseteq 1..LastNumber /\ Keys \subseteq 1..LastNumber
<1> DEFINE All == Accounts \cup Keys
           Top(S) == S = {} \/ \E x \in S : \A y \in S : x >= y
           G == {S \in SUBSET All : Top(S)}
<1>1. IsFiniteSet(All) /\ \A x \in All : x \in Nat /\ x >= 1
  BY AuthorityAssumption DEF AuthorityAssumption
<1>2. ASSUME NEW T \in SUBSET All, \A U \in SUBSET T : U # T => U \in G
      PROVE  T \in G
  <2>1. CASE T = {}
    BY <2>1
  <2>2. CASE T # {}
    <3>1. PICK x \in T : TRUE
      BY <2>2
    <3>2. Top(T \ {x})
      <4>1. T \ {x} \in SUBSET T /\ T \ {x} # T
        BY <3>1
      <4>2. T \ {x} \in G
        BY <1>2, <4>1
      <4> QED BY <4>2
    <3>3. \A y \in T : y \in Nat
      BY <1>1
    <3>4. CASE T \ {x} = {}
      <4>1. \A y \in T : y = x
        BY <3>4
      <4> QED BY <3>1, <3>3, <4>1
    <3>5. CASE T \ {x} # {}
      <4>1. PICK z \in T \ {x} : \A y \in T \ {x} : z >= y
        BY <3>2, <3>5
      <4>2. x \in Nat /\ z \in Nat
        BY <3>1, <3>3
      <4>3. CASE z >= x
        BY <4>1, <4>3
      <4>4. CASE ~(z >= x)
        <5>1. \A y \in T : x >= y
          BY <3>3, <4>1, <4>2, <4>4
        <5> QED BY <3>1, <5>1
      <4> QED BY <4>3, <4>4
    <3> QED BY <3>4, <3>5
  <2> QED BY <2>1, <2>2
<1>3. Top(All)
  <2>1. G \in SUBSET SUBSET All
    OBVIOUS
  <2> HIDE DEF G, All
  <2>2. All \in G
    BY <1>1, <1>2, <2>1, SubsetInduction
  <2> QED BY <2>2 DEF G
<1> DEFINE S == {0} \cup Accounts \cup Keys
<1>4. LastNumber \in S /\ \A y \in S : LastNumber >= y
  <2>1. \E x \in S : \A y \in S : x >= y
    <3>1. S = {0} \cup All
      OBVIOUS
    <3>2. CASE All = {}
      BY <3>1, <3>2
    <3>3. CASE All # {}
      <4>1. PICK x \in All : \A y \in All : x >= y
        BY <1>3, <3>3
      <4>2. x \in S /\ \A y \in S : x >= y
        BY <1>1, <3>1, <4>1
      <4> QED BY <4>2
    <3> QED BY <3>2, <3>3
  <2>2. LastNumber = CHOOSE x \in S : \A y \in S : x >= y
    BY DEF LastNumber, Max
  <2> HIDE DEF S
  <2> QED BY <2>1, <2>2
<1>5. LastNumber \in Nat
  BY <1>1, <1>4
<1> HIDE DEF S
<1>6. ASSUME NEW x \in All PROVE x \in 1..LastNumber
  <2>1. x \in S
    BY DEF S
  <2> QED BY <1>1, <1>4, <1>5, <2>1
<1> QED BY <1>5, <1>6

\* run goes through the numbers and takes a step at those in S.
Loops(run, S, base, step) ==
  /\ run[0] = base
  /\ \A i \in 1..LastNumber : run[i] = IF i \in S THEN step[<<run[i - 1], i>>] ELSE run[i - 1]

\* There is such a run, within the set its steps stay in.
LEMMA LoopRuns ==
  ASSUME NEW S, NEW M, NEW base \in M, NEW step,
         \A q \in M, i \in 1..LastNumber : i \in S => step[<<q, i>>] \in M
  PROVE  \E run \in [0..LastNumber -> M] : Loops(run, S, base, step)
<1> DEFINE n == LastNumber
           next_value == [p \in (1..n) \X M |-> IF p[1] \in S THEN step[<<p[2], p[1]>>] ELSE p[2]]
<1>1. n \in Nat
  BY LastNatural
<1>2. \A i \in 1..n, q \in M : next_value[<<i, q>>] = IF i \in S THEN step[<<q, i>>] ELSE q
  OBVIOUS
<1> HIDE DEF next_value
<1>3. StaysIn(next_value, 1..n, M)
  BY <1>2 DEF StaysIn
<1>4. PICK run \in [0..n -> M] : RunsBy(run, n, base, next_value)
  BY <1>1, <1>3, RunExists
<1>5. run[0] = base
  <2>1. 0 \in 0..n
    BY <1>1
  <2> QED BY <1>4, <2>1 DEF RunsBy
<1>6. ASSUME NEW i \in 1..n
      PROVE  run[i] = IF i \in S THEN step[<<run[i - 1], i>>] ELSE run[i - 1]
  <2>1. i \in 0..n /\ i # 0 /\ i - 1 \in 0..n
    BY <1>1
  <2>2. run[i] = next_value[<<i, run[i - 1]>>] /\ run[i - 1] \in M
    BY <1>4, <2>1 DEF RunsBy
  <2> QED BY <1>2, <2>2
<1> QED BY <1>4, <1>5, <1>6 DEF Loops

(***************************************************************************)
(* The search of one authority                                             *)
(***************************************************************************)

\* The states of a search with the keys sigs that has approvals A from its
\* start, as long as it takes only accounts of C for approving.
States(sigs, A, C) ==
  {s \in SearchStates : s.signed = sigs /\ A \subseteq s.approved /\ s.approved \subseteq C}

\* The values of its loops.
Tallies(au, sigs, A, C) ==
  {r \in [done : BOOLEAN, total : Nat, s : States(sigs, A, C)] : r.done => r.total >= au.threshold}

\* Adding a weight to a tally.
LEMMA Weighed ==
  ASSUME NEW au, IsAuthority(au), NEW sigs, NEW A, NEW C, NEW r \in Tallies(au, sigs, A, C),
         NEW w \in Nat, NEW s \in States(sigs, A, C)
  PROVE  /\ Weigh(au, r, w, s) \in Tallies(au, sigs, A, C)
         /\ Weigh(au, r, w, s).total = r.total + w
<1>1. r.total + w \in Nat /\ au.threshold \in Nat
  BY DEF Tallies, IsAuthority
<1> DEFINE t == r.total + w
<1> HIDE DEF t
<1>2. t \in Nat
  BY <1>1 DEF t
<1>3. CASE t >= au.threshold
  <2>1. Weigh(au, r, w, s) = [done |-> TRUE, total |-> t, s |-> s]
    BY <1>3 DEF Weigh, t
  <2> QED BY <1>2, <1>3, <2>1 DEF Tallies, t
<1>4. CASE ~(t >= au.threshold)
  <2>1. Weigh(au, r, w, s) = [done |-> FALSE, total |-> t, s |-> s]
    <3>1. (t >= au.threshold) = FALSE
      BY <1>4
    <3>2. Weigh(au, r, w, s) = [done |-> t >= au.threshold, total |-> t, s |-> s]
      BY DEF Weigh, t
    <3> QED BY <3>1, <3>2
  <2> QED BY <1>2, <2>1 DEF Tallies, t
<1> QED BY <1>3, <1>4

\* AddKey weighs a key that signed, and no other.
LEMMA KeyAdded ==
  ASSUME NEW au, IsAuthority(au), NEW sigs \in SUBSET Keys, NEW A, NEW C,
         NEW r \in Tallies(au, sigs, A, C), NEW k \in DOMAIN au.keys
  PROVE  LET t == AddKey(au, r, k)
         IN  /\ t \in Tallies(au, sigs, A, C)
             /\ t.total = r.total \/ (k \in sigs /\ t.total = r.total + au.keys[k])
             /\ r.done => t.done
             /\ k \in sigs /\ ~t.done => t.total = r.total + au.keys[k]
<1> DEFINE s == [r.s EXCEPT !.used = @ \cup {k}]
<1>1. au.keys[k] \in Nat /\ k \in Keys
  BY DEF IsAuthority
<1>2. r.s \in States(sigs, A, C) /\ r.s.signed = sigs
  BY DEF Tallies, States
<1>3. CASE r.done \/ k \notin sigs
  BY <1>2, <1>3 DEF AddKey
<1>4. CASE ~r.done /\ k \in sigs
  <2>1. s \in States(sigs, A, C)
    BY <1>1, <1>2, <1>4 DEF States, SearchStates
  <2>2. AddKey(au, r, k) = Weigh(au, r, au.keys[k], s)
    BY <1>2, <1>4 DEF AddKey
  <2> HIDE DEF s
  <2> QED BY <1>1, <1>4, <2>1, <2>2, Weighed
<1> QED BY <1>3, <1>4

\* The first loop of check_authority: it adds up the keys that signed, until it
\* is done.
LEMMA KeysFound ==
  ASSUME NEW au, IsAuthority(au), NEW sigs \in SUBSET Keys, NEW A, NEW C,
         NEW s \in States(sigs, A, C)
  PROVE  LET r == SearchKeys(au, s)
             weight == SumFunctionOnSet(au.keys, sigs \cap DOMAIN au.keys)
         IN  /\ r \in Tallies(au, sigs, A, C)
             /\ r.total <= weight /\ (r.done \/ r.total >= weight)
<1> DEFINE D == DOMAIN au.keys
           base == [done |-> FALSE, total |-> 0, s |-> s]
           M == Tallies(au, sigs, A, C)
           Step(r, i) == AddKey(au, r, i)
           step == [p \in M \X D |-> Step(p[1], p[2])]
           E(h) == h = [i \in 0..LastNumber |->
                          IF i = 0 THEN base ELSE IF i \in D THEN Step(h[i - 1], i) ELSE h[i - 1]]
           run == CHOOSE h : E(h)
<1>1. SearchKeys(au, s) = run[LastNumber]
  BY DEF SearchKeys, InOrder
<1>2. base \in M
  BY DEF Tallies
<1>3. ASSUME NEW r \in M, NEW i \in D PROVE Step(r, i) \in M
  BY <1>3, KeyAdded
<1>4. LastNumber \in Nat
  BY LastNatural
<1> HIDE DEF base, M, Step, D
<1>5. \A r \in M, i \in D : step[<<r, i>>] = Step(r, i)
  OBVIOUS
<1> HIDE DEF step
<1>6. PICK g \in [0..LastNumber -> M] : Loops(g, D, base, step)
  BY <1>2, <1>3, <1>5, LoopRuns
<1>7. g[0] = base /\ \A i \in 1..LastNumber : g[i] = IF i \in D THEN Step(g[i - 1], i) ELSE g[i - 1]
  <2>1. \A i \in 1..LastNumber : i - 1 \in 0..LastNumber
    BY <1>4
  <2> QED BY <1>5, <1>6, <2>1 DEF Loops
<1>8. E(g)
  <2>1. \A i \in 0..LastNumber : i # 0 => i \in 1..LastNumber
    BY <1>4
  <2>2. \A i \in 0..LastNumber :
          g[i] = IF i = 0 THEN base ELSE IF i \in D THEN Step(g[i - 1], i) ELSE g[i - 1]
    BY <1>7, <2>1
  <2> QED BY <1>6, <2>2
<1>9. run = g
  <2>1. E(run)
    BY <1>8
  <2> HIDE DEF run
  <2>2. RunsTo(run, LastNumber) /\ RunsTo(g, LastNumber)
    BY <1>8, <2>1 DEF RunsTo
  <2>3. \A i \in 0..LastNumber :
          run[i] = IF i = 0 THEN base ELSE IF i \in D THEN Step(run[i - 1], i) ELSE run[i - 1]
    BY <2>1
  <2>4. 0 \in 0..LastNumber /\ \A i \in 1..LastNumber : i \in 0..LastNumber /\ i # 0
    BY <1>4
  <2>5. RunAlike(run, g, LastNumber)
    BY <1>7, <2>3, <2>4 DEF RunAlike
  <2> QED BY <1>4, <2>2, <2>5, RunUnique
<1> HIDE DEF run
<1>10. SearchKeys(au, s) = g[LastNumber] /\ \A i \in 0..LastNumber : g[i] \in M
  BY <1>1, <1>6, <1>9
<1> DEFINE Signed == sigs \cap D
<1>11. Weighs(g, LastNumber, au.keys, Signed, Signed)
  <2> SUFFICES ASSUME NEW i \in 1..LastNumber
               PROVE  /\ g[i].total = g[i - 1].total
                           \/ (i \in Signed /\ g[i].total = g[i - 1].total + au.keys[i])
                      /\ g[i - 1].done => g[i].done
                      /\ i \in Signed /\ ~g[i].done => g[i].total = g[i - 1].total + au.keys[i]
    BY DEF Weighs
  <2>1. g[i - 1] \in Tallies(au, sigs, A, C)
    <3>1. i - 1 \in 0..LastNumber
      BY <1>4
    <3> QED BY <1>10, <3>1 DEF M
  <2>2. CASE i \in D
    <3>1. g[i] = AddKey(au, g[i - 1], i)
      BY <1>7, <2>2 DEF Step
    <3> DEFINE r == g[i - 1]
    <3>2. i \in DOMAIN au.keys /\ r \in Tallies(au, sigs, A, C) /\ g[i] = AddKey(au, r, i)
      BY <2>1, <2>2, <3>1 DEF D
    <3> HIDE DEF r
    <3>3. /\ g[i].total = r.total \/ (i \in sigs /\ g[i].total = r.total + au.keys[i])
          /\ r.done => g[i].done
          /\ i \in sigs /\ ~g[i].done => g[i].total = r.total + au.keys[i]
      BY <3>2, KeyAdded
    <3> QED BY <2>2, <3>3 DEF r
  <2>3. CASE i \notin D
    BY <1>7, <2>3
  <2> QED BY <2>2, <2>3
<1>12. Signed \in SUBSET (1..LastNumber) /\ \A x \in Signed : au.keys[x] \in Nat
  BY LastNatural DEF IsAuthority, D
<1>13. \A i \in 0..LastNumber : g[i].total \in Nat
  BY <1>10 DEF M, Tallies
<1> HIDE DEF Signed
<1>14. /\ g[LastNumber].total <= g[0].total + SumFunctionOnSet(au.keys, Signed)
       /\ g[LastNumber].done \/ g[LastNumber].total >= g[0].total + SumFunctionOnSet(au.keys, Signed)
  BY <1>4, <1>11, <1>12, <1>13, WeightAdded
<1>15. g[0].total = 0 /\ SumFunctionOnSet(au.keys, Signed) \in Nat
  <2>1. IsFiniteSet(1..LastNumber)
    BY <1>4, FS_Interval
  <2>2. IsFiniteSet(Signed)
    BY <1>12, <2>1, FS_Subset
  <2>3. SumFunctionOnSet(au.keys, Signed) \in Nat
    BY <1>12, <2>2, SumNat
  <2> QED BY <1>7, <2>3 DEF base
<1>16. LastNumber \in 0..LastNumber
  BY <1>4
<1> QED BY <1>10, <1>14, <1>15, <1>16 DEF M, Signed, D

\* deeper, the search of an account, takes no account for approving that is not
\* in C, and finds all those of L.
Good(deeper, sigs, A, C, L) ==
  /\ L \subseteq C
  /\ \A a \in Accounts, s \in States(sigs, A, C) :
       LET q == deeper[<<a, s>>]
       IN  /\ q.ok \in BOOLEAN /\ q.s \in States(sigs, A, C)
           /\ q.ok => a \in C
           /\ a \in L \ A => q.ok

\* t is the tally after account a, which weighs if it is in L and only if in C.
AccountStep(t, r, a, au, sigs, A, C, L) ==
  /\ t \in Tallies(au, sigs, A, C)
  /\ t.total = r.total \/ (a \in C /\ t.total = r.total + au.accounts[a])
  /\ r.done => t.done
  /\ a \in L /\ ~t.done => t.total = r.total + au.accounts[a]

\* AddAccount weighs accounts of C only, and every account of L.
LEMMA AccountAdded ==
  ASSUME NEW au, IsAuthority(au), NEW sigs \in SUBSET Keys, NEW A, NEW C, NEW L,
         NEW deeper, Good(deeper, sigs, A, C, L),
         NEW r \in Tallies(au, sigs, A, C), NEW a \in DOMAIN au.accounts
  PROVE  AccountStep(AddAccount(au, r, a, deeper), r, a, au, sigs, A, C, L)
<1> DEFINE q == deeper[<<a, r.s>>]
           s == [q.s EXCEPT !.approved = @ \cup {a}]
<1>1. au.accounts[a] \in Nat /\ a \in Accounts
  BY DEF IsAuthority
<1>2. r.s \in States(sigs, A, C) /\ A \subseteq r.s.approved /\ r.s.approved \subseteq C
  BY DEF Tallies, States
<1>3. /\ q.ok \in BOOLEAN /\ q.s \in States(sigs, A, C)
      /\ q.ok => a \in C
      /\ a \in L \ A => q.ok
  BY <1>1, <1>2 DEF Good
<1>4. AddAccount(au, r, a, deeper)
        = IF r.done THEN r
          ELSE IF a \in r.s.approved THEN Weigh(au, r, au.accounts[a], r.s)
          ELSE IF ~q.ok THEN [r EXCEPT !.s = q.s]
          ELSE Weigh(au, r, au.accounts[a], s)
  BY DEF AddAccount
<1> HIDE DEF q
<1>5. CASE r.done
  BY <1>4, <1>5 DEF AccountStep
<1>6. CASE ~r.done /\ a \in r.s.approved
  <2>1. AddAccount(au, r, a, deeper) = Weigh(au, r, au.accounts[a], r.s)
    BY <1>4, <1>6
  <2> QED BY <1>1, <1>2, <1>6, <2>1, Weighed DEF AccountStep
<1>7. CASE ~r.done /\ a \notin r.s.approved /\ ~q.ok
  <2>1. AddAccount(au, r, a, deeper) = [r EXCEPT !.s = q.s]
    BY <1>4, <1>7
  <2>2. [r EXCEPT !.s = q.s] \in Tallies(au, sigs, A, C) /\ [r EXCEPT !.s = q.s].total = r.total
    BY <1>3 DEF Tallies
  <2>3. a \notin L
    BY <1>2, <1>3, <1>7
  <2> QED BY <1>7, <2>1, <2>2, <2>3 DEF AccountStep
<1>8. CASE ~r.done /\ a \notin r.s.approved /\ q.ok
  <2>1. s \in States(sigs, A, C)
    BY <1>1, <1>3, <1>8 DEF States, SearchStates
  <2>2. AddAccount(au, r, a, deeper) = Weigh(au, r, au.accounts[a], s)
    BY <1>4, <1>8
  <2> HIDE DEF s
  <2> QED BY <1>1, <1>3, <1>8, <2>1, <2>2, Weighed DEF AccountStep
<1> QED BY <1>3, <1>5, <1>6, <1>7, <1>8

\* The last loop of check_authority, which goes on from the keys' total.
LEMMA AccountsFound ==
  ASSUME NEW au, IsAuthority(au), NEW sigs \in SUBSET Keys, NEW A, NEW C, NEW L,
         NEW deeper, Good(deeper, sigs, A, C, L), NEW r0 \in Tallies(au, sigs, A, C)
  PROVE  LET r == SearchAccounts(au, r0, deeper)
         IN  /\ r \in Tallies(au, sigs, A, C)
             /\ r.total <= r0.total + SumFunctionOnSet(au.accounts, C \cap DOMAIN au.accounts)
             /\ r.done \/ r.total >= r0.total + SumFunctionOnSet(au.accounts, L \cap DOMAIN au.accounts)
             /\ r0.done => r.done
<1> DEFINE D == DOMAIN au.accounts
           base == r0
           M == Tallies(au, sigs, A, C)
           Step(r, i) == AddAccount(au, r, i, deeper)
           step == [p \in M \X D |-> Step(p[1], p[2])]
           E(h) == h = [i \in 0..LastNumber |->
                          IF i = 0 THEN base ELSE IF i \in D THEN Step(h[i - 1], i) ELSE h[i - 1]]
           run == CHOOSE h : E(h)
<1>1. SearchAccounts(au, r0, deeper) = run[LastNumber]
  BY DEF SearchAccounts, InOrder
<1>2. base \in M
  OBVIOUS
<1>3. ASSUME NEW r \in M, NEW i \in D PROVE Step(r, i) \in M
  BY <1>3, AccountAdded DEF AccountStep
<1>3a. ASSUME NEW r \in M, NEW i \in D PROVE AccountStep(Step(r, i), r, i, au, sigs, A, C, L)
  BY <1>3a, AccountAdded
<1>4. LastNumber \in Nat
  BY LastNatural
<1> HIDE DEF base, M, Step, D
<1>5. \A r \in M, i \in D : step[<<r, i>>] = Step(r, i)
  OBVIOUS
<1> HIDE DEF step
<1>6. PICK g \in [0..LastNumber -> M] : Loops(g, D, base, step)
  BY <1>2, <1>3, <1>5, LoopRuns
<1>7. g[0] = base /\ \A i \in 1..LastNumber : g[i] = IF i \in D THEN Step(g[i - 1], i) ELSE g[i - 1]
  <2>1. \A i \in 1..LastNumber : i - 1 \in 0..LastNumber
    BY <1>4
  <2> QED BY <1>5, <1>6, <2>1 DEF Loops
<1>8. E(g)
  <2>1. \A i \in 0..LastNumber : i # 0 => i \in 1..LastNumber
    BY <1>4
  <2>2. \A i \in 0..LastNumber :
          g[i] = IF i = 0 THEN base ELSE IF i \in D THEN Step(g[i - 1], i) ELSE g[i - 1]
    BY <1>7, <2>1
  <2> QED BY <1>6, <2>2
<1>9. run = g
  <2>1. E(run)
    BY <1>8
  <2> HIDE DEF run
  <2>2. RunsTo(run, LastNumber) /\ RunsTo(g, LastNumber)
    BY <1>8, <2>1 DEF RunsTo
  <2>3. \A i \in 0..LastNumber :
          run[i] = IF i = 0 THEN base ELSE IF i \in D THEN Step(run[i - 1], i) ELSE run[i - 1]
    BY <2>1
  <2>4. 0 \in 0..LastNumber /\ \A i \in 1..LastNumber : i \in 0..LastNumber /\ i # 0
    BY <1>4
  <2>5. RunAlike(run, g, LastNumber)
    BY <1>7, <2>3, <2>4 DEF RunAlike
  <2> QED BY <1>4, <2>2, <2>5, RunUnique
<1> HIDE DEF run
<1>10. SearchAccounts(au, r0, deeper) = g[LastNumber] /\ \A i \in 0..LastNumber : g[i] \in M
  BY <1>1, <1>6, <1>9
<1> DEFINE High == C \cap D
           Low == L \cap D
<1>11. ASSUME NEW i \in 1..LastNumber
       PROVE  /\ g[i].total = g[i - 1].total
                   \/ (i \in High /\ g[i].total = g[i - 1].total + au.accounts[i])
              /\ g[i - 1].done => g[i].done
              /\ i \in Low /\ ~g[i].done => g[i].total = g[i - 1].total + au.accounts[i]
  <2>1. g[i - 1] \in Tallies(au, sigs, A, C)
    <3>1. i - 1 \in 0..LastNumber
      BY <1>4
    <3> QED BY <1>10, <3>1 DEF M
  <2>2. CASE i \in D
    <3>1. g[i] = AddAccount(au, g[i - 1], i, deeper)
      BY <1>7, <2>2 DEF Step
    <3> DEFINE r == g[i - 1]
    <3>2. i \in DOMAIN au.accounts /\ r \in Tallies(au, sigs, A, C) /\ g[i] = AddAccount(au, r, i, deeper)
      BY <2>1, <2>2, <3>1 DEF D
    <3> HIDE DEF r
    <3>3. /\ g[i].total = r.total \/ (i \in C /\ g[i].total = r.total + au.accounts[i])
          /\ r.done => g[i].done
          /\ i \in L /\ ~g[i].done => g[i].total = r.total + au.accounts[i]
      BY <1>3a, <3>2 DEF Step, D, M, AccountStep
    <3> QED BY <2>2, <3>3 DEF r
  <2>3. CASE i \notin D
    BY <1>7, <2>3
  <2> QED BY <2>2, <2>3
<1>12. /\ High \in SUBSET (1..LastNumber) /\ Low \in SUBSET (1..LastNumber) /\ Low \subseteq High
       /\ \A x \in High : au.accounts[x] \in Nat
  BY LastNatural DEF IsAuthority, D, Good
<1>13. \A i \in 0..LastNumber : g[i].total \in Nat
  BY <1>10 DEF M, Tallies
<1> HIDE DEF High, Low
<1>14. Weighs(g, LastNumber, au.accounts, Low, High)
  BY <1>11 DEF Weighs
<1>15. /\ g[LastNumber].total <= g[0].total + SumFunctionOnSet(au.accounts, High)
       /\ g[LastNumber].done \/ g[LastNumber].total >= g[0].total + SumFunctionOnSet(au.accounts, Low)
  BY <1>4, <1>12, <1>13, <1>14, WeightAdded
<1>16. r0.done => g[LastNumber].done
  <2> SUFFICES ASSUME r0.done PROVE g[LastNumber].done
    OBVIOUS
  <2> DEFINE G == {i \in 0..LastNumber : g[i].done}
  <2>1. 0 \in G
    BY <1>4, <1>7 DEF base
  <2>2. ASSUME NEW i \in 1..LastNumber, i - 1 \in G PROVE i \in G
    BY <1>4, <1>11, <2>2
  <2> HIDE DEF G
  <2>3. \A i \in 0..LastNumber : i \in G
    BY <1>4, <2>1, <2>2, UpToInduction
  <2>4. LastNumber \in G
    BY <1>4, <2>3
  <2> QED BY <2>4 DEF G
<1>17. LastNumber \in 0..LastNumber
  BY <1>4
<1> QED BY <1>7, <1>10, <1>15, <1>16, <1>17 DEF M, High, Low, D, base

\* q accepts only what C satisfies, and accepts what L satisfies.
Decides(q, au, sigs, A, C, L) ==
  /\ q \in [ok : BOOLEAN, s : States(sigs, A, C)]
  /\ q.ok => Satisfied(au, sigs, C)
  /\ Satisfied(au, sigs, L) => q.ok

\* The search of an authority accepts only what is satisfied by the accounts of
\* C, and accepts what the accounts of L satisfy, although it stops early.
LEMMA SearchFound ==
  ASSUME NEW au, IsAuthority(au), NEW sigs \in SUBSET Keys, NEW A, NEW C \in SUBSET Accounts, NEW L,
         NEW deeper, Good(deeper, sigs, A, C, L), NEW s \in States(sigs, A, C)
  PROVE  Decides(Search(au, s, deeper), au, sigs, A, C, L)
<1> DEFINE r0 == SearchKeys(au, s)
           r == SearchAccounts(au, r0, deeper)
           keys == SumFunctionOnSet(au.keys, sigs \cap DOMAIN au.keys)
           high == SumFunctionOnSet(au.accounts, C \cap DOMAIN au.accounts)
           low == SumFunctionOnSet(au.accounts, L \cap DOMAIN au.accounts)
<1>1. r0 \in Tallies(au, sigs, A, C) /\ r0.total <= keys /\ (r0.done \/ r0.total >= keys)
  BY KeysFound
<1> HIDE DEF r0
<1>2. /\ r \in Tallies(au, sigs, A, C)
      /\ r.total <= r0.total + high
      /\ r.done \/ r.total >= r0.total + low
      /\ r0.done => r.done
  BY <1>1, AccountsFound
<1>3. keys \in Nat /\ high \in Nat /\ low \in Nat
  <2>1. LastNumber \in Nat /\ Accounts \subseteq 1..LastNumber /\ Keys \subseteq 1..LastNumber
    BY LastNatural
  <2>2. IsFiniteSet(1..LastNumber)
    BY <2>1, FS_Interval
  <2>3. IsFiniteSet(DOMAIN au.keys) /\ IsFiniteSet(DOMAIN au.accounts)
    <3>1. DOMAIN au.keys \in SUBSET (1..LastNumber) /\ DOMAIN au.accounts \in SUBSET (1..LastNumber)
      BY <2>1 DEF IsAuthority
    <3> QED BY <2>2, <3>1, FS_Subset
  <2>4. \A S : IsFiniteSet(S \cap DOMAIN au.keys) /\ IsFiniteSet(S \cap DOMAIN au.accounts)
    <3>1. \A S : S \cap DOMAIN au.keys \in SUBSET DOMAIN au.keys
      OBVIOUS
    <3>2. \A S : S \cap DOMAIN au.accounts \in SUBSET DOMAIN au.accounts
      OBVIOUS
    <3> QED BY <2>3, <3>1, <3>2, FS_Subset
  <2>5. keys \in Nat
    BY <2>4, SumNat DEF IsAuthority
  <2>6. high \in Nat
    BY <2>4, SumNat DEF IsAuthority
  <2>7. low \in Nat
    BY <2>4, SumNat DEF IsAuthority
  <2> QED BY <2>5, <2>6, <2>7
<1>4. Search(au, s, deeper) = [ok |-> r.total >= au.threshold, s |-> r.s]
  BY DEF Search, r0
<1>5. /\ Satisfied(au, sigs, C) <=> au.threshold <= keys + high
      /\ Satisfied(au, sigs, L) <=> au.threshold <= keys + low
  BY DEF Satisfied
<1> HIDE DEF r, keys, high, low
<1>6. /\ r.total \in Nat /\ r0.total \in Nat /\ au.threshold \in Nat
      /\ r.done => r.total >= au.threshold
      /\ r.s \in States(sigs, A, C)
  BY <1>1, <1>2 DEF Tallies, IsAuthority
<1>7. /\ r.total >= au.threshold => au.threshold <= keys + high
      /\ au.threshold <= keys + low => r.total >= au.threshold
  BY <1>1, <1>2, <1>3, <1>6
<1>8. CASE r.total >= au.threshold
  <2>1. Search(au, s, deeper) = [ok |-> TRUE, s |-> r.s]
    BY <1>4, <1>8
  <2> QED BY <1>5, <1>6, <1>7, <1>8, <2>1 DEF Decides
<1>9. CASE ~(r.total >= au.threshold)
  <2>1. (r.total >= au.threshold) = FALSE
    BY <1>9
  <2>2. Search(au, s, deeper) = [ok |-> FALSE, s |-> r.s]
    BY <1>4, <2>1
  <2> QED BY <1>5, <1>6, <1>7, <1>9, <2>2 DEF Decides
<1> QED BY <1>8, <1>9

(***************************************************************************)
(* The reference: levels of approval                                       *)
(***************************************************************************)

\* More approving accounts satisfy no less.
LEMMA SatisfiedMore ==
  ASSUME NEW au, IsAuthority(au), NEW sigs, NEW S, NEW T, S \subseteq T, Satisfied(au, sigs, S)
  PROVE  Satisfied(au, sigs, T)
<1> DEFINE D == DOMAIN au.accounts
           keys == SumFunctionOnSet(au.keys, sigs \cap DOMAIN au.keys)
           low == SumFunctionOnSet(au.accounts, S \cap D)
           high == SumFunctionOnSet(au.accounts, T \cap D)
<1>1. IsFiniteSet(DOMAIN au.keys) /\ IsFiniteSet(D)
  <2>1. LastNumber \in Nat /\ Accounts \subseteq 1..LastNumber /\ Keys \subseteq 1..LastNumber
    BY LastNatural
  <2>2. IsFiniteSet(1..LastNumber)
    BY <2>1, FS_Interval
  <2>3. DOMAIN au.keys \in SUBSET (1..LastNumber) /\ DOMAIN au.accounts \in SUBSET (1..LastNumber)
    BY <2>1 DEF IsAuthority
  <2> QED BY <2>2, <2>3, FS_Subset
<1>2. /\ IsFiniteSet(sigs \cap DOMAIN au.keys) /\ IsFiniteSet(S \cap D) /\ IsFiniteSet(T \cap D)
  <2>1. sigs \cap DOMAIN au.keys \in SUBSET DOMAIN au.keys /\ S \cap D \in SUBSET D /\ T \cap D \in SUBSET D
    OBVIOUS
  <2> QED BY <1>1, <2>1, FS_Subset
<1>3. keys \in Nat
  BY <1>2, SumNat DEF IsAuthority
<1>4. low \in Nat
  BY <1>2, SumNat DEF IsAuthority
<1>5. high \in Nat
  BY <1>2, SumNat DEF IsAuthority
<1>6. low <= high
  <2>1. S \cap D \in SUBSET (T \cap D) /\ \A x \in T \cap D : au.accounts[x] \in Nat
    BY DEF IsAuthority
  <2> QED BY <1>2, <2>1, SumSubset
<1>7. au.threshold \in Nat /\ au.threshold <= keys + low
  BY DEF IsAuthority, Satisfied
<1> HIDE DEF keys, low, high
<1>8. au.threshold <= keys + high
  BY <1>3, <1>4, <1>5, <1>6, <1>7
<1> QED BY <1>8 DEF Satisfied, keys, high, D

\* lv holds the accounts that approve within 0, 1, ..., n levels.
Levels(lv, m, sigs, A, n) ==
  /\ lv[0] = A
  /\ \A i \in 1..n : lv[i] = lv[i - 1] \cup {a \in Accounts : Satisfied(m[a], sigs, lv[i - 1])}

\* Approving is the last of them.
LEMMA ApprovingLevels ==
  ASSUME NEW m, NEW sigs, NEW A \in SUBSET Accounts, NEW n \in Nat
  PROVE  \E lv \in [0..n -> SUBSET Accounts] : Levels(lv, m, sigs, A, n) /\ Approving(m, sigs, A, n) = lv[n]
<1> DEFINE M == SUBSET Accounts
           Step(S) == S \cup {a \in Accounts : Satisfied(m[a], sigs, S)}
           step == [p \in (1..n) \X M |-> Step(p[2])]
           E(h) == h = [i \in 0..n |-> IF i = 0 THEN A ELSE Step(h[i - 1])]
           run == CHOOSE h : E(h)
<1>1. Approving(m, sigs, A, n) = run[n]
  BY DEF Approving
<1>2. A \in M /\ \A S \in M : Step(S) \in M
  OBVIOUS
<1> HIDE DEF M, Step
<1>3. \A i \in 1..n, S \in M : step[<<i, S>>] = Step(S)
  OBVIOUS
<1> HIDE DEF step
<1>4. StaysIn(step, 1..n, M)
  BY <1>2, <1>3 DEF StaysIn
<1>5. PICK g \in [0..n -> M] : RunsBy(g, n, A, step)
  BY <1>2, <1>4, RunExists
<1>6. 0 \in 0..n /\ n \in 0..n /\ \A i \in 1..n : i \in 0..n /\ i # 0 /\ i - 1 \in 0..n
  OBVIOUS
<1>7. g[0] = A /\ \A i \in 1..n : g[i] = Step(g[i - 1])
  BY <1>3, <1>5, <1>6 DEF RunsBy
<1>8. E(g)
  <2>1. \A i \in 0..n : i # 0 => i \in 1..n
    OBVIOUS
  <2>2. \A i \in 0..n : g[i] = IF i = 0 THEN A ELSE Step(g[i - 1])
    BY <1>7, <2>1
  <2> QED BY <1>5, <2>2
<1>9. run = g
  <2>1. E(run)
    BY <1>8
  <2> HIDE DEF run
  <2>2. RunsTo(run, n) /\ RunsTo(g, n)
    BY <1>8, <2>1 DEF RunsTo
  <2>3. \A i \in 0..n : run[i] = IF i = 0 THEN A ELSE Step(run[i - 1])
    BY <2>1
  <2>4. RunAlike(run, g, n)
    BY <1>6, <1>7, <2>3 DEF RunAlike
  <2> QED BY <2>2, <2>4, RunUnique
<1> HIDE DEF run
<1>10. Levels(g, m, sigs, A, n)
  BY <1>7 DEF Levels, Step
<1> QED BY <1>1, <1>5, <1>9, <1>10 DEF M

\* Nothing follows from C that is not in it.
Closed(C, m, sigs) == \A a \in Accounts : Satisfied(m[a], sigs, C) => a \in C

\* Each level holds the one before; what is in one and not in A follows from the
\* one before; and all of them are within a closed set that holds A.
LEMMA LevelsGrow ==
  ASSUME NEW m, \A a \in Accounts : IsAuthority(m[a]), NEW sigs, NEW A, NEW n \in Nat,
         NEW lv \in [0..n -> SUBSET Accounts], Levels(lv, m, sigs, A, n)
  PROVE  /\ \A i \in 1..n : lv[i - 1] \subseteq lv[i]
         /\ \A i \in 1..n : \A a \in lv[i] \ A : Satisfied(m[a], sigs, lv[i - 1])
         /\ \A i \in 0..n : A \subseteq lv[i]
         /\ \A i \in 0..n : \A a \in lv[i] \ A : Satisfied(m[a], sigs, lv[i])
<1> DEFINE Follows(i) == i # 0 /\ \A a \in lv[i] \ A : Satisfied(m[a], sigs, lv[i - 1])
           G == {i \in 0..n : A \subseteq lv[i] /\ (i = 0 \/ Follows(i))}
<1>0. 0 \in 0..n /\ \A i \in 1..n : i \in 0..n /\ i # 0 /\ i - 1 \in 0..n
  OBVIOUS
<1>1. \A i \in 1..n : lv[i - 1] \subseteq lv[i] /\ lv[i] \in SUBSET Accounts /\ lv[i - 1] \in SUBSET Accounts
  BY <1>0 DEF Levels
<1>2. 0 \in G
  BY <1>0 DEF Levels
<1>3. ASSUME NEW i \in 1..n, i - 1 \in G PROVE i \in G
  <2>1. A \subseteq lv[i]
    BY <1>1, <1>3
  <2>2. ASSUME NEW a \in lv[i] \ A PROVE Satisfied(m[a], sigs, lv[i - 1])
    <3>1. CASE a \notin lv[i - 1]
      BY <2>2, <3>1 DEF Levels
    <3>2. CASE a \in lv[i - 1]
      <4>1. i - 1 # 0
        BY <2>2, <3>2 DEF Levels
      <4>2. i - 1 \in 1..n /\ Satisfied(m[a], sigs, lv[i - 1 - 1])
        BY <1>3, <2>2, <3>2, <4>1
      <4> DEFINE j == i - 1
      <4>3. lv[j - 1] \subseteq lv[j] /\ IsAuthority(m[a])
        BY <1>1, <2>2, <4>2
      <4> HIDE DEF j
      <4>4. Satisfied(m[a], sigs, lv[j - 1])
        BY <4>2 DEF j
      <4>5. Satisfied(m[a], sigs, lv[j])
        BY <4>3, <4>4, SatisfiedMore
      <4> QED BY <4>5 DEF j
    <3> QED BY <3>1, <3>2
  <2> QED BY <1>0, <2>1, <2>2
<1> HIDE DEF G
<1>4. \A i \in 0..n : i \in G
  BY <1>2, <1>3, UpToInduction
<1>5. \A i \in 1..n : \A a \in lv[i] \ A : Satisfied(m[a], sigs, lv[i - 1])
  BY <1>0, <1>4 DEF G
<1>6. ASSUME NEW i \in 0..n, NEW a \in lv[i] \ A PROVE Satisfied(m[a], sigs, lv[i])
  <2>1. i # 0
    BY <1>6 DEF Levels
  <2>2. i \in 1..n
    BY <2>1
  <2>3. Satisfied(m[a], sigs, lv[i - 1]) /\ lv[i - 1] \subseteq lv[i] /\ IsAuthority(m[a])
    BY <1>1, <1>5, <1>6, <2>2
  <2> QED BY <2>3, SatisfiedMore
<1> QED BY <1>1, <1>4, <1>5, <1>6 DEF G

\* All levels are within a closed set that holds the first.
LEMMA LevelsWithin ==
  ASSUME NEW m, \A a \in Accounts : IsAuthority(m[a]), NEW sigs, NEW A, NEW n \in Nat,
         NEW lv \in [0..n -> SUBSET Accounts], Levels(lv, m, sigs, A, n),
         NEW C, A \subseteq C, Closed(C, m, sigs)
  PROVE  \A i \in 0..n : lv[i] \subseteq C
<1> DEFINE G == {i \in 0..n : lv[i] \subseteq C}
<1>1. 0 \in G
  BY DEF Levels
<1>2. ASSUME NEW i \in 1..n, i - 1 \in G PROVE i \in G
  <2>1. i \in 0..n /\ lv[i - 1] \subseteq C
    BY <1>2
  <2>2. ASSUME NEW a \in Accounts, Satisfied(m[a], sigs, lv[i - 1]) PROVE a \in C
    <3>1. Satisfied(m[a], sigs, C)
      BY <2>1, <2>2, SatisfiedMore
    <3> QED BY <3>1 DEF Closed
  <2>3. lv[i] = lv[i - 1] \cup {a \in Accounts : Satisfied(m[a], sigs, lv[i - 1])}
    BY DEF Levels
  <2> QED BY <2>1, <2>2, <2>3
<1> HIDE DEF G
<1>3. \A i \in 0..n : i \in G
  BY <1>1, <1>2, UpToInduction
<1> QED BY <1>3 DEF G

\* As many levels as there are accounts reach all that follows.
LEMMA ApprovingClosed ==
  ASSUME NEW m, \A a \in Accounts : IsAuthority(m[a]), NEW sigs, NEW A \in SUBSET Accounts
  PROVE  LET C == Approving(m, sigs, A, Cardinality(Accounts))
         IN  /\ C \in SUBSET Accounts /\ A \subseteq C
             /\ Closed(C, m, sigs)
             /\ \A a \in C : a \in A \/ Satisfied(m[a], sigs, C)
<1> DEFINE n == Cardinality(Accounts)
<1>1. IsFiniteSet(Accounts) /\ n \in Nat
  <2>1. IsFiniteSet(Accounts \cup Keys) /\ Accounts \in SUBSET (Accounts \cup Keys)
    BY AuthorityAssumption DEF AuthorityAssumption
  <2>2. IsFiniteSet(Accounts)
    BY <2>1, FS_Subset
  <2> QED BY <2>2, FS_CardinalityType
<1> HIDE DEF n
<1>2. PICK lv \in [0..n -> SUBSET Accounts] :
        Levels(lv, m, sigs, A, n) /\ Approving(m, sigs, A, n) = lv[n]
  BY <1>1, ApprovingLevels
<1>3. /\ \A i \in 1..n : lv[i - 1] \subseteq lv[i]
      /\ \A i \in 0..n : A \subseteq lv[i]
      /\ \A i \in 0..n : \A a \in lv[i] \ A : Satisfied(m[a], sigs, lv[i])
  BY <1>1, <1>2, LevelsGrow
<1>4. \A i \in 0..n : lv[i] \in SUBSET Accounts /\ IsFiniteSet(lv[i]) /\ Cardinality(lv[i]) \in Nat
  BY <1>1, <1>2, FS_Subset, FS_CardinalityType
<1> DEFINE G == {i \in 0..n : Closed(lv[i], m, sigs) \/ Cardinality(lv[i]) >= i}
<1>5. 0 \in G
  <2>1. 0 \in 0..n
    BY <1>1
  <2> QED BY <1>4, <2>1
<1>6. ASSUME NEW i \in 1..n, i - 1 \in G PROVE i \in G
  <2> DEFINE S == lv[i - 1]
             T == lv[i]
  <2>0. i \in 0..n /\ i - 1 \in 0..n /\ i \in Nat
    BY <1>1
  <2>1. T = S \cup {a \in Accounts : Satisfied(m[a], sigs, S)}
    BY <1>2 DEF Levels
  <2>2. CASE Closed(S, m, sigs)
    <3>1. T = S
      BY <2>1, <2>2 DEF Closed
    <3> QED BY <2>0, <2>2, <3>1
  <2>3. CASE ~Closed(S, m, sigs)
    <3>1. S # T
      BY <2>1, <2>3 DEF Closed
    <3>2. Cardinality(S) >= i - 1
      BY <1>6, <2>3
    <3>3. S \subseteq T /\ IsFiniteSet(T) /\ Cardinality(S) \in Nat /\ Cardinality(T) \in Nat
      BY <1>3, <1>4, <2>0
    <3> HIDE DEF S, T
    <3>4. Cardinality(S) <= Cardinality(T) /\ Cardinality(S) # Cardinality(T)
      BY <3>1, <3>3, FS_Subset
    <3>5. Cardinality(T) >= i
      BY <2>0, <3>2, <3>3, <3>4
    <3> QED BY <2>0, <3>5 DEF T
  <2> QED BY <2>2, <2>3
<1> HIDE DEF G
<1>7. \A i \in 0..n : i \in G
  BY <1>1, <1>5, <1>6, UpToInduction
<1>8. n \in 0..n
  BY <1>1
<1>9. Closed(lv[n], m, sigs)
  <2>1. CASE Closed(lv[n], m, sigs)
    BY <2>1
  <2>2. CASE Cardinality(lv[n]) >= n
    <3> DEFINE T == lv[n]
    <3>1. T \subseteq Accounts /\ Cardinality(T) \in Nat /\ Cardinality(T) >= n
      BY <1>4, <1>8, <2>2
    <3> HIDE DEF T
    <3>2. Cardinality(T) <= Cardinality(Accounts) /\ (Cardinality(T) = Cardinality(Accounts) => T = Accounts)
      BY <1>1, <3>1, FS_Subset
    <3>3. T = Accounts
      BY <1>1, <3>1, <3>2 DEF n
    <3> QED BY <3>3 DEF T, Closed
  <2>3. n \in G
    BY <1>7, <1>8
  <2>4. Closed(lv[n], m, sigs) \/ Cardinality(lv[n]) >= n
    BY <2>3 DEF G
  <2> QED BY <2>1, <2>2, <2>4
<1> QED BY <1>2, <1>3, <1>4, <1>8, <1>9 DEF n

(***************************************************************************)
(* The nested search                                                       *)
(***************************************************************************)

\* What a search of accounts may be, level by level.
Searchers ==
  {d \in [Accounts \X SearchStates -> [ok : BOOLEAN, s : SearchStates]] :
     \A a \in Accounts, s \in SearchStates : d[<<a, s>>].s.signed = s.signed}

\* One level more than the search d.
Deeper(m, d) == [p \in Accounts \X SearchStates |-> Search(m[p[1]], p[2], d)]

\* No level.
Nothing == [p \in Accounts \X SearchStates |-> [ok |-> FALSE, s |-> p[2]]]

\* One level more is a search again.
LEMMA DeeperSearches ==
  ASSUME NEW m, \A a \in Accounts : IsAuthority(m[a]), NEW d \in Searchers
  PROVE  Deeper(m, d) \in Searchers
<1>1. ASSUME NEW a \in Accounts, NEW s \in SearchStates
      PROVE  /\ Search(m[a], s, d) \in [ok : BOOLEAN, s : SearchStates]
             /\ Search(m[a], s, d).s.signed = s.signed
  <2> DEFINE sigs == s.signed
             None == {}
  <2>1. sigs \in SUBSET Keys /\ s \in States(sigs, None, Accounts)
    BY DEF SearchStates, States
  <2>2. \A b \in Accounts, t \in States(sigs, None, Accounts) :
          /\ d[<<b, t>>] \in [ok : BOOLEAN, s : SearchStates]
          /\ d[<<b, t>>].s.signed = sigs
    BY DEF Searchers, States
  <2>3. Good(d, sigs, None, Accounts, None)
    BY <2>2 DEF Good, States, SearchStates
  <2>4. IsAuthority(m[a]) /\ Accounts \in SUBSET Accounts
    OBVIOUS
  <2> HIDE DEF sigs, None
  <2>5. Decides(Search(m[a], s, d), m[a], sigs, None, Accounts, None)
    BY <2>1, <2>3, <2>4, SearchFound
  <2>6. Search(m[a], s, d) \in [ok : BOOLEAN, s : States(sigs, None, Accounts)]
    BY <2>5 DEF Decides
  <2> QED BY <2>6 DEF States, sigs
<1> QED BY <1>1 DEF Deeper, Searchers

\* lv holds the searches of 0, 1, ..., n levels.
SearchLevels(lv, m, n) == lv[0] = Nothing /\ \A i \in 1..n : lv[i] = Deeper(m, lv[i - 1])

\* SearchAccount is the last of them.
LEMMA SearchAccountLevels ==
  ASSUME NEW m, \A a \in Accounts : IsAuthority(m[a]), NEW n \in Nat
  PROVE  \E lv \in [0..n -> Searchers] : SearchLevels(lv, m, n) /\ SearchAccount(m, n) = lv[n]
<1> DEFINE M == Searchers
           step == [p \in (1..n) \X M |-> Deeper(m, p[2])]
           E(h) == h = [i \in 0..n |-> [p \in Accounts \X SearchStates |->
                          IF i = 0 THEN [ok |-> FALSE, s |-> p[2]]
                          ELSE Search(m[p[1]], p[2], h[i - 1])]]
           run == CHOOSE h : E(h)
<1>1. SearchAccount(m, n) = run[n]
  BY DEF SearchAccount
<1>2. Nothing \in M /\ \A d \in M : Deeper(m, d) \in M
  <2>1. Nothing \in Searchers
    BY DEF Nothing, Searchers
  <2> QED BY <2>1, DeeperSearches
<1> HIDE DEF M
<1>3. \A i \in 1..n, d \in M : step[<<i, d>>] = Deeper(m, d)
  OBVIOUS
<1> HIDE DEF step
<1>4. StaysIn(step, 1..n, M)
  BY <1>2, <1>3 DEF StaysIn
<1>5. PICK g \in [0..n -> M] : RunsBy(g, n, Nothing, step)
  BY <1>2, <1>4, RunExists
<1>6. 0 \in 0..n /\ n \in 0..n /\ \A i \in 1..n : i \in 0..n /\ i # 0 /\ i - 1 \in 0..n
  OBVIOUS
<1>7. g[0] = Nothing /\ \A i \in 1..n : g[i] = Deeper(m, g[i - 1])
  BY <1>3, <1>5, <1>6 DEF RunsBy
<1>8. E(g)
  <2>1. ASSUME NEW i \in 0..n
        PROVE  g[i] = [p \in Accounts \X SearchStates |->
                         IF i = 0 THEN [ok |-> FALSE, s |-> p[2]] ELSE Search(m[p[1]], p[2], g[i - 1])]
    <3>1. CASE i = 0
      BY <1>7, <3>1 DEF Nothing
    <3>2. CASE i # 0
      <4>1. i \in 1..n
        BY <3>2
      <4>2. g[i] = [p \in Accounts \X SearchStates |-> Search(m[p[1]], p[2], g[i - 1])]
        BY <1>7, <4>1 DEF Deeper
      <4> QED BY <3>2, <4>2
    <3> QED BY <3>1, <3>2
  <2> QED BY <1>5, <2>1
<1>9. run = g
  <2>1. E(run)
    BY <1>8
  <2> HIDE DEF run
  <2>2. RunsTo(run, n) /\ RunsTo(g, n)
    BY <1>8, <2>1 DEF RunsTo
  <2>3. ASSUME NEW i \in 0..n
        PROVE  run[i] = [p \in Accounts \X SearchStates |->
                           IF i = 0 THEN [ok |-> FALSE, s |-> p[2]] ELSE Search(m[p[1]], p[2], run[i - 1])]
    BY <2>1
  <2>4. run[0] = Nothing
    BY <1>6, <2>3 DEF Nothing
  <2>5. ASSUME NEW i \in 1..n PROVE run[i] = Deeper(m, run[i - 1])
    <3>1. i \in 0..n /\ i # 0
      BY <1>6
    <3> QED BY <2>3, <3>1 DEF Deeper
  <2>6. RunAlike(run, g, n)
    BY <1>7, <2>4, <2>5 DEF RunAlike
  <2> QED BY <2>2, <2>6, RunUnique
<1> HIDE DEF run
<1>10. SearchLevels(g, m, n)
  BY <1>7 DEF SearchLevels
<1> QED BY <1>1, <1>5, <1>9, <1>10 DEF M

\* The nested search with n levels takes no account for approving that does not
\* follow, and finds every account that approves within n levels.
LEMMA SearchAccountGood ==
  ASSUME NEW m, \A a \in Accounts : IsAuthority(m[a]), NEW sigs \in SUBSET Keys,
         NEW A \in SUBSET Accounts, NEW n \in Nat,
         NEW C \in SUBSET Accounts, A \subseteq C, Closed(C, m, sigs)
  PROVE  Good(SearchAccount(m, n), sigs, A, C, Approving(m, sigs, A, n))
<1>1. PICK d \in [0..n -> Searchers] : SearchLevels(d, m, n) /\ SearchAccount(m, n) = d[n]
  BY SearchAccountLevels
<1>2. PICK lv \in [0..n -> SUBSET Accounts] :
        Levels(lv, m, sigs, A, n) /\ Approving(m, sigs, A, n) = lv[n]
  BY ApprovingLevels
<1>3. \A i \in 0..n : lv[i] \subseteq C
  BY <1>2, LevelsWithin
<1>4. \A i \in 1..n : \A a \in lv[i] \ A : Satisfied(m[a], sigs, lv[i - 1])
  BY <1>2, LevelsGrow
<1> DEFINE G == {i \in 0..n : Good(d[i], sigs, A, C, lv[i])}
<1>5. 0 \in G
  <2>1. \A a \in Accounts, s \in States(sigs, A, C) : d[0][<<a, s>>] = [ok |-> FALSE, s |-> s]
    BY <1>1 DEF SearchLevels, Nothing, States
  <2>2. lv[0] = A /\ 0 \in 0..n
    BY <1>2 DEF Levels
  <2>3. ASSUME NEW a \in Accounts, NEW s \in States(sigs, A, C)
        PROVE  /\ d[0][<<a, s>>].ok \in BOOLEAN /\ d[0][<<a, s>>].s = s
               /\ ~d[0][<<a, s>>].ok
    <3> DEFINE q == d[0][<<a, s>>]
    <3>1. q = [ok |-> FALSE, s |-> s]
      BY <2>1
    <3> HIDE DEF q
    <3>2. q.ok \in BOOLEAN /\ q.s = s /\ ~q.ok
      BY <3>1
    <3> QED BY <3>2 DEF q
  <2>4. lv[0] \subseteq C /\ lv[0] \ A = {}
    BY <2>2
  <2>5. Good(d[0], sigs, A, C, lv[0])
    BY <2>3, <2>4 DEF Good
  <2> QED BY <2>2, <2>5
<1>6. ASSUME NEW i \in 1..n, i - 1 \in G PROVE i \in G
  <2>0. i \in 0..n
    OBVIOUS
  <2>1. Good(d[i - 1], sigs, A, C, lv[i - 1])
    BY <1>6
  <2>2. ASSUME NEW a \in Accounts, NEW s \in States(sigs, A, C)
        PROVE  LET q == d[i][<<a, s>>]
               IN  /\ q.ok \in BOOLEAN /\ q.s \in States(sigs, A, C)
                   /\ q.ok => a \in C
                   /\ a \in lv[i] \ A => q.ok
    <3> DEFINE q == Search(m[a], s, d[i - 1])
    <3>1. d[i][<<a, s>>] = q
      <4>1. s \in SearchStates /\ d[i] = Deeper(m, d[i - 1])
        BY <1>1 DEF SearchLevels, States
      <4> QED BY <4>1 DEF Deeper
    <3>2. IsAuthority(m[a])
      OBVIOUS
    <3>3. Decides(q, m[a], sigs, A, C, lv[i - 1])
      BY <2>1, <3>2, SearchFound
    <3> HIDE DEF q
    <3> QED BY <1>4, <3>1, <3>3 DEF Closed, Decides
  <2> QED BY <1>3, <2>0, <2>2 DEF Good
<1> HIDE DEF G
<1>7. \A i \in 0..n : i \in G
  BY <1>5, <1>6, UpToInduction
<1>8. n \in G
  BY <1>7
<1> QED BY <1>1, <1>2, <1>8 DEF G

\* L is what approves within MaxDepth levels, C all that follows.
Grounds(m, sigs, A, C, L) ==
  /\ C \in SUBSET Accounts /\ A \subseteq C
  /\ \A a \in C : a \in A \/ Satisfied(m[a], sigs, C)
  /\ Good(SearchAccount(m, MaxDepth), sigs, A, C, L)

\* Whatever is asked of the search has these grounds.
LEMMA GroundsGiven ==
  ASSUME NEW m, \A a \in Accounts : IsAuthority(m[a]), NEW sigs \in SUBSET Keys,
         NEW A \in SUBSET Accounts
  PROVE  Grounds(m, sigs, A, Approving(m, sigs, A, Cardinality(Accounts)), Approving(m, sigs, A, MaxDepth))
<1> DEFINE C == Approving(m, sigs, A, Cardinality(Accounts))
<1>1. /\ C \in SUBSET Accounts /\ A \subseteq C
      /\ Closed(C, m, sigs)
      /\ \A a \in C : a \in A \/ Satisfied(m[a], sigs, C)
  BY ApprovingClosed
<1> HIDE DEF C
<1>2. MaxDepth \in Nat
  BY AuthorityAssumption DEF AuthorityAssumption
<1>3. Good(SearchAccount(m, MaxDepth), sigs, A, C, Approving(m, sigs, A, MaxDepth))
  BY <1>1, <1>2, SearchAccountGood
<1>4. Grounds(m, sigs, A, C, Approving(m, sigs, A, MaxDepth))
  BY <1>1, <1>3 DEF Grounds
<1> QED BY <1>4 DEF C

\* check_authority gives one.
LEMMA CheckDecides ==
  ASSUME NEW m, NEW sigs \in SUBSET Keys, NEW A, NEW C, NEW L, Grounds(m, sigs, A, C, L),
         NEW au, IsAuthority(au), NEW s \in States(sigs, A, C)
  PROVE  Decides(check_authority(m, au, s), au, sigs, A, C, L)
<1> DEFINE deeper == SearchAccount(m, MaxDepth)
<1>1. C \in SUBSET Accounts /\ Good(deeper, sigs, A, C, L)
  BY DEF Grounds
<1>2. check_authority(m, au, s) = Search(au, s, deeper)
  BY DEF check_authority
<1> HIDE DEF deeper
<1>3. Decides(Search(au, s, deeper), au, sigs, A, C, L)
  BY <1>1, SearchFound
<1> QED BY <1>2, <1>3

(***************************************************************************)
(* The loops of verify_authority                                           *)
(***************************************************************************)

\* The values of its loops.
Answers(sigs, A, C) == [ok : BOOLEAN, s : States(sigs, A, C)]

\* What is to be decided of an account whose active or owner authority is asked.
ActiveAllowed(m, owner, a, sigs, A, X) ==
  a \in A \/ Satisfied(m[a], sigs, X) \/ Satisfied(owner[a], sigs, X)

\* The same for a required owner authority.
OwnerAllowed(owner, a, sigs, owners, X) == a \in owners \/ Satisfied(owner[a], sigs, X)

\* q is an answer about the active authority of a.
ActiveDecided(q, m, owner, a, sigs, A, C, L) ==
  /\ q \in Answers(sigs, A, C)
  /\ q.ok => ActiveAllowed(m, owner, a, sigs, A, C)
  /\ ActiveAllowed(m, owner, a, sigs, A, L) => q.ok

\* q is an answer about the owner authority of a.
OwnerDecided(q, owner, a, sigs, A, owners, C, L) ==
  /\ q \in Answers(sigs, A, C)
  /\ q.ok => OwnerAllowed(owner, a, sigs, owners, C)
  /\ OwnerAllowed(owner, a, sigs, owners, L) => q.ok

\* CheckActive gives one: an account that was found before follows.
LEMMA CheckActiveDecides ==
  ASSUME NEW m, NEW sigs \in SUBSET Keys, NEW A, NEW C, NEW L, Grounds(m, sigs, A, C, L),
         \A a \in Accounts : IsAuthority(m[a]), NEW owner, \A a \in Accounts : IsAuthority(owner[a]),
         NEW a \in Accounts, NEW s \in States(sigs, A, C)
  PROVE  ActiveDecided(CheckActive(m, owner, s, a), m, owner, a, sigs, A, C, L)
<1> DEFINE q == check_authority(m, m[a], s)
           t == check_authority(m, owner[a], q.s)
<1>0. A \subseteq s.approved /\ s.approved \subseteq C
  BY DEF States
<1>1. CheckActive(m, owner, s, a) = IF a \in s.approved THEN [ok |-> TRUE, s |-> s] ELSE IF q.ok THEN q ELSE t
  BY DEF CheckActive
<1>2. IsAuthority(m[a]) /\ IsAuthority(owner[a])
  OBVIOUS
<1>3. Decides(q, m[a], sigs, A, C, L)
  BY <1>2, CheckDecides
<1> HIDE DEF q
<1>4. q.s \in States(sigs, A, C)
  BY <1>3 DEF Decides
<1>5. Decides(t, owner[a], sigs, A, C, L)
  BY <1>2, <1>4, CheckDecides
<1> HIDE DEF t
<1>6. CASE a \in s.approved
  <2>1. CheckActive(m, owner, s, a) = [ok |-> TRUE, s |-> s]
    BY <1>1, <1>6
  <2>2. ActiveAllowed(m, owner, a, sigs, A, C)
    BY <1>0, <1>6 DEF Grounds, ActiveAllowed
  <2> DEFINE yes == [ok |-> TRUE, s |-> s]
  <2>3. yes.ok /\ yes \in Answers(sigs, A, C)
    BY DEF Answers
  <2> HIDE DEF yes
  <2>4. CheckActive(m, owner, s, a) = yes
    BY <2>1 DEF yes
  <2> QED BY <2>2, <2>3, <2>4 DEF ActiveDecided
<1>7. CASE a \notin s.approved /\ q.ok
  <2>1. CheckActive(m, owner, s, a) = q
    BY <1>1, <1>7
  <2> QED BY <1>3, <1>7, <2>1 DEF Decides, ActiveDecided, ActiveAllowed, Answers
<1>8. CASE a \notin s.approved /\ ~q.ok
  <2>1. CheckActive(m, owner, s, a) = t
    BY <1>1, <1>8
  <2>2. a \notin A /\ ~Satisfied(m[a], sigs, L)
    BY <1>0, <1>3, <1>8 DEF Decides
  <2> QED BY <1>5, <2>1, <2>2 DEF Decides, ActiveDecided, ActiveAllowed, Answers
<1> QED BY <1>6, <1>7, <1>8

\* CheckOwner gives one.
LEMMA CheckOwnerDecides ==
  ASSUME NEW m, NEW sigs \in SUBSET Keys, NEW A, NEW C, NEW L, Grounds(m, sigs, A, C, L),
         NEW owner, \A a \in Accounts : IsAuthority(owner[a]), NEW owners,
         NEW a \in Accounts, NEW s \in States(sigs, A, C)
  PROVE  OwnerDecided(CheckOwner(m, owner, s, a, owners), owner, a, sigs, A, owners, C, L)
<1> DEFINE t == check_authority(m, owner[a], s)
<1>1. CheckOwner(m, owner, s, a, owners) = IF a \in owners THEN [ok |-> TRUE, s |-> s] ELSE t
  BY DEF CheckOwner
<1>2. IsAuthority(owner[a])
  OBVIOUS
<1>3. Decides(t, owner[a], sigs, A, C, L)
  BY <1>2, CheckDecides
<1> HIDE DEF t
<1>4. CASE a \in owners
  <2>1. CheckOwner(m, owner, s, a, owners) = [ok |-> TRUE, s |-> s]
    BY <1>1, <1>4
  <2> QED BY <1>4, <2>1 DEF OwnerDecided, OwnerAllowed, Answers
<1>5. CASE a \notin owners
  <2>1. CheckOwner(m, owner, s, a, owners) = t
    BY <1>1, <1>5
  <2> QED BY <1>3, <1>5, <2>1 DEF Decides, OwnerDecided, OwnerAllowed, Answers
<1> QED BY <1>4, <1>5

\* A loop over S that goes on while it is ok: a member it passes is in Sound, and
\* it passes those in Complete.
Checks(run, S, Sound, Complete) ==
  \A i \in 1..LastNumber :
    IF i \in S
    THEN /\ run[i].ok => run[i - 1].ok /\ i \in Sound
         /\ run[i - 1].ok /\ i \in Complete => run[i].ok
    ELSE run[i] = run[i - 1]

\* If it ends ok all members are in Sound; if all are in Complete it ends ok.
LEMMA AllChecked ==
  ASSUME NEW run, NEW S \in SUBSET (1..LastNumber), NEW Sound, NEW Complete,
         Checks(run, S, Sound, Complete)
  PROVE  /\ run[LastNumber].ok => run[0].ok /\ S \subseteq Sound
         /\ run[0].ok /\ S \subseteq Complete => run[LastNumber].ok
<1> DEFINE G == {i \in 0..LastNumber :
                   /\ run[i].ok => run[0].ok /\ UpTo(S, i) \subseteq Sound
                   /\ run[0].ok /\ S \subseteq Complete => run[i].ok}
<1>0. LastNumber \in Nat
  BY LastNatural
<1>1. 0 \in G
  <2>0. \A x \in S : ~(x <= 0)
    BY <1>0
  <2>1. UpTo(S, 0) = {}
    BY <2>0 DEF UpTo
  <2>2. 0 \in 0..LastNumber
    BY <1>0
  <2> QED BY <2>1, <2>2
<1>2. ASSUME NEW i \in 1..LastNumber, i - 1 \in G PROVE i \in G
  <2>0. i \in 0..LastNumber
    BY <1>0
  <2>1. \A x \in S : x <= i => x <= i - 1 \/ x = i
    BY <1>0
  <2>2. UpTo(S, i) \subseteq UpTo(S, i - 1) \cup {i} /\ (i \notin S => UpTo(S, i) \subseteq UpTo(S, i - 1))
    BY <2>1 DEF UpTo
  <2>3. /\ run[i - 1].ok => run[0].ok /\ UpTo(S, i - 1) \subseteq Sound
        /\ run[0].ok /\ S \subseteq Complete => run[i - 1].ok
    BY <1>2
  <2>4. IF i \in S
        THEN /\ run[i].ok => run[i - 1].ok /\ i \in Sound
             /\ run[i - 1].ok /\ i \in Complete => run[i].ok
        ELSE run[i] = run[i - 1]
    BY DEF Checks
  <2>5. run[i].ok => run[0].ok /\ UpTo(S, i) \subseteq Sound
    <3>1. CASE i \in S
      BY <2>2, <2>3, <2>4, <3>1
    <3>2. CASE i \notin S
      BY <2>2, <2>3, <2>4, <3>2
    <3> QED BY <3>1, <3>2
  <2>6. run[0].ok /\ S \subseteq Complete => run[i].ok
    BY <2>3, <2>4
  <2> QED BY <2>0, <2>5, <2>6
<1> HIDE DEF G
<1>3. \A i \in 0..LastNumber : i \in G
  BY <1>0, <1>1, <1>2, UpToInduction
<1>4. LastNumber \in G
  BY <1>0, <1>3
<1>5. UpTo(S, LastNumber) = S
  <2>1. \A x \in S : x <= LastNumber
    BY <1>0
  <2> QED BY <2>1 DEF UpTo
<1> QED BY <1>4, <1>5 DEF G

\* t is the answer, after r0, about the active authority of the accounts S.
ActivesDecided(t, r0, S, m, owner, sigs, A, C, L) ==
  /\ t \in Answers(sigs, A, C)
  /\ t.ok => r0.ok /\ \A a \in S : ActiveAllowed(m, owner, a, sigs, A, C)
  /\ r0.ok /\ (\A a \in S : ActiveAllowed(m, owner, a, sigs, A, L)) => t.ok

\* The loop over the required active authorities.
LEMMA CheckActivesDecide ==
  ASSUME NEW m, NEW sigs \in SUBSET Keys, NEW A, NEW C, NEW L, Grounds(m, sigs, A, C, L),
         \A a \in Accounts : IsAuthority(m[a]), NEW owner, \A a \in Accounts : IsAuthority(owner[a]),
         NEW S \in SUBSET Accounts, NEW r0 \in Answers(sigs, A, C)
  PROVE  ActivesDecided(CheckActives(m, owner, r0, S), r0, S, m, owner, sigs, A, C, L)
<1> DEFINE D == S
           base == r0
           M == Answers(sigs, A, C)
           Step(r, i) == IF ~r.ok THEN r ELSE CheckActive(m, owner, r.s, i)
           step == [p \in M \X D |-> Step(p[1], p[2])]
           E(h) == h = [i \in 0..LastNumber |->
                          IF i = 0 THEN base ELSE IF i \in D THEN Step(h[i - 1], i) ELSE h[i - 1]]
           run == CHOOSE h : E(h)
<1>1. CheckActives(m, owner, r0, S) = run[LastNumber]
  BY DEF CheckActives, InOrder
<1>2. base \in M
  OBVIOUS
<1>3. ASSUME NEW r \in M, NEW i \in D PROVE Step(r, i) \in M
  <2>1. CASE ~r.ok
    BY <2>1
  <2>2. CASE r.ok
    <3>1. r.s \in States(sigs, A, C) /\ i \in Accounts
      BY <1>3 DEF Answers
    <3>2. Step(r, i) = CheckActive(m, owner, r.s, i)
      BY <2>2
    <3> QED BY <3>1, <3>2, CheckActiveDecides DEF ActiveDecided, Answers
  <2> QED BY <2>1, <2>2
<1>4. LastNumber \in Nat
  BY LastNatural
<1> HIDE DEF base, M, Step, D
<1>5. \A r \in M, i \in D : step[<<r, i>>] = Step(r, i)
  OBVIOUS
<1> HIDE DEF step
<1>6. PICK g \in [0..LastNumber -> M] : Loops(g, D, base, step)
  BY <1>2, <1>3, <1>5, LoopRuns
<1>7. g[0] = base /\ \A i \in 1..LastNumber : g[i] = IF i \in D THEN Step(g[i - 1], i) ELSE g[i - 1]
  <2>1. \A i \in 1..LastNumber : i - 1 \in 0..LastNumber
    BY <1>4
  <2> QED BY <1>5, <1>6, <2>1 DEF Loops
<1>8. E(g)
  <2>1. \A i \in 0..LastNumber : i # 0 => i \in 1..LastNumber
    BY <1>4
  <2>2. \A i \in 0..LastNumber :
          g[i] = IF i = 0 THEN base ELSE IF i \in D THEN Step(g[i - 1], i) ELSE g[i - 1]
    BY <1>7, <2>1
  <2> QED BY <1>6, <2>2
<1>9. run = g
  <2>1. E(run)
    BY <1>8
  <2> HIDE DEF run
  <2>2. RunsTo(run, LastNumber) /\ RunsTo(g, LastNumber)
    BY <1>8, <2>1 DEF RunsTo
  <2>3. \A i \in 0..LastNumber :
          run[i] = IF i = 0 THEN base ELSE IF i \in D THEN Step(run[i - 1], i) ELSE run[i - 1]
    BY <2>1
  <2>4. 0 \in 0..LastNumber /\ \A i \in 1..LastNumber : i \in 0..LastNumber /\ i # 0
    BY <1>4
  <2>5. RunAlike(run, g, LastNumber)
    BY <1>7, <2>3, <2>4 DEF RunAlike
  <2> QED BY <1>4, <2>2, <2>5, RunUnique
<1> HIDE DEF run
<1>10. CheckActives(m, owner, r0, S) = g[LastNumber] /\ \A i \in 0..LastNumber : g[i] \in M
  BY <1>1, <1>6, <1>9
<1> DEFINE Sound == {a \in S : ActiveAllowed(m, owner, a, sigs, A, C)}
           Complete == {a \in S : ActiveAllowed(m, owner, a, sigs, A, L)}
<1>11. Checks(g, S, Sound, Complete)
  <2> SUFFICES ASSUME NEW i \in 1..LastNumber
               PROVE  IF i \in S
                      THEN /\ g[i].ok => g[i - 1].ok /\ i \in Sound
                           /\ g[i - 1].ok /\ i \in Complete => g[i].ok
                      ELSE g[i] = g[i - 1]
    BY DEF Checks
  <2>1. g[i - 1] \in Answers(sigs, A, C)
    <3>1. i - 1 \in 0..LastNumber
      BY <1>4
    <3> QED BY <1>10, <3>1 DEF M
  <2>2. CASE i \in S /\ g[i - 1].ok
    <3> DEFINE s == g[i - 1].s
    <3>1. s \in States(sigs, A, C) /\ i \in Accounts /\ i \in D
      BY <2>1, <2>2 DEF Answers, D
    <3>2. g[i] = CheckActive(m, owner, s, i)
      BY <1>7, <2>2, <3>1 DEF Step
    <3> HIDE DEF s
    <3>3. ActiveDecided(g[i], m, owner, i, sigs, A, C, L)
      BY <3>1, <3>2, CheckActiveDecides
    <3> QED BY <2>2, <3>3 DEF ActiveDecided
  <2>3. CASE i \in S /\ ~g[i - 1].ok
    <3>1. g[i] = g[i - 1]
      BY <1>7, <2>3 DEF Step, D
    <3> QED BY <2>3, <3>1
  <2>4. CASE i \notin S
    BY <1>7, <2>4 DEF D
  <2> QED BY <2>2, <2>3, <2>4
<1>12. S \in SUBSET (1..LastNumber) /\ LastNumber \in 0..LastNumber
  BY <1>4, LastNatural
<1> HIDE DEF Sound, Complete
<1>13. /\ g[LastNumber].ok => g[0].ok /\ S \subseteq Sound
       /\ g[0].ok /\ S \subseteq Complete => g[LastNumber].ok
  BY <1>11, <1>12, AllChecked
<1> QED BY <1>7, <1>10, <1>12, <1>13 DEF M, Sound, Complete, base, ActivesDecided

\* t is the answer, after r0, about the owner authority of the accounts S.
OwnersDecided(t, r0, S, owner, sigs, A, owners, C, L) ==
  /\ t \in Answers(sigs, A, C)
  /\ t.ok => r0.ok /\ \A a \in S : OwnerAllowed(owner, a, sigs, owners, C)
  /\ r0.ok /\ (\A a \in S : OwnerAllowed(owner, a, sigs, owners, L)) => t.ok

\* The loop over the required owner authorities.
LEMMA CheckOwnersDecide ==
  ASSUME NEW m, NEW sigs \in SUBSET Keys, NEW A, NEW C, NEW L, Grounds(m, sigs, A, C, L),
         \A a \in Accounts : IsAuthority(m[a]), NEW owner, \A a \in Accounts : IsAuthority(owner[a]),
         NEW owners,
         NEW S \in SUBSET Accounts, NEW r0 \in Answers(sigs, A, C)
  PROVE  OwnersDecided(CheckOwners(m, owner, r0, S, owners), r0, S, owner, sigs, A, owners, C, L)
<1> DEFINE D == S
           base == r0
           M == Answers(sigs, A, C)
           Step(r, i) == IF ~r.ok THEN r ELSE CheckOwner(m, owner, r.s, i, owners)
           step == [p \in M \X D |-> Step(p[1], p[2])]
           E(h) == h = [i \in 0..LastNumber |->
                          IF i = 0 THEN base ELSE IF i \in D THEN Step(h[i - 1], i) ELSE h[i - 1]]
           run == CHOOSE h : E(h)
<1>1. CheckOwners(m, owner, r0, S, owners) = run[LastNumber]
  BY DEF CheckOwners, InOrder
<1>2. base \in M
  OBVIOUS
<1>3. ASSUME NEW r \in M, NEW i \in D PROVE Step(r, i) \in M
  <2>1. CASE ~r.ok
    BY <2>1
  <2>2. CASE r.ok
    <3>1. r.s \in States(sigs, A, C) /\ i \in Accounts
      BY <1>3 DEF Answers
    <3>2. Step(r, i) = CheckOwner(m, owner, r.s, i, owners)
      BY <2>2
    <3> QED BY <3>1, <3>2, CheckOwnerDecides DEF OwnerDecided, Answers
  <2> QED BY <2>1, <2>2
<1>4. LastNumber \in Nat
  BY LastNatural
<1> HIDE DEF base, M, Step, D
<1>5. \A r \in M, i \in D : step[<<r, i>>] = Step(r, i)
  OBVIOUS
<1> HIDE DEF step
<1>6. PICK g \in [0..LastNumber -> M] : Loops(g, D, base, step)
  BY <1>2, <1>3, <1>5, LoopRuns
<1>7. g[0] = base /\ \A i \in 1..LastNumber : g[i] = IF i \in D THEN Step(g[i - 1], i) ELSE g[i - 1]
  <2>1. \A i \in 1..LastNumber : i - 1 \in 0..LastNumber
    BY <1>4
  <2> QED BY <1>5, <1>6, <2>1 DEF Loops
<1>8. E(g)
  <2>1. \A i \in 0..LastNumber : i # 0 => i \in 1..LastNumber
    BY <1>4
  <2>2. \A i \in 0..LastNumber :
          g[i] = IF i = 0 THEN base ELSE IF i \in D THEN Step(g[i - 1], i) ELSE g[i - 1]
    BY <1>7, <2>1
  <2> QED BY <1>6, <2>2
<1>9. run = g
  <2>1. E(run)
    BY <1>8
  <2> HIDE DEF run
  <2>2. RunsTo(run, LastNumber) /\ RunsTo(g, LastNumber)
    BY <1>8, <2>1 DEF RunsTo
  <2>3. \A i \in 0..LastNumber :
          run[i] = IF i = 0 THEN base ELSE IF i \in D THEN Step(run[i - 1], i) ELSE run[i - 1]
    BY <2>1
  <2>4. 0 \in 0..LastNumber /\ \A i \in 1..LastNumber : i \in 0..LastNumber /\ i # 0
    BY <1>4
  <2>5. RunAlike(run, g, LastNumber)
    BY <1>7, <2>3, <2>4 DEF RunAlike
  <2> QED BY <1>4, <2>2, <2>5, RunUnique
<1> HIDE DEF run
<1>10. CheckOwners(m, owner, r0, S, owners) = g[LastNumber] /\ \A i \in 0..LastNumber : g[i] \in M
  BY <1>1, <1>6, <1>9
<1> DEFINE Sound == {a \in S : OwnerAllowed(owner, a, sigs, owners, C)}
           Complete == {a \in S : OwnerAllowed(owner, a, sigs, owners, L)}
<1>11. Checks(g, S, Sound, Complete)
  <2> SUFFICES ASSUME NEW i \in 1..LastNumber
               PROVE  IF i \in S
                      THEN /\ g[i].ok => g[i - 1].ok /\ i \in Sound
                           /\ g[i - 1].ok /\ i \in Complete => g[i].ok
                      ELSE g[i] = g[i - 1]
    BY DEF Checks
  <2>1. g[i - 1] \in Answers(sigs, A, C)
    <3>1. i - 1 \in 0..LastNumber
      BY <1>4
    <3> QED BY <1>10, <3>1 DEF M
  <2>2. CASE i \in S /\ g[i - 1].ok
    <3> DEFINE s == g[i - 1].s
    <3>1. s \in States(sigs, A, C) /\ i \in Accounts /\ i \in D
      BY <2>1, <2>2 DEF Answers, D
    <3>2. g[i] = CheckOwner(m, owner, s, i, owners)
      BY <1>7, <2>2, <3>1 DEF Step
    <3> HIDE DEF s
    <3>3. OwnerDecided(g[i], owner, i, sigs, A, owners, C, L)
      BY <3>1, <3>2, CheckOwnerDecides
    <3> QED BY <2>2, <3>3 DEF OwnerDecided
  <2>3. CASE i \in S /\ ~g[i - 1].ok
    <3>1. g[i] = g[i - 1]
      BY <1>7, <2>3 DEF Step, D
    <3> QED BY <2>3, <3>1
  <2>4. CASE i \notin S
    BY <1>7, <2>4 DEF D
  <2> QED BY <2>2, <2>3, <2>4
<1>12. S \in SUBSET (1..LastNumber) /\ LastNumber \in 0..LastNumber
  BY <1>4, LastNatural
<1> HIDE DEF Sound, Complete
<1>13. /\ g[LastNumber].ok => g[0].ok /\ S \subseteq Sound
       /\ g[0].ok /\ S \subseteq Complete => g[LastNumber].ok
  BY <1>11, <1>12, AllChecked
<1> QED BY <1>7, <1>10, <1>12, <1>13 DEF M, Sound, Complete, base, OwnersDecided

(***************************************************************************)
(* verify_authority                                                        *)
(***************************************************************************)

\* A sum of ones counts.
LEMMA SumOnes ==
  ASSUME NEW S, IsFiniteSet(S), NEW f, \A x \in S : f[x] = 1
  PROVE  SumFunctionOnSet(f, S) = Cardinality(S)
<1> DEFINE G == {T \in SUBSET S : SumFunctionOnSet(f, T) = Cardinality(T)}
<1>1. ASSUME NEW T \in SUBSET S, \A U \in SUBSET T : U # T => U \in G
      PROVE  T \in G
  <2>1. CASE T = {}
    <3>1. Cardinality(T) = 0
      BY <2>1, FS_EmptySet
    <3> QED BY <2>1, <3>1, SumEmpty
  <2>2. CASE T # {}
    <3>1. PICK y \in T : TRUE
      BY <2>2
    <3>2. IsFiniteSet(T) /\ IntOn(f, T) /\ f[y] = 1
      BY FS_Subset DEF IntOn
    <3>3. SumFunctionOnSet(f, T) = f[y] + SumFunctionOnSet(f, T \ {y})
      BY <3>2, SumRemove
    <3>4. SumFunctionOnSet(f, T \ {y}) = Cardinality(T \ {y})
      BY <1>1, <3>1
    <3>5. Cardinality(T \ {y}) = Cardinality(T) - 1 /\ Cardinality(T) \in Nat
      BY <3>1, <3>2, FS_RemoveElement, FS_CardinalityType
    <3> QED BY <3>2, <3>3, <3>4, <3>5
  <2> QED BY <2>1, <2>2
<1>2. G = SUBSET S
  <2> HIDE DEF G
  <2>1. G \in SUBSET SUBSET S
    BY DEF G
  <2> QED BY <1>1, <2>1, SubsetInduction
<1> QED BY <1>2

\* The authority of some keys is satisfied when all of them signed.
LEMMA KeysDecided ==
  ASSUME NEW ks \in SUBSET Keys, NEW sigs, NEW X
  PROVE  /\ IsAuthority(KeysAuthority(ks))
         /\ Satisfied(KeysAuthority(ks), sigs, X) <=> ks \subseteq sigs
<1> DEFINE au == KeysAuthority(ks)
           both == sigs \cap ks
<1>1. /\ au.threshold = Cardinality(ks)
      /\ DOMAIN au.keys = ks /\ \A k \in ks : au.keys[k] = 1
      /\ DOMAIN au.accounts = {}
  BY DEF KeysAuthority
<1>2. IsFiniteSet(ks)
  <2>1. IsFiniteSet(Accounts \cup Keys) /\ ks \in SUBSET (Accounts \cup Keys)
    BY AuthorityAssumption DEF AuthorityAssumption
  <2> QED BY <2>1, FS_Subset
<1>3. Cardinality(ks) \in Nat
  BY <1>2, FS_CardinalityType
<1> HIDE DEF au
<1>4. IsAuthority(au)
  BY <1>1, <1>3 DEF IsAuthority
<1>5. both \subseteq ks
  OBVIOUS
<1> HIDE DEF both
<1>6. /\ IsFiniteSet(both) /\ Cardinality(both) \in Nat /\ Cardinality(both) <= Cardinality(ks)
      /\ Cardinality(both) = Cardinality(ks) => both = ks
  BY <1>2, <1>5, FS_Subset, FS_CardinalityType
<1>7. SumFunctionOnSet(au.keys, both) = Cardinality(both)
  BY <1>1, <1>5, <1>6, SumOnes
<1>8. SumFunctionOnSet(au.accounts, X \cap DOMAIN au.accounts) = 0
  <2>1. X \cap DOMAIN au.accounts = {}
    BY <1>1
  <2> QED BY <2>1, SumEmpty
<1>9. sigs \cap DOMAIN au.keys = both
  BY <1>1 DEF both
<1>10. Satisfied(au, sigs, X) <=> Cardinality(ks) <= Cardinality(both)
  BY <1>1, <1>6, <1>7, <1>8, <1>9 DEF Satisfied
<1>11. Cardinality(ks) <= Cardinality(both) <=> both = ks
  BY <1>3, <1>6
<1>12. both = ks <=> ks \subseteq sigs
  BY DEF both
<1> QED BY <1>4, <1>10, <1>11, <1>12 DEF au

\* What an answer of verify_authority says.
VerifyDecided(v, allow_committee, m, owner, req, sigs, actives, owners) ==
  /\ v = "ok" => Authorized(m, owner, req, sigs, actives, owners, Cardinality(Accounts))
  /\ Authorized(m, owner, req, sigs, actives, owners, MaxDepth)
       /\ (allow_committee \/ Committee \notin req.active)
     => v = "ok" \/ (v = "irrelevant" /\ sigs # {})

\* verify_authority accepts only what the authorities mean, and whatever they
\* mean within MaxDepth levels, unless a signature was not needed.
THEOREM VerifyDecides ==
  ASSUME NEW m, AuthorityMap(m), NEW owner, AuthorityMap(owner), NEW req \in Requirements,
         NEW sigs \in SUBSET Keys, NEW actives \in SUBSET Accounts, NEW owners \in SUBSET Accounts,
         NEW allow_committee \in BOOLEAN
  PROVE  VerifyDecided(verify_authority(m, owner, req, sigs, allow_committee, actives, owners),
                       allow_committee, m, owner, req, sigs, actives, owners)
<1> DEFINE A == actives \cup owners
           C == Approving(m, sigs, A, Cardinality(Accounts))
           L == Approving(m, sigs, A, MaxDepth)
           s0 == [signed |-> sigs, used |-> {}, approved |-> A]
           au == KeysAuthority(req.keys)
           byKeys == check_authority(m, au, s0)
           byActive == CheckActives(m, owner, byKeys, req.active)
           byOwner == CheckOwners(m, owner, byActive, req.owner, owners)
           v == verify_authority(m, owner, req, sigs, allow_committee, actives, owners)
<1>1. v = IF ~allow_committee /\ Committee \in req.active THEN "committee"
          ELSE IF ~byOwner.ok THEN "missing"
          ELSE IF byOwner.s.used # sigs THEN "irrelevant"
          ELSE "ok"
  BY DEF verify_authority
<1>2. /\ Authorized(m, owner, req, sigs, actives, owners, Cardinality(Accounts))
          <=> /\ req.keys \subseteq sigs
              /\ \A a \in req.active : ActiveAllowed(m, owner, a, sigs, A, C)
              /\ \A a \in req.owner : OwnerAllowed(owner, a, sigs, owners, C)
      /\ Authorized(m, owner, req, sigs, actives, owners, MaxDepth)
          <=> /\ req.keys \subseteq sigs
              /\ \A a \in req.active : ActiveAllowed(m, owner, a, sigs, A, L)
              /\ \A a \in req.owner : OwnerAllowed(owner, a, sigs, owners, L)
  BY DEF Authorized, ActiveAllowed, OwnerAllowed
<1>3. A \in SUBSET Accounts
  OBVIOUS
<1>4. (\A a \in Accounts : IsAuthority(m[a])) /\ \A a \in Accounts : IsAuthority(owner[a])
  BY DEF AuthorityMap
<1>5. req.keys \in SUBSET Keys /\ req.active \in SUBSET Accounts /\ req.owner \in SUBSET Accounts
  BY DEF Requirements
<1>6. Grounds(m, sigs, A, C, L)
  BY <1>3, <1>4, GroundsGiven
<1>7. s0 \in States(sigs, A, C)
  BY <1>3, <1>6 DEF Grounds, States, SearchStates
<1> HIDE DEF A, C, L, s0, v
<1>8. IsAuthority(au) /\ (Satisfied(au, sigs, C) <=> req.keys \subseteq sigs)
      /\ (Satisfied(au, sigs, L) <=> req.keys \subseteq sigs)
  BY <1>5, KeysDecided
<1> HIDE DEF au
<1>9. Decides(byKeys, au, sigs, A, C, L)
  BY <1>6, <1>7, <1>8, CheckDecides
<1>10. byKeys \in Answers(sigs, A, C) /\ (byKeys.ok <=> req.keys \subseteq sigs)
  BY <1>8, <1>9 DEF Decides, Answers
<1> HIDE DEF byKeys
<1>11. /\ byActive \in Answers(sigs, A, C)
       /\ byActive.ok => byKeys.ok /\ \A a \in req.active : ActiveAllowed(m, owner, a, sigs, A, C)
       /\ byKeys.ok /\ (\A a \in req.active : ActiveAllowed(m, owner, a, sigs, A, L)) => byActive.ok
  <2>1. ActivesDecided(byActive, byKeys, req.active, m, owner, sigs, A, C, L)
    BY <1>4, <1>5, <1>6, <1>10, CheckActivesDecide
  <2> HIDE DEF byActive
  <2> QED BY <2>1 DEF ActivesDecided
<1> HIDE DEF byActive
<1>12. /\ byOwner \in Answers(sigs, A, C)
       /\ byOwner.ok => byActive.ok /\ \A a \in req.owner : OwnerAllowed(owner, a, sigs, owners, C)
       /\ byActive.ok /\ (\A a \in req.owner : OwnerAllowed(owner, a, sigs, owners, L)) => byOwner.ok
  <2>1. OwnersDecided(byOwner, byActive, req.owner, owner, sigs, A, owners, C, L)
    BY <1>4, <1>5, <1>6, <1>11, CheckOwnersDecide
  <2> HIDE DEF byOwner
  <2> QED BY <2>1 DEF OwnersDecided
<1> HIDE DEF byOwner
<1>13. byOwner.s.used \subseteq sigs
  BY <1>12 DEF Answers, States, SearchStates
<1>14. v = "ok" => Authorized(m, owner, req, sigs, actives, owners, Cardinality(Accounts))
  <2> SUFFICES ASSUME v = "ok" PROVE Authorized(m, owner, req, sigs, actives, owners, Cardinality(Accounts))
    OBVIOUS
  <2>1. byOwner.ok
    BY <1>1
  <2> QED BY <1>2, <1>10, <1>11, <1>12, <2>1
<1>15. ASSUME Authorized(m, owner, req, sigs, actives, owners, MaxDepth),
              allow_committee \/ Committee \notin req.active
       PROVE  v = "ok" \/ (v = "irrelevant" /\ sigs # {})
  <2>1. byOwner.ok
    BY <1>2, <1>10, <1>11, <1>12, <1>15
  <2>2. CASE byOwner.s.used = sigs
    BY <1>1, <1>15, <2>1, <2>2
  <2>3. CASE byOwner.s.used # sigs
    BY <1>1, <1>13, <1>15, <2>1, <2>3
  <2> QED BY <2>2, <2>3
<1> QED BY <1>14, <1>15 DEF VerifyDecided, v

(***************************************************************************)
(* The invariant of the proposals                                          *)
(***************************************************************************)

\* Times at which a review period begins, or none.
Reviews == Nat \cup {NoReview}

\* The proposal objects.
ProposalObjects ==
  [trx : Proposed, expiration : Nat, review : Reviews, required_active : SUBSET Accounts,
   required_owner : SUBSET Accounts, actives : SUBSET Accounts, owners : SUBSET Accounts,
   keys : SUBSET Keys]

\* One that is in the index: it has not expired, and what needs the committee
\* has a review period.
Standing(p, now) ==
  /\ p \in ProposalObjects
  /\ p.expiration > now
  /\ Committee \in p.trx.active \cup p.trx.owner => p.review # NoReview

\* The index lists all of D, one after the other.
Lists(o, D) ==
  /\ o \in SUBSET (D \X D)
  /\ \A i \in D : <<i, i>> \notin o
  /\ \A i \in D, j \in D : i # j => <<i, j>> \in o \/ <<j, i>> \in o
  /\ \A i \in D, j \in D, k \in D : <<i, j>> \in o /\ <<j, k>> \in o => <<i, k>> \in o

\* The inductive invariant.
IInv ==
  /\ AuthorityMap(active)
  /\ funded \in BOOLEAN /\ time \in Nat
  /\ executed \in Seq(Nat)
  /\ proposals = [id \in DOMAIN proposals |-> proposals[id]]
  /\ DOMAIN proposals \subseteq 1..Len(executed)
  /\ \A id \in DOMAIN proposals : Standing(proposals[id], time) /\ executed[id] = 0
  /\ Lists(order, DOMAIN proposals)

\* There is a first among some proposals.
LEMMA FirstIn ==
  ASSUME IInv, NEW ids \in SUBSET DOMAIN proposals, ids # {}
  PROVE  First(ids) \in ids
<1> DEFINE D == DOMAIN proposals
           e == [i \in D |-> proposals[i].expiration]
           Heads(S) == \E i \in S : \A j \in S \ {i} : Before(i, j)
           G == {S \in SUBSET ids : S # {} => Heads(S)}
<1>1. IsFiniteSet(ids)
  <2>1. executed \in Seq(Nat) /\ ids \in SUBSET (1..Len(executed))
    BY DEF IInv
  <2>2. Len(executed) \in Nat
    BY <2>1
  <2>3. IsFiniteSet(1..Len(executed))
    BY <2>2, FS_Interval
  <2> QED BY <2>1, <2>3, FS_Subset
<1>2. \A i \in D : e[i] \in Nat
  BY DEF IInv, Standing, ProposalObjects
<1>3. \A i \in D, j \in D : Before(i, j) <=> e[i] < e[j] \/ (e[i] = e[j] /\ <<i, j>> \in order)
  BY DEF Before
<1>4. Lists(order, D)
  BY DEF IInv
<1> HIDE DEF D, e
<1>5. \A i \in D, j \in D : i # j => Before(i, j) \/ Before(j, i)
  <2> SUFFICES ASSUME NEW i \in D, NEW j \in D, i # j PROVE Before(i, j) \/ Before(j, i)
    OBVIOUS
  <2>1. e[i] \in Nat /\ e[j] \in Nat
    BY <1>2
  <2>2. <<i, j>> \in order \/ <<j, i>> \in order
    BY <1>4 DEF Lists
  <2>3. e[i] < e[j] \/ e[j] < e[i] \/ (e[i] = e[j] /\ e[j] = e[i])
    BY <2>1
  <2> QED BY <1>3, <2>2, <2>3
<1>6. \A i \in D, j \in D, k \in D : Before(i, j) /\ Before(j, k) => Before(i, k)
  <2> SUFFICES ASSUME NEW i \in D, NEW j \in D, NEW k \in D, Before(i, j), Before(j, k)
               PROVE  Before(i, k)
    OBVIOUS
  <2>1. e[i] \in Nat /\ e[j] \in Nat /\ e[k] \in Nat
    BY <1>2
  <2>2. e[i] < e[j] \/ (e[i] = e[j] /\ <<i, j>> \in order)
    BY <1>3
  <2>3. e[j] < e[k] \/ (e[j] = e[k] /\ <<j, k>> \in order)
    BY <1>3
  <2>4. <<i, j>> \in order /\ <<j, k>> \in order => <<i, k>> \in order
    BY <1>4 DEF Lists
  <2>5. e[i] < e[k] \/ (e[i] = e[k] /\ <<i, k>> \in order)
    BY <2>1, <2>2, <2>3, <2>4
  <2> QED BY <1>3, <2>5
<1>7. ASSUME NEW S \in SUBSET ids, \A U \in SUBSET S : U # S => U \in G
      PROVE  S \in G
  <2> SUFFICES ASSUME S # {} PROVE Heads(S)
    OBVIOUS
  <2>0. S \subseteq D
    BY DEF D
  <2>1. PICK x \in S : TRUE
    OBVIOUS
  <2>2. CASE S \ {x} = {}
    BY <2>1, <2>2
  <2>3. CASE S \ {x} # {}
    <3>1. S \ {x} \in SUBSET S /\ S \ {x} # S
      BY <2>1
    <3>2. PICK z \in S \ {x} : \A j \in (S \ {x}) \ {z} : Before(z, j)
      BY <1>7, <2>3, <3>1
    <3>3. CASE Before(z, x)
      <4>1. \A j \in S \ {z} : Before(z, j)
        BY <3>2, <3>3
      <4> QED BY <3>2, <4>1
    <3>4. CASE ~Before(z, x)
      <4>1. Before(x, z)
        BY <1>5, <2>0, <2>1, <3>2, <3>4
      <4>2. ASSUME NEW j \in S \ {x} PROVE Before(x, j)
        <5>1. CASE j = z
          BY <4>1, <5>1
        <5>2. CASE j # z
          <6>1. Before(z, j)
            BY <3>2, <5>2
          <6> QED BY <1>6, <2>0, <3>2, <4>1, <6>1
        <5> QED BY <5>1, <5>2
      <4> QED BY <2>1, <4>2
    <3> QED BY <3>3, <3>4
  <2> QED BY <2>2, <2>3
<1>8. ids \in G
  <2>1. G \in SUBSET SUBSET ids
    OBVIOUS
  <2> HIDE DEF G
  <2> QED BY <1>1, <1>7, <2>1, SubsetInduction
<1>9. Heads(ids)
  BY <1>8
<1> QED BY <1>9 DEF First

\* The values of the loop of clear_expired_proposals.
Rounds(expired) ==
  [left : SUBSET expired, funded : BOOLEAN, executed : [1..Len(executed) -> Nat]]

\* One round.
Round(r) == ExecuteExpired([r EXCEPT !.left = @ \ {First(@)}], First(r.left))

\* What a round does.
LEMMA RoundDone ==
  ASSUME NEW expired, NEW r \in Rounds(expired)
  PROVE  LET id == First(r.left)
             now == is_authorized_to_execute(proposals[id]) /\ r.funded
         IN  /\ Round(r) \in Rounds(expired)
             /\ Round(r).left = r.left \ {id}
             /\ Round(r).funded <=> r.funded /\ ~now
             /\ \A i \in 1..Len(executed) :
                  Round(r).executed[i] = IF now /\ i = id THEN r.executed[i] + 1 ELSE r.executed[i]
<1> DEFINE id == First(r.left)
           N == 1..Len(executed)
           t == [r EXCEPT !.left = @ \ {id}]
           u == [t EXCEPT !.funded = FALSE]
           more == [r.executed EXCEPT ![id] = @ + 1]
<1>1. /\ t \in [left : SUBSET expired, funded : BOOLEAN, executed : [N -> Nat]]
      /\ t.left = r.left \ {id} /\ t.funded = r.funded /\ t.executed = r.executed
  <2>1. r.left \ {id} \in SUBSET expired
    BY DEF Rounds
  <2> HIDE DEF id
  <2> QED BY <2>1 DEF Rounds
<1>2. Round(r) = IF is_authorized_to_execute(proposals[id]) /\ t.funded
                 THEN [u EXCEPT !.executed = [u.executed EXCEPT ![id] = t.executed[id] + 1]] ELSE t
  BY DEF Round, ExecuteExpired
<1>3. r.executed \in [N -> Nat] /\ r.left \in SUBSET expired /\ r.funded \in BOOLEAN
  BY DEF Rounds
<1> HIDE DEF id, t
<1>4. more \in [N -> Nat] /\ \A i \in N : more[i] = IF i = id THEN r.executed[i] + 1 ELSE r.executed[i]
  <2> HIDE DEF N
  <2>1. more = [i \in N |-> IF i = id THEN r.executed[i] + 1 ELSE r.executed[i]]
    BY <1>3
  <2>2. \A i \in N : r.executed[i] \in Nat /\ r.executed[i] + 1 \in Nat
    BY <1>3
  <2> QED BY <2>1, <2>2
<1>5. CASE is_authorized_to_execute(proposals[id]) /\ r.funded
  <2>1. u.executed = t.executed /\ u.left = t.left /\ u.funded = FALSE
        /\ u \in [left : SUBSET expired, funded : BOOLEAN, executed : [N -> Nat]]
    BY <1>1
  <2>2. Round(r) = [u EXCEPT !.executed = more]
    BY <1>1, <1>2, <1>5, <2>1
  <2> HIDE DEF more, u
  <2>3. /\ Round(r) \in Rounds(expired)
        /\ Round(r).left = u.left /\ Round(r).funded = u.funded /\ Round(r).executed = more
    BY <1>4, <2>1, <2>2 DEF Rounds
  <2>4. Round(r).left = r.left \ {id} /\ ~Round(r).funded /\ Round(r).executed = more
    BY <1>1, <2>1, <2>3
  <2> QED BY <1>4, <1>5, <2>3, <2>4 DEF id
<1>6. CASE ~(is_authorized_to_execute(proposals[id]) /\ r.funded)
  <2>1. Round(r) = t
    BY <1>1, <1>2, <1>6
  <2>2. t \in Rounds(expired)
    BY <1>1 DEF Rounds
  <2> QED BY <1>1, <1>3, <1>6, <2>1, <2>2 DEF id
<1> QED BY <1>5, <1>6

\* Where the loop is after i of n rounds: each proposal it has gone through was
\* executed only if that was authorized, and the first that was authorized has
\* been executed if the transactions can succeed.
Clearing(r, i, n, expired, Ready) ==
  /\ Cardinality(r.left) = n - i
  /\ \A k \in 1..Len(executed) :
       /\ k \in r.left => r.executed[k] = executed[k]
       /\ r.executed[k] # executed[k] => k \in Ready /\ r.executed[k] = executed[k] + 1
  /\ funded => \/ r.funded /\ Ready \subseteq r.left
               \/ \E k \in 1..Len(executed) : r.executed[k] # executed[k]

\* A round keeps this.
LEMMA RoundClears ==
  ASSUME IInv, NEW expired \in SUBSET DOMAIN proposals, NEW r \in Rounds(expired),
         NEW n \in Nat, NEW i \in 1..n,
         NEW Ready, Ready = {k \in expired : is_authorized_to_execute(proposals[k])},
         Clearing(r, i - 1, n, expired, Ready)
  PROVE  Clearing(Round(r), i, n, expired, Ready)
<1> DEFINE id == First(r.left)
           N == 1..Len(executed)
           q == Round(r)
<1>0. /\ executed \in Seq(Nat) /\ \A k \in N : executed[k] \in Nat
      /\ DOMAIN proposals \subseteq N
  BY DEF IInv
<1>1. IsFiniteSet(r.left) /\ r.left \subseteq expired
  <2>1. r.left \in SUBSET N /\ r.left \subseteq expired /\ Len(executed) \in Nat
    BY <1>0 DEF Rounds
  <2>2. IsFiniteSet(N)
    BY <2>1, FS_Interval
  <2> QED BY <2>1, <2>2, FS_Subset
<1>2. Cardinality(r.left) = n - (i - 1)
  BY DEF Clearing
<1>3. r.left # {}
  <2>1. Cardinality({}) = 0 /\ n - (i - 1) # 0
    BY FS_EmptySet
  <2> QED BY <1>2, <2>1
<1>4. id \in r.left /\ id \in expired /\ id \in N
  <2>1. r.left \in SUBSET DOMAIN proposals
    BY <1>1
  <2>2. id \in r.left
    BY <1>3, <2>1, FirstIn
  <2> QED BY <1>0, <1>1, <2>2
<1>5. Cardinality(r.left \ {id}) = n - i
  <2>1. Cardinality(r.left \ {id}) = Cardinality(r.left) - 1
    BY <1>1, <1>4, FS_RemoveElement
  <2> QED BY <1>2, <2>1
<1>6. /\ q.left = r.left \ {id}
      /\ q.funded <=> r.funded /\ ~(is_authorized_to_execute(proposals[id]) /\ r.funded)
      /\ \A k \in N : q.executed[k] = IF (is_authorized_to_execute(proposals[id]) /\ r.funded) /\ k = id
                                      THEN r.executed[k] + 1 ELSE r.executed[k]
  BY RoundDone
<1>7. is_authorized_to_execute(proposals[id]) <=> id \in Ready
  BY <1>4
<1> HIDE DEF id, q, N
<1>8. /\ \A k \in N : (k \in r.left => r.executed[k] = executed[k])
                      /\ (r.executed[k] # executed[k] => k \in Ready /\ r.executed[k] = executed[k] + 1)
      /\ funded => (r.funded /\ Ready \subseteq r.left) \/ \E k \in N : r.executed[k] # executed[k]
  BY DEF Clearing, N
<1>9. CASE id \in Ready /\ r.funded
  <2>1. \A k \in N : q.executed[k] = IF k = id THEN r.executed[k] + 1 ELSE r.executed[k]
    BY <1>6, <1>7, <1>9
  <2>2. q.executed[id] = executed[id] + 1 /\ q.executed[id] # executed[id]
    <3>1. executed[id] \in Nat /\ r.executed[id] = executed[id]
      BY <1>0, <1>4, <1>8
    <3>2. q.executed[id] = r.executed[id] + 1
      BY <1>4, <2>1
    <3> QED BY <3>1, <3>2
  <2>3. ASSUME NEW k \in N
        PROVE  /\ k \in q.left => q.executed[k] = executed[k]
               /\ q.executed[k] # executed[k] => k \in Ready /\ q.executed[k] = executed[k] + 1
    <3>1. CASE k = id
      BY <1>6, <1>9, <2>2, <3>1
    <3>2. CASE k # id
      BY <1>6, <1>8, <2>1, <3>2
    <3> QED BY <3>1, <3>2
  <2> QED BY <1>4, <1>5, <1>6, <2>2, <2>3 DEF Clearing, N, q
<1>10. CASE ~(id \in Ready /\ r.funded)
  <2>1. (\A k \in N : q.executed[k] = r.executed[k]) /\ (q.funded <=> r.funded)
    BY <1>6, <1>7, <1>10
  <2>2. ASSUME NEW k \in N
        PROVE  /\ k \in q.left => q.executed[k] = executed[k]
               /\ q.executed[k] # executed[k] => k \in Ready /\ q.executed[k] = executed[k] + 1
    BY <1>6, <1>8, <2>1
  <2>3. funded => (q.funded /\ Ready \subseteq q.left) \/ \E k \in N : q.executed[k] # executed[k]
    BY <1>6, <1>8, <1>10, <2>1
  <2> QED BY <1>5, <1>6, <2>2, <2>3 DEF Clearing, N, q
<1> QED BY <1>9, <1>10

\* What clear_expired_proposals has done at its end.
Cleared(r, expired) ==
  /\ r.funded \in BOOLEAN /\ r.executed \in [1..Len(executed) -> Nat]
  /\ \A k \in 1..Len(executed) : r.executed[k] # executed[k] =>
       k \in expired /\ is_authorized_to_execute(proposals[k]) /\ r.executed[k] = executed[k] + 1
  /\ funded /\ (\E k \in expired : is_authorized_to_execute(proposals[k]))
       => \E k \in 1..Len(executed) : r.executed[k] # executed[k]

\* It goes through all of them.
LEMMA ClearsExpired ==
  ASSUME IInv, NEW expired \in SUBSET DOMAIN proposals
  PROVE  Cleared(clear_expired_proposals(expired), expired)
<1> DEFINE n == Cardinality(expired)
           N == 1..Len(executed)
           M == Rounds(expired)
           base == [left |-> expired, funded |-> funded, executed |-> executed]
           step == [p \in (1..n) \X M |-> Round(p[2])]
           E(h) == h = [i \in 0..n |-> IF i = 0 THEN base ELSE Round(h[i - 1])]
           run == CHOOSE h : E(h)
           Ready == {k \in expired : is_authorized_to_execute(proposals[k])}
<1>1. clear_expired_proposals(expired) = run[n]
  BY DEF clear_expired_proposals, Round
<1>2. IsFiniteSet(expired) /\ n \in Nat
  <2>1. executed \in Seq(Nat) /\ expired \in SUBSET N
    BY DEF IInv
  <2>2. Len(executed) \in Nat
    BY <2>1
  <2>3. IsFiniteSet(N)
    BY <2>2, FS_Interval
  <2>4. IsFiniteSet(expired)
    BY <2>1, <2>3, FS_Subset
  <2> QED BY <2>4, FS_CardinalityType
<1>3. base \in M
  <2>1. executed \in [N -> Nat] /\ funded \in BOOLEAN
    BY DEF IInv
  <2> QED BY <2>1 DEF Rounds
<1>4. \A r \in M : Round(r) \in M
  BY RoundDone
<1> HIDE DEF M, base, n
<1>5. \A i \in 1..n, r \in M : step[<<i, r>>] = Round(r)
  OBVIOUS
<1> HIDE DEF step
<1>6. StaysIn(step, 1..n, M)
  BY <1>4, <1>5 DEF StaysIn
<1>7. PICK g \in [0..n -> M] : RunsBy(g, n, base, step)
  BY <1>2, <1>3, <1>6, RunExists
<1>8. 0 \in 0..n /\ n \in 0..n /\ \A i \in 1..n : i \in 0..n /\ i # 0 /\ i - 1 \in 0..n
  BY <1>2
<1>9. g[0] = base /\ \A i \in 1..n : g[i] = Round(g[i - 1])
  BY <1>5, <1>7, <1>8 DEF RunsBy
<1>10. E(g)
  <2>1. \A i \in 0..n : i # 0 => i \in 1..n
    BY <1>2
  <2>2. \A i \in 0..n : g[i] = IF i = 0 THEN base ELSE Round(g[i - 1])
    BY <1>9, <2>1
  <2> QED BY <1>7, <2>2
<1>11. run = g
  <2>1. E(run)
    BY <1>10
  <2> HIDE DEF run
  <2>2. RunsTo(run, n) /\ RunsTo(g, n)
    BY <1>10, <2>1 DEF RunsTo
  <2>3. \A i \in 0..n : run[i] = IF i = 0 THEN base ELSE Round(run[i - 1])
    BY <2>1
  <2>4. RunAlike(run, g, n)
    BY <1>8, <1>9, <2>3 DEF RunAlike
  <2> QED BY <1>2, <2>2, <2>4, RunUnique
<1> HIDE DEF run
<1>12. \A k \in expired : is_authorized_to_execute(proposals[k]) <=> k \in Ready
  OBVIOUS
<1>13. Ready = {k \in expired : is_authorized_to_execute(proposals[k])}
  OBVIOUS
<1> HIDE DEF Ready
<1> DEFINE G == {i \in 0..n : Clearing(g[i], i, n, expired, Ready)}
<1>14. 0 \in G
  <2>1. g[0].left = expired /\ g[0].executed = executed /\ (g[0].funded <=> funded)
    BY <1>9 DEF base
  <2>2. Cardinality(g[0].left) = n - 0
    BY <1>2, <2>1 DEF n
  <2>3. Ready \subseteq expired
    BY <1>13
  <2>4. Clearing(g[0], 0, n, expired, Ready)
    BY <2>1, <2>2, <2>3 DEF Clearing
  <2> QED BY <1>8, <2>4
<1>15. ASSUME NEW i \in 1..n, i - 1 \in G PROVE i \in G
  <2> DEFINE r == g[i - 1]
  <2>1. r \in Rounds(expired) /\ g[i] = Round(r) /\ Clearing(r, i - 1, n, expired, Ready)
    BY <1>7, <1>8, <1>9, <1>15 DEF M
  <2> HIDE DEF r
  <2>2. Clearing(Round(r), i, n, expired, Ready)
    BY <1>2, <1>13, <2>1, RoundClears
  <2> QED BY <1>8, <2>1, <2>2
<1> HIDE DEF G
<1>16. \A i \in 0..n : i \in G
  BY <1>2, <1>14, <1>15, UpToInduction
<1> DEFINE r == g[n]
<1>17. Clearing(r, n, n, expired, Ready) /\ r \in Rounds(expired)
  BY <1>7, <1>8, <1>16 DEF G, M
<1> HIDE DEF r
<1>18. r.left = {}
  <2>1. Cardinality(r.left) = 0
    BY <1>2, <1>17 DEF Clearing
  <2>2. r.left \in SUBSET expired
    BY <1>17 DEF Rounds
  <2>3. IsFiniteSet(r.left)
    BY <1>2, <2>2, FS_Subset
  <2> QED BY <2>1, <2>3, FS_EmptySet
<1>19. Cleared(r, expired)
  <2>1. r.funded \in BOOLEAN /\ r.executed \in [N -> Nat]
    BY <1>17 DEF Rounds
  <2>2. ASSUME NEW k \in N, r.executed[k] # executed[k]
        PROVE  k \in expired /\ is_authorized_to_execute(proposals[k]) /\ r.executed[k] = executed[k] + 1
    <3>1. k \in Ready /\ r.executed[k] = executed[k] + 1
      BY <1>17, <2>2 DEF Clearing
    <3> QED BY <1>12, <1>13, <3>1
  <2>3. ASSUME funded, NEW k \in expired, is_authorized_to_execute(proposals[k])
        PROVE  \E j \in N : r.executed[j] # executed[j]
    <3>1. k \in Ready
      BY <1>12, <2>3
    <3> QED BY <1>17, <1>18, <2>3, <3>1 DEF Clearing
  <2> QED BY <2>1, <2>2, <2>3 DEF Cleared
<1> QED BY <1>1, <1>11, <1>19 DEF r

(***************************************************************************)
(* Each step keeps the invariant                                           *)
(***************************************************************************)

\* Leaving some out keeps the rest in order.
LEMMA ListsWithout ==
  ASSUME NEW o, NEW D, Lists(o, D), NEW ids
  PROVE  Lists({e \in o : e[1] \notin ids /\ e[2] \notin ids}, D \ ids)
<1> DEFINE s == {e \in o : e[1] \notin ids /\ e[2] \notin ids}
<1>1. \A i, j : <<i, j>> \in s <=> <<i, j>> \in o /\ i \notin ids /\ j \notin ids
  OBVIOUS
<1>2. s \in SUBSET ((D \ ids) \X (D \ ids))
  <2> SUFFICES ASSUME NEW e \in s PROVE e \in (D \ ids) \X (D \ ids)
    OBVIOUS
  <2>1. e \in D \X D /\ e[1] \notin ids /\ e[2] \notin ids
    BY DEF Lists
  <2> QED BY <2>1
<1> HIDE DEF s
<1>3. Lists(s, D \ ids)
  BY <1>1, <1>2 DEF Lists
<1> QED BY <1>3 DEF s

\* A new one goes behind the others.
LEMMA ListsWith ==
  ASSUME NEW o, NEW D, Lists(o, D), NEW id, id \notin D
  PROVE  Lists(o \cup {<<i, id>> : i \in D}, D \cup {id})
<1> DEFINE s == o \cup {<<i, id>> : i \in D}
<1>1. \A i, j : <<i, j>> \in s <=> <<i, j>> \in o \/ (i \in D /\ j = id)
  OBVIOUS
<1>2. s \in SUBSET ((D \cup {id}) \X (D \cup {id}))
  BY DEF Lists
<1>3. \A i, j : <<i, j>> \in o => i \in D /\ j \in D
  BY DEF Lists
<1> HIDE DEF s
<1>4. \A i \in D \cup {id} : <<i, i>> \notin s
  BY <1>1, <1>3 DEF Lists
<1>5. \A i \in D \cup {id}, j \in D \cup {id} : i # j => <<i, j>> \in s \/ <<j, i>> \in s
  BY <1>1 DEF Lists
<1>6. \A i \in D \cup {id}, j \in D \cup {id}, k \in D \cup {id} :
        <<i, j>> \in s /\ <<j, k>> \in s => <<i, k>> \in s
  BY <1>1, <1>3 DEF Lists
<1> QED BY <1>2, <1>4, <1>5, <1>6 DEF Lists, s

\* The first state.
LEMMA InitInv == Init => IInv
<1> SUFFICES ASSUME Init PROVE IInv
  OBVIOUS
<1>1. AuthorityMap(active)
  <2>1. ASSUME NEW a \in Accounts PROVE IsAuthority(active[a])
    <3>1. active[a] = CHOOSE au \in Authorities[a] : TRUE
      BY DEF Init
    <3>2. Authorities[a] # {} /\ \A au \in Authorities[a] : IsAuthority(au)
      BY ProposalsAssumption DEF ProposalsAssumption
    <3>3. active[a] \in Authorities[a]
      BY <3>1, <3>2
    <3> QED BY <3>2, <3>3
  <2>2. active = [a \in Accounts |-> active[a]]
    BY DEF Init
  <2> QED BY <2>1, <2>2 DEF AuthorityMap
<1>2. proposals = <<>> /\ DOMAIN proposals = {} /\ executed \in Seq(Nat)
  BY DEF Init
<1>3. proposals = [id \in DOMAIN proposals |-> proposals[id]]
  BY <1>2
<1>4. Lists(order, DOMAIN proposals)
  BY <1>2 DEF Init, Lists
<1> QED BY <1>1, <1>2, <1>3, <1>4 DEF Init, IInv

\* What an update adds and removes is of the right kind.
LEMMA UpdateTyped ==
  ASSUME NEW p \in ProposalObjects, NEW o \in Updates(p)
  PROVE  /\ Updated(p, o) \in ProposalObjects
         /\ Updated(p, o).trx = p.trx /\ Updated(p, o).review = p.review
         /\ Updated(p, o).expiration = p.expiration
<1> DEFINE T == [addA : SUBSET Accounts, remA : SUBSET Accounts, addO : SUBSET Accounts,
                 remO : SUBSET Accounts, addK : SUBSET Keys, remK : SUBSET Keys]
<1>1. NoChange \in T
  BY DEF NoChange
<1>2. p.actives \subseteq Accounts /\ p.owners \subseteq Accounts /\ p.keys \subseteq Keys
  BY DEF ProposalObjects
<1>3. \/ \E a \in Accounts : o = [NoChange EXCEPT !.addA = {a}]
      \/ \E a \in Accounts : o = [NoChange EXCEPT !.addO = {a}]
      \/ \E k \in Keys : o = [NoChange EXCEPT !.addK = {k}]
      \/ \E a \in Accounts : o = [NoChange EXCEPT !.remA = {a}]
      \/ \E a \in Accounts : o = [NoChange EXCEPT !.remO = {a}]
      \/ \E k \in Keys : o = [NoChange EXCEPT !.remK = {k}]
  BY <1>2 DEF Updates
<1>4. o \in T
  BY <1>1, <1>3
<1>5. /\ (p.actives \cup o.addA) \ o.remA \in SUBSET Accounts
      /\ (p.owners \cup o.addO) \ o.remO \in SUBSET Accounts
      /\ (p.keys \cup o.addK) \ o.remK \in SUBSET Keys
  BY <1>2, <1>4
<1> QED BY <1>5 DEF Updated, ProposalObjects

\* Removing proposals, when nothing else of the invariant changes.
LEMMA RemoveInv ==
  ASSUME IInv, NEW ids, RemoveAll(ids), AuthorityMap(active'), funded' \in BOOLEAN,
         time' \in Nat, executed' \in Seq(Nat), Len(executed') = Len(executed),
         \A id \in DOMAIN proposals \ ids :
           proposals[id].expiration > time' /\ executed'[id] = executed[id]
  PROVE  IInv'
<1> DEFINE D == DOMAIN proposals
<1>1. /\ proposals' = [i \in D \ ids |-> proposals[i]]
      /\ order' = {e \in order : e[1] \notin ids /\ e[2] \notin ids}
  BY DEF RemoveAll
<1>2. DOMAIN proposals' = D \ ids /\ \A i \in D \ ids : proposals'[i] = proposals[i]
  BY <1>1
<1>3. Lists(order', D \ ids)
  BY <1>1, ListsWithout DEF IInv
<1>4. \A i \in D \ ids : Standing(proposals[i], time') /\ executed'[i] = 0
  BY DEF IInv, Standing
<1>5. D \ ids \subseteq 1..Len(executed')
  BY DEF IInv
<1>6. proposals' = [i \in DOMAIN proposals' |-> proposals'[i]]
  BY <1>1, <1>2
<1> QED BY <1>2, <1>3, <1>4, <1>5, <1>6 DEF IInv

\* Creating a proposal.
LEMMA CreateInv ==
  ASSUME IInv, NEW trx \in Proposed, NEW expiration \in (time + 1)..(time + MaxLifetime),
         NEW review \in {NoReview, CommitteeReview}, proposal_create(trx, expiration, review)
  PROVE  IInv'
<1> DEFINE D == DOMAIN proposals
           id == Len(executed) + 1
           new == [trx |-> trx, expiration |-> expiration,
                   review |-> IF review = NoReview THEN NoReview ELSE expiration - review,
                   required_active |-> trx.active \ trx.owner, required_owner |-> trx.owner,
                   actives |-> {}, owners |-> {}, keys |-> {}]
<1>0. /\ time \in Nat /\ executed \in Seq(Nat) /\ D \subseteq 1..Len(executed) /\ Lists(order, D)
      /\ CommitteeReview \in Nat /\ NoReview \notin Nat /\ MaxLifetime \in Nat
      /\ trx.active \in SUBSET Accounts /\ trx.owner \in SUBSET Accounts
  BY ProposalsAssumption DEF IInv, ProposalsAssumption, Requirements
<1>1. id \notin D /\ id \in Nat /\ Len(executed) \in Nat
  <2>1. Len(executed) \in Nat
    BY <1>0
  <2>2. id \notin 1..Len(executed) /\ id \in Nat
    BY <2>1
  <2> QED BY <1>0, <2>1, <2>2
<1>2. /\ review # NoReview => review < expiration - time
      /\ Committee \in trx.active \cup trx.owner => review # NoReview
      /\ executed' = Append(executed, 0)
      /\ order' = order \cup {<<i, id>> : i \in D}
      /\ proposals' = [i \in D \cup {id} |-> IF i # id THEN proposals[i] ELSE new]
      /\ UNCHANGED <<active, funded, time>>
  BY DEF proposal_create
<1>3. Standing(new, time)
  <2>1. expiration \in Nat /\ expiration > time
    BY <1>0
  <2> DEFINE end == IF review = NoReview THEN NoReview ELSE expiration - review
  <2>2. end \in Reviews /\ (Committee \in trx.active \cup trx.owner => end # NoReview)
    <3>1. CASE review = NoReview
      BY <1>2, <3>1 DEF Reviews
    <3>2. CASE review # NoReview
      <4>1. review \in Nat /\ review < expiration - time
        BY <1>0, <1>2, <3>2
      <4>2. expiration - review \in Nat
        BY <1>0, <2>1, <4>1
      <4> QED BY <1>0, <3>2, <4>2 DEF Reviews
    <3> QED BY <3>1, <3>2
  <2>3. new = [trx |-> trx, expiration |-> expiration, review |-> end,
               required_active |-> trx.active \ trx.owner, required_owner |-> trx.owner,
               actives |-> {}, owners |-> {}, keys |-> {}]
    OBVIOUS
  <2> HIDE DEF end, new
  <2>4. new.trx = trx /\ new.expiration = expiration /\ new.review = end
    BY <2>3
  <2>5. new \in ProposalObjects
    BY <1>0, <2>1, <2>2, <2>3 DEF ProposalObjects
  <2> QED BY <2>1, <2>2, <2>4, <2>5 DEF Standing
<1> HIDE DEF new
<1>4. /\ executed' \in Seq(Nat) /\ Len(executed') = id
      /\ executed'[id] = 0 /\ \A i \in 1..Len(executed) : executed'[i] = executed[i]
  BY <1>0, <1>2
<1> HIDE DEF id
<1>5. Lists(order', D \cup {id})
  BY <1>0, <1>1, <1>2, ListsWith
<1>6. DOMAIN proposals' = D \cup {id} /\ proposals'[id] = new /\ \A i \in D : proposals'[i] = proposals[i]
  BY <1>1, <1>2
<1>7. D \cup {id} \subseteq 1..Len(executed')
  BY <1>0, <1>1, <1>4 DEF id
<1>8. ASSUME NEW i \in D \cup {id} PROVE Standing(proposals'[i], time') /\ executed'[i] = 0
  <2>1. CASE i = id
    BY <1>2, <1>3, <1>4, <1>6, <2>1
  <2>2. CASE i # id
    BY <1>0, <1>2, <1>4, <1>6, <2>2 DEF IInv
  <2> QED BY <2>1, <2>2
<1>9. proposals' = [i \in DOMAIN proposals' |-> proposals'[i]]
  BY <1>2, <1>6
<1>10. AuthorityMap(active') /\ funded' \in BOOLEAN /\ time' \in Nat
  BY <1>2 DEF IInv
<1> QED BY <1>4, <1>5, <1>6, <1>7, <1>8, <1>9, <1>10 DEF IInv

\* Updating one, which may execute and remove it.
LEMMA UpdateInv ==
  ASSUME IInv, NEW id \in DOMAIN proposals, NEW o \in Updates(proposals[id]), proposal_update(id, o)
  PROVE  IInv'
<1> DEFINE p == proposals[id]
           q == Updated(p, o)
           D == DOMAIN proposals
<1>0. UNCHANGED <<active, time>> /\ AuthorityMap(active') /\ time' \in Nat /\ id \in 1..Len(executed)
      /\ executed \in Seq(Nat)
  BY DEF IInv, proposal_update
<1>1. CASE ExecutesNow(q)
  <2>1. RemoveAll({id}) /\ executed' = [executed EXCEPT ![id] = @ + 1] /\ funded' = FALSE
    BY <1>1 DEF proposal_update
  <2>2. executed' \in Seq(Nat) /\ Len(executed') = Len(executed)
        /\ \A i \in 1..Len(executed) : i # id => executed'[i] = executed[i]
    BY <1>0, <2>1
  <2>3. \A i \in D \ {id} : i # id /\ i \in 1..Len(executed) /\ proposals[i].expiration > time'
    BY <1>0 DEF IInv, Standing
  <2>4. \A i \in D \ {id} : proposals[i].expiration > time' /\ executed'[i] = executed[i]
    BY <2>2, <2>3
  <2>5. funded' \in BOOLEAN
    BY <2>1
  <2> QED BY <1>0, <2>1, <2>2, <2>4, <2>5, RemoveInv
<1>2. CASE ~ExecutesNow(q)
  <2>1. proposals' = [proposals EXCEPT ![id] = q] /\ UNCHANGED <<order, executed, funded>>
    BY <1>2 DEF proposal_update
  <2>2. Standing(p, time) /\ proposals = [i \in D |-> proposals[i]]
    BY DEF IInv
  <2>3. q \in ProposalObjects /\ q.trx = p.trx /\ q.review = p.review /\ q.expiration = p.expiration
    BY <2>2, UpdateTyped DEF Standing
  <2> HIDE DEF q
  <2>4. Standing(q, time)
    BY <2>2, <2>3 DEF Standing
  <2>5. DOMAIN proposals' = D /\ proposals'[id] = q /\ \A i \in D : i # id => proposals'[i] = proposals[i]
    BY <2>1, <2>2
  <2>6. proposals' = [i \in DOMAIN proposals' |-> proposals'[i]]
    BY <2>1, <2>2, <2>5
  <2>7. \A i \in D : Standing(proposals'[i], time') /\ executed'[i] = 0
    BY <1>0, <2>1, <2>4, <2>5 DEF IInv
  <2>8. executed' = executed /\ order' = order /\ funded' = funded
    BY <2>1
  <2> QED BY <1>0, <2>5, <2>6, <2>7, <2>8 DEF IInv
<1> QED BY <1>1, <1>2

\* Vetoing one, in a block or only for the time being.
LEMMA DeleteInv ==
  ASSUME IInv, NEW id \in DOMAIN proposals, NEW a, NEW using_owner,
         proposal_delete(id, a, using_owner) \/ UndoDelete(id, a, using_owner)
  PROVE  IInv'
<1> DEFINE D == DOMAIN proposals
<1>1. CASE proposal_delete(id, a, using_owner)
  <2>1. RemoveAll({id}) /\ UNCHANGED <<active, funded, time, executed>>
    BY <1>1 DEF proposal_delete
  <2>2. AuthorityMap(active') /\ funded' \in BOOLEAN /\ time' \in Nat /\ executed' \in Seq(Nat)
    BY <2>1 DEF IInv
  <2>3. Len(executed') = Len(executed) /\ \A i \in D \ {id} : executed'[i] = executed[i]
    BY <2>1
  <2>4. \A i \in D \ {id} : proposals[i].expiration > time'
    BY <2>1 DEF IInv, Standing
  <2> QED BY <2>1, <2>2, <2>3, <2>4, RemoveInv
<1>2. CASE UndoDelete(id, a, using_owner)
  <2> DEFINE rest == {e \in order : e[1] \notin {id} /\ e[2] \notin {id}}
             E == D \ {id}
  <2>1. UNCHANGED <<active, funded, time, proposals, executed>>
        /\ order' = rest \cup {<<i, id>> : i \in E}
    BY <1>2 DEF UndoDelete
  <2>2. Lists(rest, E)
    BY ListsWithout DEF IInv
  <2> HIDE DEF rest
  <2>3. id \notin E /\ E \cup {id} = D
    OBVIOUS
  <2> HIDE DEF E
  <2>4. Lists(order', E \cup {id})
    BY <2>1, <2>2, <2>3, ListsWith
  <2>5. Lists(order', D)
    BY <2>3, <2>4
  <2> QED BY <2>1, <2>5 DEF IInv
<1> QED BY <1>1, <1>2

\* A block: what it executes has expired and is gone.
LEMMA BlockInv ==
  ASSUME IInv, apply_block
  PROVE  /\ IInv'
         /\ time' = time + 1 /\ Expired(time + 1) \in SUBSET DOMAIN proposals
         /\ RemoveAll(Expired(time + 1))
         /\ \E r : Cleared(r, Expired(time + 1)) /\ executed' = r.executed
<1> DEFINE D == DOMAIN proposals
           expired == Expired(time + 1)
           r == clear_expired_proposals(expired)
<1>1. /\ time' = time + 1 /\ RemoveAll(expired) /\ executed' = r.executed /\ funded' = r.funded
      /\ active' = active
  BY DEF apply_block
<1>2. expired \in SUBSET D /\ \A i \in D : i \in expired <=> proposals[i].expiration <= time + 1
  BY DEF Expired
<1>3. Cleared(r, expired)
  BY <1>2, ClearsExpired
<1> HIDE DEF r, expired
<1>4. time \in Nat /\ executed \in Seq(Nat) /\ AuthorityMap(active') /\ D \subseteq 1..Len(executed)
  BY <1>1 DEF IInv
<1>5. time' \in Nat /\ Len(executed) \in Nat
  BY <1>1, <1>4
<1>6. executed' \in Seq(Nat) /\ Len(executed') = Len(executed)
  <2>1. executed' \in [1..Len(executed) -> Nat]
    BY <1>1, <1>3 DEF Cleared
  <2> QED BY <1>5, <2>1
<1>7. \A i \in D \ expired : proposals[i].expiration > time' /\ executed'[i] = executed[i]
  <2>1. \A i \in D : proposals[i].expiration \in Nat
    BY DEF IInv, Standing, ProposalObjects
  <2>2. \A i \in D \ expired : proposals[i].expiration > time'
    BY <1>1, <1>2, <1>4, <2>1
  <2>3. \A i \in D \ expired : executed'[i] = executed[i]
    BY <1>1, <1>3, <1>4 DEF Cleared
  <2> QED BY <2>2, <2>3
<1>8. funded' \in BOOLEAN
  BY <1>1, <1>3 DEF Cleared
<1>9. IInv'
  BY <1>1, <1>4, <1>5, <1>6, <1>7, <1>8, RemoveInv
<1> QED BY <1>1, <1>2, <1>3, <1>9 DEF expired

\* Changing an account's authority.
LEMMA AccountInv ==
  ASSUME IInv, NEW a \in Accounts, NEW au \in Authorities[a], account_update(a, au)
  PROVE  IInv'
<1>1. active' = [active EXCEPT ![a] = au] /\ UNCHANGED <<funded, time, proposals, order, executed>>
  BY DEF account_update
<1>2. IsAuthority(au)
  BY ProposalsAssumption DEF ProposalsAssumption
<1>3. active = [b \in Accounts |-> active[b]] /\ \A b \in Accounts : IsAuthority(active[b])
  BY DEF IInv, AuthorityMap
<1>4. active' = [b \in Accounts |-> active'[b]] /\ \A b \in Accounts : active'[b] = IF b = a THEN au ELSE active[b]
  BY <1>1, <1>3
<1>5. AuthorityMap(active')
  BY <1>2, <1>3, <1>4 DEF AuthorityMap
<1> QED BY <1>1, <1>5 DEF IInv

\* Every step keeps the invariant.
LEMMA NextInv == IInv /\ [Next]_vars => IInv'
<1> SUFFICES ASSUME IInv, [Next]_vars PROVE IInv'
  OBVIOUS
<1>1. ASSUME NEW trx \in Proposed, NEW expiration \in (time + 1)..(time + MaxLifetime),
             NEW review \in {NoReview, CommitteeReview}, proposal_create(trx, expiration, review)
      PROVE  IInv'
  BY <1>1, CreateInv
<1>2. ASSUME NEW id \in DOMAIN proposals, NEW o \in Updates(proposals[id]), proposal_update(id, o)
      PROVE  IInv'
  BY <1>2, UpdateInv
<1>3. ASSUME NEW id \in DOMAIN proposals, NEW a, NEW using_owner,
             proposal_delete(id, a, using_owner) \/ UndoDelete(id, a, using_owner)
      PROVE  IInv'
  BY <1>3, DeleteInv
<1>4. CASE apply_block
  BY <1>4, BlockInv
<1>5. ASSUME NEW a \in Accounts, NEW au \in Authorities[a], account_update(a, au) PROVE IInv'
  BY <1>5, AccountInv
<1>6. CASE Fund
  BY <1>6 DEF Fund, IInv
<1>7. CASE UNCHANGED vars
  BY <1>7 DEF vars, IInv
<1> QED BY <1>1, <1>2, <1>3, <1>4, <1>5, <1>6, <1>7 DEF Next

\* The invariant of the proposals: each one that stands is not yet executed and
\* not yet expired, is listed by the index in one order with the others, and
\* has a review period if it needs the committee.
THEOREM Invariant == Spec => []IInv
BY InitInv, NextInv, PTL DEF Spec

(***************************************************************************)
(* The properties                                                          *)
(***************************************************************************)

\* What is_authorized_to_execute says of a proposal.
LEMMA ExecutionDecided ==
  ASSUME IInv, NEW p \in ProposalObjects
  PROVE  /\ is_authorized_to_execute(p) => AuthorizedBy(p, Cardinality(Accounts))
         /\ AuthorizedBy(p, MaxDepth) /\ p.keys = {} => is_authorized_to_execute(p)
<1> DEFINE req == p.trx
           v == verify_authority(active, Owner, p.trx, p.keys, TRUE, p.actives, p.owners)
<1>1. req \in Requirements /\ AuthorityMap(Owner) /\ AuthorityMap(active)
  BY ProposalsAssumption DEF ProposalsAssumption, ProposalObjects, IInv
<1>2. p.keys \in SUBSET Keys /\ p.actives \in SUBSET Accounts /\ p.owners \in SUBSET Accounts
  BY DEF ProposalObjects
<1> DEFINE allow == TRUE
<1>3. allow \in BOOLEAN /\ v = verify_authority(active, Owner, req, p.keys, allow, p.actives, p.owners)
  OBVIOUS
<1>4. allow
  OBVIOUS
<1> HIDE DEF allow, v
<1>5. VerifyDecided(v, allow, active, Owner, req, p.keys, p.actives, p.owners)
  BY <1>1, <1>2, <1>3, VerifyDecides
<1> QED BY <1>4, <1>5 DEF VerifyDecided, AuthorizedBy, is_authorized_to_execute, v

\* verify_authority decides what the authorities mean, whatever the weights and
\* thresholds are and however the accounts refer to each other: it accepts
\* nothing that does not follow from them, and finds what follows within
\* MaxDepth levels (sign_state::check_authority, which stops at the threshold
\* and remembers the accounts it found).
THEOREM VerifyIsExact == Spec => []VerifyExact
<1>1. VerifyExact
  <2> SUFFICES ASSUME NEW g \in Graphs, NEW trx \in Proposed, NEW sigs \in SUBSET Keys,
                      NEW approvals \in SUBSET (Accounts \ {Committee})
               PROVE  LET v == verify_authority(g, Owner, trx, sigs, TRUE, approvals, {})
                      IN  /\ Authorized(g, Owner, trx, sigs, approvals, {}, MaxDepth)
                               => v \in {"ok", "irrelevant"}
                          /\ v = "ok" =>
                               Authorized(g, Owner, trx, sigs, approvals, {}, Cardinality(Accounts))
    BY DEF VerifyExact
  <2>1. trx \in Requirements /\ AuthorityMap(Owner) /\ AuthorityMap(g)
    BY ProposalsAssumption DEF ProposalsAssumption
  <2> DEFINE allow == TRUE
             None == {}
             v == verify_authority(g, Owner, trx, sigs, allow, approvals, None)
  <2>2. allow \in BOOLEAN /\ allow /\ None \in SUBSET Accounts /\ approvals \in SUBSET Accounts
    OBVIOUS
  <2> HIDE DEF allow, None
  <2>3. VerifyDecided(v, allow, g, Owner, trx, sigs, approvals, None)
    BY <2>1, <2>2, VerifyDecides, ZenonT(60)
  <2> HIDE DEF v
  <2>4. /\ Authorized(g, Owner, trx, sigs, approvals, None, MaxDepth) => v \in {"ok", "irrelevant"}
        /\ v = "ok" => Authorized(g, Owner, trx, sigs, approvals, None, Cardinality(Accounts))
    BY <2>2, <2>3 DEF VerifyDecided
  <2> QED BY <2>4 DEF v, allow, None
<1> QED BY <1>1, PTL

\* A proposal is executed once, is gone then, and was authorized at that moment:
\* by an update if it has no review period, and when it expires otherwise
\* (proposal_update_evaluator, push_proposal and clear_expired_proposals).
THEOREM ExecutionIsAuthorized == Spec => ExecutionAuthorized
<1> DEFINE Done(id) ==
             LET p == proposals[id]
             IN  /\ executed'[id] = 1
                 /\ id \notin DOMAIN proposals'
                 /\ IF time' = time
                    THEN /\ Committee \notin p.trx.active \cup p.trx.owner
                         /\ \E o \in Updates(p) : AuthorizedBy(Updated(p, o), Cardinality(Accounts))
                    ELSE /\ time' = p.expiration
                         /\ AuthorizedBy(p, Cardinality(Accounts))
           Step == \A id \in Ids : executed'[id] # executed[id] => Done(id)
<1>1. ASSUME IInv, [Next]_vars PROVE [Step]_vars
  <2> SUFFICES ASSUME NEW k \in Ids, executed'[k] # executed[k] PROVE Done(k)
    OBVIOUS
  <2>0. executed \in Seq(Nat) /\ k \in 1..Len(executed) /\ time \in Nat
    BY <1>1 DEF IInv, Ids
  <2>1. ASSUME NEW trx \in Proposed, NEW expiration, NEW review, proposal_create(trx, expiration, review)
        PROVE  Done(k)
    <3>1. executed' = Append(executed, 0)
      BY <2>1 DEF proposal_create
    <3>2. executed'[k] = executed[k]
      BY <2>0, <3>1
    <3> QED BY <3>2
  <2>2. ASSUME NEW id \in DOMAIN proposals, NEW o \in Updates(proposals[id]), proposal_update(id, o)
        PROVE  Done(k)
    <3> DEFINE p == proposals[id]
               q == Updated(p, o)
    <3>1. ExecutesNow(q) /\ RemoveAll({id}) /\ executed' = [executed EXCEPT ![id] = @ + 1] /\ time' = time
      BY <2>2 DEF proposal_update
    <3>2. Standing(p, time) /\ executed[id] = 0 /\ id \in 1..Len(executed)
      BY <1>1 DEF IInv
    <3>3. k = id /\ executed'[k] = 1
      BY <2>0, <3>1, <3>2
    <3>4. id \notin DOMAIN proposals'
      BY <3>1 DEF RemoveAll
    <3>5. q \in ProposalObjects /\ q.trx = p.trx /\ q.review = p.review
      BY <3>2, UpdateTyped DEF Standing
    <3> HIDE DEF q
    <3>6. AuthorizedBy(q, Cardinality(Accounts)) /\ q.review = NoReview
      BY <1>1, <3>1, <3>5, ExecutionDecided DEF ExecutesNow
    <3>7. Committee \notin p.trx.active \cup p.trx.owner
      BY <3>2, <3>5, <3>6 DEF Standing
    <3> QED BY <3>1, <3>3, <3>4, <3>6, <3>7 DEF q
  <2>3. ASSUME NEW id, NEW a, NEW using_owner,
               proposal_delete(id, a, using_owner) \/ UndoDelete(id, a, using_owner)
        PROVE  Done(k)
    BY <2>3 DEF proposal_delete, UndoDelete
  <2>4. CASE apply_block
    <3> DEFINE expired == Expired(time + 1)
    <3>1. /\ time' = time + 1 /\ expired \in SUBSET DOMAIN proposals /\ RemoveAll(expired)
          /\ \E r : Cleared(r, expired) /\ executed' = r.executed
      BY <1>1, <2>4, BlockInv
    <3>2. k \in expired /\ is_authorized_to_execute(proposals[k]) /\ executed'[k] = executed[k] + 1
      BY <2>0, <3>1 DEF Cleared
    <3>3. Standing(proposals[k], time) /\ executed[k] = 0
      BY <1>1, <3>1, <3>2 DEF IInv
    <3>4. proposals[k].expiration = time' /\ time' # time
      <4>1. proposals[k].expiration \in Nat /\ proposals[k].expiration > time
            /\ proposals[k].expiration <= time + 1
        BY <3>2, <3>3 DEF Standing, ProposalObjects, Expired
      <4> QED BY <2>0, <3>1, <4>1
    <3>5. k \notin DOMAIN proposals'
      BY <3>1, <3>2 DEF RemoveAll
    <3>6. AuthorizedBy(proposals[k], Cardinality(Accounts))
      BY <1>1, <3>2, <3>3, ExecutionDecided DEF Standing
    <3>7. executed'[k] = 1
      BY <3>2, <3>3
    <3> QED BY <3>4, <3>5, <3>6, <3>7
  <2>5. ASSUME NEW a, NEW au, account_update(a, au) PROVE Done(k)
    BY <2>5 DEF account_update
  <2>6. CASE Fund
    BY <2>6 DEF Fund
  <2>7. CASE UNCHANGED vars
    BY <2>7 DEF vars
  <2> HIDE DEF Done
  <2> QED BY <1>1, <2>1, <2>2, <2>3, <2>4, <2>5, <2>6, <2>7 DEF Next
<1> QED BY <1>1, Invariant, PTL DEF Spec, ExecutionAuthorized

\* A proposal that accounts have approved is tried when it expires: a block that
\* clears such proposals executes one if the transactions can succeed
\* (clear_expired_proposals, "Will try again when it expires").
THEOREM FinalAttemptMade == Spec => FinalAttempt
<1> DEFINE Due == funded /\ \E id \in DOMAIN proposals : /\ proposals[id].expiration = time'
                                                      /\ proposals[id].keys = {}
                                                      /\ AuthorizedBy(proposals[id], MaxDepth)
           Tried == time' = time \/ \E id \in Ids : executed'[id] # executed[id]
<1>1. ASSUME IInv, [Next]_vars PROVE [Due => Tried]_vars
  <2>1. CASE apply_block /\ Due
    <3> DEFINE expired == Expired(time + 1)
    <3>1. PICK id \in DOMAIN proposals : /\ proposals[id].expiration = time'
                                         /\ proposals[id].keys = {}
                                         /\ AuthorizedBy(proposals[id], MaxDepth)
      BY <2>1
    <3>2. time' = time + 1 /\ \E r : Cleared(r, expired) /\ executed' = r.executed
      BY <1>1, <2>1, BlockInv
    <3>3. id \in expired
      <4>1. time \in Nat /\ proposals[id].expiration \in Nat
        BY <1>1 DEF IInv, Standing, ProposalObjects
      <4> QED BY <3>1, <3>2, <4>1 DEF Expired
    <3>4. is_authorized_to_execute(proposals[id])
      <4>1. proposals[id] \in ProposalObjects
        BY <1>1 DEF IInv, Standing
      <4> QED BY <1>1, <3>1, <4>1, ExecutionDecided
    <3>5. DOMAIN executed = 1..Len(executed)
      BY <1>1 DEF IInv
    <3> QED BY <2>1, <3>2, <3>3, <3>4, <3>5 DEF Cleared, Ids
  <2>2. CASE ~apply_block
    <3>1. time' = time
      BY <1>1, <2>2 DEF Next, vars, proposal_create, proposal_update, proposal_delete, UndoDelete,
                       account_update, Fund
    <3> QED BY <3>1
  <2> QED BY <2>1, <2>2
<1> QED BY <1>1, Invariant, PTL DEF Spec, FinalAttempt
=============================================================================
