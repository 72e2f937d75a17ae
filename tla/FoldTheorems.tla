----------------------------- MODULE FoldTheorems -----------------------------
(***************************************************************************)
(* Facts that the proofs of several components use: sums over finite sets  *)
(* (SumFunctionOnSet and SumFunction of module Functions), loops written   *)
(* as recursive functions, and sequences.                                  *)
(*                                                                         *)
(* None of the installed provers can apply a theorem that has an operator  *)
(* as parameter, as the induction and recursion theorems of the library    *)
(* have.  The facts here are induction and recursion for sets and for      *)
(* functions in the place of operators; they follow from WFMin, that every *)
(* set has a minimal element in a well-founded order, which has no such    *)
(* parameter.                                                              *)
(***************************************************************************)
EXTENDS Integers, Sequences, FiniteSets, FiniteSetsExt, Functions, FiniteSetTheorems, WellFoundedInduction, TLAPS

(* Induction over the subsets of a finite set, for a set G of subsets in   *)
(* the place of a predicate.                                               *)
LEMMA SubsetInduction ==
  ASSUME NEW S, IsFiniteSet(S), NEW G \in SUBSET SUBSET S,
         \A T \in SUBSET S : (\A U \in SUBSET T : U # T => U \in G) => T \in G
  PROVE  G = SUBSET S
<1> DEFINE Bad == (SUBSET S) \ G
           R == StrictSubsetOrdering(S)
<1>1. SUFFICES ASSUME Bad # {} PROVE FALSE  OBVIOUS
<1>2. Bad \subseteq FiniteSubsetsOf(S)  BY FS_Subset DEF FiniteSubsetsOf
<1>3. IsWellFoundedOn(R, FiniteSubsetsOf(S))  BY FS_StrictSubsetOrderingWellFounded
<1>4. PICK T \in Bad : \A U \in Bad : ~(<<U, T>> \in R)
  <2> HIDE DEF Bad, R
  <2> QED BY <1>1, <1>2, <1>3, WFMin
<1>5. ASSUME NEW U \in SUBSET T, U # T PROVE U \in G  BY <1>4, <1>5 DEF StrictSubsetOrdering
<1> QED BY <1>4, <1>5

(* pick names an element of every set but the empty one. *)
Picks(pick, T) == \A s \in SUBSET T : s # {} => pick[s] \in s

(* g follows the recursion of a fold on the subsets of T. *)
Iterates(g, T, base, step, pick) ==
  /\ g = [s \in SUBSET T |-> g[s]]
  /\ \A s \in SUBSET T :
       g[s] = IF s = {} THEN base ELSE step[<<pick[s], g[s \ {pick[s]}]>>]

(* Two solutions of the recursion agree where both are defined. *)
LEMMA IteratesUnique ==
  ASSUME NEW T, IsFiniteSet(T), NEW base, NEW step, NEW pick,
         Picks(pick, T),
         NEW U, T \subseteq U, NEW g, Iterates(g, T, base, step, pick),
         NEW h, Iterates(h, U, base, step, pick)
  PROVE  \A s \in SUBSET T : g[s] = h[s]
<1> DEFINE G == {s \in SUBSET T : g[s] = h[s]}
<1>1. ASSUME NEW s \in SUBSET T, \A u \in SUBSET s : u # s => u \in G
      PROVE  s \in G
  <2>1. CASE s = {}  BY <2>1 DEF Iterates
  <2>2. CASE s # {}
    <3> DEFINE u == s \ {pick[s]}
    <3>1. u \in SUBSET s /\ u # s  BY <2>2 DEF Picks
    <3>2. g[u] = h[u]  BY <1>1, <3>1
    <3>3. g[s] = step[<<pick[s], g[u]>>] /\ h[s] = step[<<pick[s], h[u]>>]  BY <2>2 DEF Iterates
    <3> QED BY <3>2, <3>3
  <2> QED BY <2>1, <2>2
<1>2. G = SUBSET T
  <2> HIDE DEF G
  <2>1. G \in SUBSET SUBSET T  BY DEF G
  <2> QED BY <1>1, <2>1, SubsetInduction
<1> QED BY <1>2

(* The recursion of a fold over a finite set has a solution. *)
LEMMA IteratesExists ==
  ASSUME NEW D, IsFiniteSet(D), NEW base, NEW step, NEW pick,
         Picks(pick, D)
  PROVE  \E g : Iterates(g, D, base, step, pick)
<1> DEFINE P(g, T) == Iterates(g, T, base, step, pick)
           G == {T \in SUBSET D : \E g : P(g, T)}
           it(s) == CHOOSE g : P(g, s)
<1>1. ASSUME NEW T \in SUBSET D, \A U \in SUBSET T : U # T => U \in G
      PROVE  T \in G
  <2> DEFINE g == [s \in SUBSET T |->
                     IF s = {} THEN base
                     ELSE step[<<pick[s], it(s \ {pick[s]})[s \ {pick[s]}]>>]]
  <2>1. ASSUME NEW s \in SUBSET T, s # T PROVE P(it(s), s)  BY <1>1, <2>1
  <2>2. ASSUME NEW s \in SUBSET T, s # T PROVE g[s] = it(s)[s]
    <3>1. CASE s = {}
      <4> DEFINE a == it(s)
      <4>1. Iterates(a, s, base, step, pick)  BY <2>1, <2>2
      <4> HIDE DEF a
      <4>2. a[s] = base  BY <3>1, <4>1 DEF Iterates
      <4> QED BY <4>2, <3>1 DEF a
    <3>2. CASE s # {}
      <4> DEFINE u == s \ {pick[s]}
      <4>1. u \subseteq s /\ u # T /\ u \in SUBSET T /\ IsFiniteSet(u)
            BY <3>2, <2>2, FS_Subset DEF Picks
      <4>2. P(it(s), s) /\ P(it(u), u)  BY <2>1, <2>2, <4>1
      <4>3. it(u)[u] = it(s)[u]
        <5> HIDE DEF u
        <5>1. Picks(pick, u)  BY <4>1 DEF Picks
        <5>2. \A x \in SUBSET u : it(u)[x] = it(s)[x]
          <6> DEFINE a == it(u)
                     b == it(s)
          <6>1. Iterates(a, u, base, step, pick) /\ Iterates(b, s, base, step, pick)  BY <4>2
          <6> HIDE DEF a, b
          <6>2. \A x \in SUBSET u : a[x] = b[x]  BY <4>1, <5>1, <6>1, IteratesUnique
          <6> QED BY <6>2 DEF a, b
        <5> QED BY <5>2
      <4>4. it(s)[s] = step[<<pick[s], it(s)[u]>>]  BY <4>2, <3>2 DEF Iterates
      <4> QED BY <4>3, <4>4, <3>2
    <3> QED BY <3>1, <3>2
  <2>3. P(g, T)
    <3>1. g = [s \in SUBSET T |-> g[s]]  OBVIOUS
    <3>2. ASSUME NEW s \in SUBSET T
          PROVE  g[s] = IF s = {} THEN base ELSE step[<<pick[s], g[s \ {pick[s]}]>>]
      <4>1. CASE s = {}  BY <4>1
      <4>2. CASE s # {}
        <5> DEFINE u == s \ {pick[s]}
        <5>1. u \in SUBSET T /\ u # T  BY <4>2 DEF Picks
        <5>2. g[u] = it(u)[u]  BY <2>2, <5>1
        <5>3. g[s] = step[<<pick[s], it(u)[u]>>]  BY <4>2
        <5> HIDE DEF g
        <5> QED BY <5>2, <5>3, <4>2
      <4> QED BY <4>1, <4>2
    <3> HIDE DEF g
    <3> QED BY <3>1, <3>2 DEF Iterates
  <2> QED BY <2>3
<1>2. G = SUBSET D
  <2> HIDE DEF G
  <2>1. G \in SUBSET SUBSET D  BY DEF G
  <2> QED BY <1>1, <2>1, SubsetInduction
<1> QED BY <1>2

(* A step from a value in M leads to a value in M. *)
StaysIn(step, D, M) == \A x \in D, m \in M : step[<<x, m>>] \in M

(* The values of a fold stay in a set that each of its steps stays in. *)
LEMMA IteratesIn ==
  ASSUME NEW D, IsFiniteSet(D), NEW M, NEW base \in M, NEW step, NEW pick, NEW g,
         Picks(pick, D),
         StaysIn(step, D, M),
         Iterates(g, D, base, step, pick)
  PROVE  g \in [SUBSET D -> M]
<1> DEFINE G == {s \in SUBSET D : g[s] \in M}
<1>1. ASSUME NEW s \in SUBSET D, \A u \in SUBSET s : u # s => u \in G
      PROVE  s \in G
  <2>1. CASE s = {}  BY <2>1 DEF Iterates
  <2>2. CASE s # {}
    <3> DEFINE u == s \ {pick[s]}
    <3>1. u \in SUBSET s /\ u # s /\ pick[s] \in D  BY <2>2 DEF Picks
    <3>2. g[u] \in M  BY <1>1, <3>1
    <3>3. g[s] = step[<<pick[s], g[u]>>]  BY <2>2 DEF Iterates
    <3> QED BY <3>1, <3>2, <3>3 DEF StaysIn
  <2> QED BY <2>1, <2>2
<1>2. G = SUBSET D
  <2> HIDE DEF G
  <2>1. G \in SUBSET SUBSET D  BY DEF G
  <2> QED BY <1>1, <2>1, SubsetInduction
<1> QED BY <1>2 DEF Iterates

(* A function on S whose values are integers. *)
IntOn(f, S) == \A x \in S : f[x] \in Int

(* The recursion of a sum of f over S. *)
Sums(g, f, S) ==
  g = [s \in SUBSET S |->
         IF s = {} THEN 0
         ELSE f[CHOOSE x \in s : TRUE] + g[s \ {CHOOSE x \in s : TRUE}]]

(* The recursion of a sum has a solution with integer values. *)
LEMMA SumsExists ==
  ASSUME NEW S, IsFiniteSet(S), NEW f, IntOn(f, S)
  PROVE  \E g \in [SUBSET S -> Int] : Sums(g, f, S)
<1> DEFINE pick == [s \in SUBSET S |-> CHOOSE x \in s : TRUE]
           step == [p \in S \X Int |-> f[p[1]] + p[2]]
<1>1. Picks(pick, S)  BY DEF Picks
<1>2. \A x \in S, m \in Int : step[<<x, m>>] = f[x] + m  OBVIOUS
<1>4. \A s \in SUBSET S : pick[s] = CHOOSE x \in s : TRUE  OBVIOUS
<1> HIDE DEF pick, step
<1>3. ASSUME NEW x \in S, NEW m \in Int PROVE step[<<x, m>>] \in Int
  <2>1. step[<<x, m>>] = f[x] + m  BY <1>2
  <2>2. f[x] \in Int  BY DEF IntOn
  <2> QED BY <2>1, <2>2
<1>5. PICK g : Iterates(g, S, 0, step, pick)  BY <1>1, IteratesExists
<1>6. g \in [SUBSET S -> Int]
  <2> DEFINE M == Int
             zero == 0
  <2>0. zero \in M  OBVIOUS
  <2>1. StaysIn(step, S, M)  BY <1>3 DEF StaysIn
  <2>2. Iterates(g, S, zero, step, pick)  BY <1>5
  <2> HIDE DEF M, zero
  <2>3. g \in [SUBSET S -> M]  BY <1>1, <2>0, <2>1, <2>2, IteratesIn
  <2> QED BY <2>3 DEF M
<1>7. ASSUME NEW s \in SUBSET S
      PROVE  g[s] = IF s = {} THEN 0
                    ELSE f[CHOOSE x \in s : TRUE] + g[s \ {CHOOSE x \in s : TRUE}]
  <2>1. CASE s = {}  BY <2>1, <1>5 DEF Iterates
  <2>2. CASE s # {}
    <3>1. g[s] = step[<<pick[s], g[s \ {pick[s]}]>>]  BY <1>5, <2>2 DEF Iterates
    <3>2. pick[s] \in S /\ g[s \ {pick[s]}] \in Int  BY <1>1, <1>6, <2>2 DEF Picks
    <3>3. g[s] = f[pick[s]] + g[s \ {pick[s]}]  BY <3>1, <3>2, <1>2
    <3> QED BY <3>3, <1>4, <2>2
  <2> QED BY <2>1, <2>2
<1>8. Sums(g, f, S)  BY <1>6, <1>7 DEF Sums
<1> QED BY <1>6, <1>8

(* e and f have the same values on T. *)
Agree(e, f, T) == \A x \in T : e[x] = f[x]

(* The sum over T depends on the values on T only, not on the set the      *)
(* recursion is defined for.                                               *)
LEMMA SumsUnique ==
  ASSUME NEW S, IsFiniteSet(S), NEW T \in SUBSET S, NEW f, NEW e, Agree(e, f, T),
         NEW g, Sums(g, f, S), NEW h, Sums(h, e, T)
  PROVE  h[T] = g[T]
<1> DEFINE G == {s \in SUBSET T : g[s] = h[s]}
<1>1. ASSUME NEW s \in SUBSET T, \A u \in SUBSET s : u # s => u \in G
      PROVE  s \in G
  <2> DEFINE y == CHOOSE x \in s : TRUE
             u == s \ {y}
  <2>0. g[s] = (IF s = {} THEN 0 ELSE f[y] + g[u]) /\ h[s] = (IF s = {} THEN 0 ELSE e[y] + h[u])
        BY DEF Sums
  <2>1. CASE s = {}  BY <2>0, <2>1
  <2>2. CASE s # {}
    <3>1. y \in s  BY <2>2
    <3>2. u \in SUBSET s /\ u # s  BY <3>1
    <3>3. g[u] = h[u] /\ e[y] = f[y]  BY <1>1, <3>1, <3>2 DEF Agree
    <3> HIDE DEF y, u
    <3> QED BY <3>3, <2>0, <2>2
  <2> QED BY <2>1, <2>2
<1>2. G = SUBSET T
  <2> HIDE DEF G
  <2>1. G \in SUBSET SUBSET T /\ IsFiniteSet(T)  BY FS_Subset DEF G
  <2> QED BY <1>1, <2>1, SubsetInduction
<1> QED BY <1>2

(* SumFunctionOnSet is the value of that recursion. *)
LEMMA SumIsSums ==
  ASSUME NEW S, IsFiniteSet(S), NEW f, IntOn(f, S)
  PROVE  \E g \in [SUBSET S -> Int] : Sums(g, f, S) /\ SumFunctionOnSet(f, S) = g[S]
<1>1. PICK g0 \in [SUBSET S -> Int] : Sums(g0, f, S)  BY SumsExists
<1> DEFINE g == CHOOSE g : Sums(g, f, S)
<1>2. Sums(g, f, S)  BY <1>1
<1>3. SumFunctionOnSet(f, S) = g[S]
      BY DEF SumFunctionOnSet, FoldFunctionOnSet, MapThenFoldSet, Sums
<1> HIDE DEF g
<1>4. ASSUME NEW s \in SUBSET S PROVE g[s] = g0[s]
  <2> DEFINE h == [u \in SUBSET s |-> g0[u]]
  <2>1. Sums(h, f, s)
    <3>1. \A u \in SUBSET s : u # {} => u \ {CHOOSE x \in u : TRUE} \in SUBSET s  OBVIOUS
    <3>2. \A u \in SUBSET s : h[u] = IF u = {} THEN 0
            ELSE f[CHOOSE x \in u : TRUE] + h[u \ {CHOOSE x \in u : TRUE}]
          BY <1>1, <3>1 DEF Sums
    <3>3. h = [u \in SUBSET s |-> h[u]]  OBVIOUS
    <3> HIDE DEF h
    <3> QED BY <3>2, <3>3 DEF Sums
  <2>2. h[s] = g0[s] OBVIOUS
  <2> HIDE DEF h
  <2>3. Agree(f, f, s)  BY DEF Agree
  <2>4. h[s] = g[s]  BY <1>2, <2>1, <2>3, SumsUnique
  <2> QED BY <2>2, <2>4
<1>5. g \in [SUBSET S -> Int]
  <2>1. g = [s \in SUBSET S |-> g[s]]  BY <1>2 DEF Sums
  <2>2. \A s \in SUBSET S : g[s] \in Int  BY <1>4
  <2> QED BY <2>1, <2>2
<1> QED BY <1>2, <1>3, <1>5

(* Sums of functions with integer values over finite sets. *)
LEMMA SumEmpty ==
  ASSUME NEW f PROVE SumFunctionOnSet(f, {}) = 0
<1>1. PICK g \in [SUBSET {} -> Int] : Sums(g, f, {}) /\ SumFunctionOnSet(f, {}) = g[{}]
      BY SumIsSums, FS_EmptySet DEF IntOn
<1> QED BY <1>1 DEF Sums

(* A sum of integers is an integer. *)
LEMMA SumInt ==
  ASSUME NEW S, IsFiniteSet(S), NEW f, IntOn(f, S)
  PROVE  SumFunctionOnSet(f, S) \in Int
<1>1. PICK g \in [SUBSET S -> Int] : Sums(g, f, S) /\ SumFunctionOnSet(f, S) = g[S]
      BY SumIsSums
<1> QED BY <1>1

(* Only the values on the set matter. *)
LEMMA SumSame ==
  ASSUME NEW S, IsFiniteSet(S), NEW f, IntOn(f, S), NEW e, Agree(e, f, S)
  PROVE  SumFunctionOnSet(e, S) = SumFunctionOnSet(f, S)
<1>1. PICK g \in [SUBSET S -> Int] : Sums(g, f, S) /\ SumFunctionOnSet(f, S) = g[S]
      BY SumIsSums
<1>2. IntOn(e, S)  BY DEF IntOn, Agree
<1>3. PICK h \in [SUBSET S -> Int] : Sums(h, e, S) /\ SumFunctionOnSet(e, S) = h[S]
      BY <1>2, SumIsSums
<1>4. h[S] = g[S]  BY <1>1, <1>3, SumsUnique
<1> QED BY <1>1, <1>3, <1>4

(* The element that the recursion takes out first. *)
LEMMA SumChosen ==
  ASSUME NEW S, IsFiniteSet(S), S # {}, NEW f, IntOn(f, S)
  PROVE  LET x == CHOOSE x \in S : TRUE
         IN  SumFunctionOnSet(f, S) = f[x] + SumFunctionOnSet(f, S \ {x})
<1> DEFINE x == CHOOSE y \in S : TRUE
           T == S \ {x}
<1>1. PICK g \in [SUBSET S -> Int] : Sums(g, f, S) /\ SumFunctionOnSet(f, S) = g[S]
      BY SumIsSums
<1>2. IsFiniteSet(T) /\ T \in SUBSET S /\ IntOn(f, T) /\ Agree(f, f, T)
      BY FS_Subset DEF IntOn, Agree
<1>3. g[S] = f[x] + g[T]  BY <1>1 DEF Sums
<1> HIDE DEF T
<1>4. PICK h \in [SUBSET T -> Int] : Sums(h, f, T) /\ SumFunctionOnSet(f, T) = h[T]
      BY <1>2, SumIsSums
<1>5. h[T] = g[T]  BY <1>1, <1>2, <1>4, SumsUnique
<1> QED BY <1>1, <1>3, <1>4, <1>5 DEF T

(* Any element of the set can be taken out of a sum. *)
LEMMA SumRemove ==
  ASSUME NEW S, IsFiniteSet(S), NEW f, IntOn(f, S), NEW x \in S
  PROVE  SumFunctionOnSet(f, S) = f[x] + SumFunctionOnSet(f, S \ {x})
<1> DEFINE F(s) == SumFunctionOnSet(f, s)
           G == {s \in SUBSET S : \A y \in s : F(s) = f[y] + F(s \ {y})}
<1>0. \A s \in SUBSET S : IsFiniteSet(s) /\ IntOn(f, s)  BY FS_Subset DEF IntOn
<1>1. ASSUME NEW s \in SUBSET S, \A u \in SUBSET s : u # s => u \in G
      PROVE  s \in G
  <2> SUFFICES ASSUME NEW y \in s PROVE F(s) = f[y] + F(s \ {y})  OBVIOUS
  <2> DEFINE z == CHOOSE x_1 \in s : TRUE
  <2>0. s # {} /\ z \in s  OBVIOUS
  <2>1. F(s) = f[z] + F(s \ {z})  BY <1>0, <2>0, SumChosen
  <2> HIDE DEF z
  <2>2. CASE y = z  BY <2>1, <2>2
  <2>3. CASE y # z
    <3> DEFINE u == s \ {z}
               v == s \ {y}
               w == s \ {y, z}
    <3>1. u \in SUBSET s /\ u # s /\ y \in u /\ v \in SUBSET s /\ v # s /\ z \in v  BY <2>0, <2>3
    <3>2. u \ {y} = w /\ v \ {z} = w /\ w \in SUBSET S  OBVIOUS
    <3>3. F(u) = f[y] + F(w) /\ F(v) = f[z] + F(w)  BY <1>1, <3>1, <3>2
    <3>4. f[y] \in Int /\ f[z] \in Int /\ F(w) \in Int  BY <1>0, <2>0, <3>2, SumInt DEF IntOn
    <3> HIDE DEF u, v, w, F
    <3>5. F(s) = f[z] + F(u)  BY <2>1 DEF u
    <3>6. F(s) = f[y] + F(v)  BY <3>3, <3>4, <3>5
    <3> QED BY <3>6 DEF v
  <2> QED BY <2>2, <2>3
<1>2. G = SUBSET S
  <2> HIDE DEF G
  <2>1. G \in SUBSET SUBSET S  BY DEF G
  <2> QED BY <1>1, <2>1, SubsetInduction
<1> QED BY <1>2

(* A sum over one element more. *)
LEMMA SumAdd ==
  ASSUME NEW S, IsFiniteSet(S), NEW f, IntOn(f, S), NEW x, x \notin S, f[x] \in Int
  PROVE  SumFunctionOnSet(f, S \cup {x}) = SumFunctionOnSet(f, S) + f[x]
<1> DEFINE T == S \cup {x}
<1>1. IsFiniteSet(T) /\ IntOn(f, T) /\ x \in T /\ T \ {x} = S  BY FS_AddElement DEF IntOn
<1> HIDE DEF T
<1>2. SumFunctionOnSet(f, T) = f[x] + SumFunctionOnSet(f, S)  BY <1>1, SumRemove
<1>3. SumFunctionOnSet(f, S) \in Int  BY SumInt
<1> QED BY <1>2, <1>3 DEF T

(* A function changed at one element of the set. *)
AgreeBut(e, f, S, x) == \A y \in S : y # x => e[y] = f[y]

(* The sum changes by as much as the function does at that element. *)
LEMMA SumChange ==
  ASSUME NEW S, IsFiniteSet(S), NEW f, IntOn(f, S), NEW x \in S, NEW e, e[x] \in Int,
         AgreeBut(e, f, S, x)
  PROVE  SumFunctionOnSet(e, S) = SumFunctionOnSet(f, S) - f[x] + e[x]
<1> DEFINE T == S \ {x}
<1>1. IsFiniteSet(T) /\ IntOn(f, T) /\ IntOn(e, S) /\ f[x] \in Int
      BY FS_Subset DEF IntOn, AgreeBut
<1>2. Agree(e, f, T)  BY DEF Agree, AgreeBut
<1> HIDE DEF T
<1>3. SumFunctionOnSet(e, T) = SumFunctionOnSet(f, T)  BY <1>1, <1>2, SumSame
<1>4. SumFunctionOnSet(f, T) \in Int  BY <1>1, SumInt
<1>5. SumFunctionOnSet(f, S) = f[x] + SumFunctionOnSet(f, T)
      /\ SumFunctionOnSet(e, S) = e[x] + SumFunctionOnSet(e, T)  BY <1>1, SumRemove DEF T
<1> QED BY <1>1, <1>3, <1>4, <1>5

(* A sum of naturals is a natural. *)
LEMMA SumNat ==
  ASSUME NEW S, IsFiniteSet(S), NEW f, \A x \in S : f[x] \in Nat
  PROVE  SumFunctionOnSet(f, S) \in Nat
<1> DEFINE G == {s \in SUBSET S : SumFunctionOnSet(f, s) \in Nat}
<1>1. ASSUME NEW s \in SUBSET S, \A u \in SUBSET s : u # s => u \in G
      PROVE  s \in G
  <2>1. CASE s = {}  BY <2>1, SumEmpty
  <2>2. CASE s # {}
    <3>1. PICK y \in s : TRUE  BY <2>2
    <3>2. IsFiniteSet(s) /\ IntOn(f, s) /\ f[y] \in Nat  BY FS_Subset DEF IntOn
    <3>3. SumFunctionOnSet(f, s) = f[y] + SumFunctionOnSet(f, s \ {y})  BY <3>2, SumRemove
    <3>4. SumFunctionOnSet(f, s \ {y}) \in Nat  BY <1>1, <3>1
    <3> QED BY <3>2, <3>3, <3>4
  <2> QED BY <2>1, <2>2
<1>2. G = SUBSET S
  <2> HIDE DEF G
  <2>1. G \in SUBSET SUBSET S  BY DEF G
  <2> QED BY <1>1, <2>1, SubsetInduction
<1> QED BY <1>2

(* A sum of zeros is zero. *)
LEMMA SumZero ==
  ASSUME NEW S, IsFiniteSet(S), NEW f, \A x \in S : f[x] = 0
  PROVE  SumFunctionOnSet(f, S) = 0
<1> DEFINE G == {s \in SUBSET S : SumFunctionOnSet(f, s) = 0}
<1>1. ASSUME NEW s \in SUBSET S, \A u \in SUBSET s : u # s => u \in G
      PROVE  s \in G
  <2>1. CASE s = {}  BY <2>1, SumEmpty
  <2>2. CASE s # {}
    <3>1. PICK y \in s : TRUE  BY <2>2
    <3>2. IsFiniteSet(s) /\ IntOn(f, s) /\ f[y] = 0  BY FS_Subset DEF IntOn
    <3>3. SumFunctionOnSet(f, s) = f[y] + SumFunctionOnSet(f, s \ {y})  BY <3>2, SumRemove
    <3>4. SumFunctionOnSet(f, s \ {y}) = 0  BY <1>1, <3>1
    <3> QED BY <3>2, <3>3, <3>4
  <2> QED BY <2>1, <2>2
<1>2. G = SUBSET S
  <2> HIDE DEF G
  <2>1. G \in SUBSET SUBSET S  BY DEF G
  <2> QED BY <1>1, <2>1, SubsetInduction
<1> QED BY <1>2

(* A function with a finite domain and integer values. *)
IntFunction(f) == IsFiniteSet(DOMAIN f) /\ IntOn(f, DOMAIN f)

(* The sum of such a function is an integer. *)
LEMMA SumFunctionInt ==
  ASSUME NEW f, IntFunction(f)
  PROVE  SumFunction(f) \in Int
BY SumInt DEF SumFunction, IntFunction

(* It is a natural number when the values are. *)
LEMMA SumFunctionNat ==
  ASSUME NEW f, IsFiniteSet(DOMAIN f), \A x \in DOMAIN f : f[x] \in Nat
  PROVE  SumFunction(f) \in Nat
BY SumNat DEF SumFunction

(* Functions with the same domain and the same values have the same sum. *)
LEMMA SumFunctionSame ==
  ASSUME NEW f, IntFunction(f), NEW g, DOMAIN g = DOMAIN f, Agree(g, f, DOMAIN f)
  PROVE  SumFunction(g) = SumFunction(f)
BY SumSame DEF SumFunction, IntFunction

(* f has one element more than g. *)
LEMMA SumFunctionWithout ==
  ASSUME NEW f, IntFunction(f), NEW x \in DOMAIN f, NEW g, DOMAIN g = DOMAIN f \ {x},
         Agree(g, f, DOMAIN g)
  PROVE  IntFunction(g) /\ SumFunction(f) = SumFunction(g) + f[x]
<1>1. IsFiniteSet(DOMAIN g) /\ IntOn(f, DOMAIN g) /\ IntOn(g, DOMAIN g) /\ f[x] \in Int
      BY FS_Subset DEF IntFunction, IntOn, Agree
<1>2. SumFunctionOnSet(f, DOMAIN f) = f[x] + SumFunctionOnSet(f, DOMAIN g)
      BY SumRemove DEF IntFunction
<1>3. SumFunctionOnSet(g, DOMAIN g) = SumFunctionOnSet(f, DOMAIN g)  BY <1>1, SumSame
<1>4. SumFunctionOnSet(f, DOMAIN g) \in Int  BY <1>1, SumInt
<1> QED BY <1>1, <1>2, <1>3, <1>4 DEF SumFunction, IntFunction
-----------------------------------------------------------------------------
(* Induction up to n. *)
LEMMA UpToInduction ==
  ASSUME NEW n \in Nat, NEW G, 0 \in G, \A i \in 1..n : i - 1 \in G => i \in G
  PROVE  \A i \in 0..n : i \in G
<1> DEFINE Bad == {i \in Nat : i <= n /\ i \notin G}
           R == OpToRel(<, Nat)
<1>1. SUFFICES ASSUME Bad # {} PROVE FALSE  OBVIOUS
<1>2. IsWellFoundedOn(R, Nat)  BY NatLessThanWellFounded
<1>3. PICK i \in Bad : \A j \in Bad : ~(<<j, i>> \in R)
  <2>1. Bad \subseteq Nat  OBVIOUS
  <2> HIDE DEF Bad, R
  <2> QED BY <1>1, <1>2, <2>1, WFMin
<1>4. \A j \in Bad : ~(j < i)  BY <1>3 DEF OpToRel
<1>5. i # 0 /\ i - 1 \in Nat /\ i - 1 < i /\ i - 1 <= n /\ i \in 1..n  OBVIOUS
<1> QED BY <1>4, <1>5

(* Min of a set of natural numbers is its least element. *)
LEMMA MinIn ==
  ASSUME NEW S \in SUBSET Nat, S # {}
  PROVE  Min(S) \in S /\ \A y \in S : Min(S) <= y
<1> DEFINE R == OpToRel(<, Nat)
<1>1. IsWellFoundedOn(R, Nat)  BY NatLessThanWellFounded
<1>2. PICK x \in S : \A y \in S : ~(<<y, x>> \in R)
  <2> HIDE DEF R
  <2> QED BY <1>1, WFMin
<1>3. ASSUME NEW y \in S PROVE x <= y
  <2>1. ~(y < x) /\ x \in Nat /\ y \in Nat  BY <1>2 DEF OpToRel
  <2> QED BY <2>1
<1> QED BY <1>3 DEF Min

(* Max of a set of positions is its greatest element. *)
LEMMA MaxIn ==
  ASSUME NEW n \in Nat, NEW S \in SUBSET (1..n), S # {}
  PROVE  Max(S) \in S /\ \A y \in S : Max(S) >= y
<1> DEFINE Top(T) == \E x \in T : \A y \in T : x >= y
           G == {T \in SUBSET S : T # {} => Top(T)}
<1>1. ASSUME NEW T \in SUBSET S, \A U \in SUBSET T : U # T => U \in G
      PROVE  T \in G
  <2> SUFFICES ASSUME T # {} PROVE Top(T)  OBVIOUS
  <2>1. PICK x \in T : TRUE  OBVIOUS
  <2>2. CASE T = {x}  BY <2>2
  <2>3. CASE T # {x}
    <3> DEFINE U == T \ {x}
    <3>1. U \in SUBSET T /\ U # T /\ U # {}  BY <2>1, <2>3
    <3>2. PICK z \in U : \A y \in U : z >= y  BY <1>1, <3>1
    <3>3. x \in Int /\ z \in Int /\ \A y \in T : y \in Int  OBVIOUS
    <3>4. CASE z >= x  BY <3>2, <3>4
    <3>5. CASE x > z  BY <3>2, <3>3, <3>5
    <3> QED BY <3>3, <3>4, <3>5
  <2> QED BY <2>2, <2>3
<1>2. G = SUBSET S
  <2> HIDE DEF G
  <2>1. G \in SUBSET SUBSET S  BY DEF G
  <2>2. IsFiniteSet(1..n)  BY FS_Interval
  <2>3. IsFiniteSet(S)  BY <2>2, FS_Subset
  <2> QED BY <1>1, <2>1, <2>3, SubsetInduction
<1>3. Top(S)  BY <1>2
<1> QED BY <1>3 DEF Max

(* The greatest of the first i positions, and the positions before it. *)
LEMMA MaxUpTo ==
  ASSUME NEW i \in Nat, i # 0
  PROVE  Max(1..i) = i /\ 1..i # {} /\ (1..i) \ {Max(1..i)} = 1..(i - 1)
<1> DEFINE S == 1..i
<1>1. S \in SUBSET (1..i) /\ S # {}  BY i \in 1..i
<1> HIDE DEF S
<1>2. Max(S) \in S /\ \A y \in S : Max(S) >= y  BY <1>1, MaxIn
<1> QED BY <1>2 DEF S

(* g follows the recursion of FoldLeft over n elements. *)
FoldsLeft(g, n, base, step) ==
  \A s \in SUBSET (1..n) :
    g[s] = IF s = {} THEN base ELSE step[<<Max(s), g[s \ {Max(s)}]>>]

(* The recursion of FoldLeft over a sequence of length n has a solution,   *)
(* whenever its step, as a function of position and value, stays in a set. *)
LEMMA FoldExists ==
  ASSUME NEW n \in Nat, NEW M, NEW base \in M, NEW step, StaysIn(step, 1..n, M)
  PROVE  \E g \in [SUBSET (1..n) -> M] : FoldsLeft(g, n, base, step)
<1> DEFINE D == 1..n
           pick == [s \in SUBSET D |-> Max(s)]
<1>1. IsFiniteSet(D)  BY FS_Interval
<1>2. Picks(pick, D)  BY MaxIn DEF Picks
<1>3. \A s \in SUBSET D : pick[s] = Max(s)  OBVIOUS
<1> HIDE DEF pick, D
<1>4. PICK g : Iterates(g, D, base, step, pick)  BY <1>1, <1>2, IteratesExists
<1>5. StaysIn(step, D, M)  BY DEF D
<1>6. g \in [SUBSET D -> M]  BY <1>1, <1>2, <1>4, <1>5, IteratesIn
<1>7. \A s \in SUBSET D : g[s] = IF s = {} THEN base ELSE step[<<Max(s), g[s \ {Max(s)}]>>]
      BY <1>3, <1>4 DEF Iterates
<1> QED BY <1>6, <1>7 DEF D, FoldsLeft

(* run follows a recursion over the positions 0..n. *)
RunsBy(run, n, base, step) ==
  \A i \in 0..n : run[i] = IF i = 0 THEN base ELSE step[<<i, run[i - 1]>>]

(* There is a function that does, when step stays in M. *)
LEMMA RunExists ==
  ASSUME NEW n \in Nat, NEW M, NEW base \in M, NEW step, StaysIn(step, 1..n, M)
  PROVE  \E run \in [0..n -> M] : RunsBy(run, n, base, step)
<1>1. PICK g \in [SUBSET (1..n) -> M] : FoldsLeft(g, n, base, step)  BY FoldExists
<1> DEFINE run == [i \in 0..n |-> g[1..i]]
<1>2. run \in [0..n -> M]  OBVIOUS
<1>3. ASSUME NEW i \in 0..n
      PROVE  run[i] = IF i = 0 THEN base ELSE step[<<i, run[i - 1]>>]
  <2>1. CASE i = 0
    <3>1. 1..0 = {}  OBVIOUS
    <3>2. g[{}] = base  BY <1>1 DEF FoldsLeft
    <3> QED BY <2>1, <3>1, <3>2
  <2>2. CASE i # 0
    <3> DEFINE s == 1..i
    <3>0. i \in Nat  OBVIOUS
    <3>1. Max(s) = i /\ s # {} /\ s \ {Max(s)} = 1..(i - 1)  BY <2>2, <3>0, MaxUpTo
    <3>2. s \in SUBSET (1..n) /\ i - 1 \in 0..n  BY <2>2
    <3>3. run[i] = g[s] /\ run[i - 1] = g[1..(i - 1)]  BY <3>2
    <3> HIDE DEF s, run
    <3>4. g[s] = step[<<Max(s), g[s \ {Max(s)}]>>]  BY <1>1, <3>1, <3>2 DEF FoldsLeft
    <3> QED BY <2>2, <3>1, <3>3, <3>4
  <2> QED BY <2>1, <2>2
<1> QED BY <1>2, <1>3 DEF RunsBy

(* f is a function on 0..n; f and g start alike and go on alike. *)
RunsTo(f, n) == f = [i \in 0..n |-> f[i]]
RunAlike(f, g, n) ==
  f[0] = g[0] /\ \A i \in 1..n : f[i - 1] = g[i - 1] => f[i] = g[i]

(* Then they are the same. *)
LEMMA RunUnique ==
  ASSUME NEW n \in Nat, NEW f, RunsTo(f, n), NEW g, RunsTo(g, n), RunAlike(f, g, n)
  PROVE  f = g
<1> DEFINE G == {i \in 0..n : f[i] = g[i]}
<1>1. 0 \in G  BY DEF RunAlike
<1>2. ASSUME NEW i \in 1..n, i - 1 \in G PROVE i \in G
  <2>1. i \in 0..n /\ f[i - 1] = g[i - 1]  BY <1>2
  <2> QED BY <2>1 DEF RunAlike
<1> HIDE DEF G
<1>3. \A i \in 0..n : i \in G  BY <1>1, <1>2, UpToInduction
<1>4. \A i \in 0..n : f[i] = g[i]  BY <1>3 DEF G
<1> QED BY <1>4 DEF RunsTo
-----------------------------------------------------------------------------
(* A function on 0..n that starts in M and whose steps stay there. *)
LEMMA RunStays ==
  ASSUME NEW n \in Nat, NEW M, NEW f, RunsTo(f, n), f[0] \in M,
         \A i \in 1..n : f[i - 1] \in M => f[i] \in M
  PROVE  f \in [0..n -> M]
<1> DEFINE G == {i \in 0..n : f[i] \in M}
<1>1. 0 \in G  OBVIOUS
<1>2. ASSUME NEW i \in 1..n, i - 1 \in G PROVE i \in G
  <2>1. i \in 0..n /\ f[i - 1] \in M  BY <1>2
  <2> QED BY <2>1
<1>3. \A i \in 1..n : i - 1 \in G => i \in G  BY <1>2
<1> HIDE DEF G
<1>4. \A i \in 0..n : i \in G  BY <1>1, <1>3, UpToInduction
<1> QED BY <1>4 DEF G, RunsTo

(* The first n elements of a sequence. *)
LEMMA Prefix ==
  ASSUME NEW S, NEW s \in Seq(S), NEW n \in 0..Len(s)
  PROVE  /\ SubSeq(s, 1, n) \in Seq(S) /\ Len(SubSeq(s, 1, n)) = n
         /\ \A i \in 1..n : SubSeq(s, 1, n)[i] = s[i]
OBVIOUS

(* The first Len(s) elements are all. *)
LEMMA PrefixWhole ==
  ASSUME NEW S, NEW s \in Seq(S)
  PROVE  SubSeq(s, 1, Len(s)) = s
OBVIOUS

(* Appending does not change what is before. *)
LEMMA PrefixAppend ==
  ASSUME NEW S, NEW s \in Seq(S), NEW x \in S, NEW n \in 0..Len(s)
  PROVE  SubSeq(Append(s, x), 1, n) = SubSeq(s, 1, n)
OBVIOUS

(* The first n of the first m elements. *)
LEMMA PrefixPrefix ==
  ASSUME NEW S, NEW s \in Seq(S), NEW m \in 0..Len(s), NEW n \in 0..m
  PROVE  SubSeq(SubSeq(s, 1, m), 1, n) = SubSeq(s, 1, n)
OBVIOUS

(* The elements of a sequence are at its positions. *)
LEMMA InRange ==
  ASSUME NEW S, NEW s \in Seq(S), NEW y
  PROVE  y \in Range(s) <=> \E i \in 1..Len(s) : y = s[i]
<1>1. DOMAIN s = 1..Len(s)  OBVIOUS
<1> QED BY <1>1 DEF Range

(* The elements after Append. *)
LEMMA RangeAppend ==
  ASSUME NEW S, NEW s \in Seq(S), NEW x \in S
  PROVE  Range(Append(s, x)) = Range(s) \cup {x}
<1> DEFINE a == Append(s, x)
<1>1. /\ a \in Seq(S) /\ Len(a) = Len(s) + 1 /\ a[Len(s) + 1] = x
      /\ \A i \in 1..Len(s) : a[i] = s[i]
      /\ Len(s) \in Nat
      OBVIOUS
<1> HIDE DEF a
<1>2. ASSUME NEW y PROVE y \in Range(a) <=> y \in Range(s) \cup {x}
  <2>1. y \in Range(a) <=> \E i \in 1..Len(a) : y = a[i]  BY <1>1, InRange
  <2>2. y \in Range(s) <=> \E i \in 1..Len(s) : y = s[i]  BY InRange
  <2>3. \A i : i \in 1..Len(a) <=> i \in 1..Len(s) \/ i = Len(s) + 1  BY <1>1
  <2> QED BY <1>1, <2>1, <2>2, <2>3
<1> QED BY <1>2 DEF a

(* The elements of a concatenation. *)
LEMMA RangeConcat ==
  ASSUME NEW S, NEW s \in Seq(S), NEW t \in Seq(S)
  PROVE  /\ s \o t \in Seq(S) /\ Range(s \o t) = Range(s) \cup Range(t)
<1> DEFINE a == s \o t
<1>1. /\ a \in Seq(S) /\ Len(a) = Len(s) + Len(t)
      /\ \A i \in 1..Len(s) : a[i] = s[i]
      /\ \A i \in 1..Len(t) : a[Len(s) + i] = t[i]
      /\ Len(s) \in Nat /\ Len(t) \in Nat
      OBVIOUS
<1> HIDE DEF a
<1>2. ASSUME NEW y PROVE y \in Range(a) <=> y \in Range(s) \cup Range(t)
  <2>1. y \in Range(a) <=> \E i \in 1..Len(a) : y = a[i]  BY <1>1, InRange
  <2>2. y \in Range(s) <=> \E i \in 1..Len(s) : y = s[i]  BY InRange
  <2>3. y \in Range(t) <=> \E i \in 1..Len(t) : y = t[i]  BY InRange
  <2>4. ASSUME NEW i \in 1..Len(a), y = a[i] PROVE y \in Range(s) \cup Range(t)
    <3>1. CASE i <= Len(s)  BY <1>1, <2>2, <2>4, <3>1
    <3>2. CASE i > Len(s)
      <4>1. i - Len(s) \in 1..Len(t) /\ Len(s) + (i - Len(s)) = i  BY <1>1, <3>2
      <4>2. y = t[i - Len(s)]  BY <1>1, <2>4, <4>1
      <4> QED BY <2>3, <4>1, <4>2
    <3> QED BY <1>1, <3>1, <3>2
  <2>5. ASSUME NEW i \in 1..Len(s), y = s[i] PROVE y \in Range(a)
    <3>1. i \in 1..Len(a) /\ y = a[i]  BY <1>1, <2>5
    <3> QED BY <2>1, <3>1
  <2>6. ASSUME NEW i \in 1..Len(t), y = t[i] PROVE y \in Range(a)
    <3>1. Len(s) + i \in 1..Len(a) /\ y = a[Len(s) + i]  BY <1>1, <2>6
    <3> QED BY <2>1, <3>1
  <2> QED BY <2>1, <2>2, <2>3, <2>4, <2>5, <2>6
<1> QED BY <1>1, <1>2 DEF a
=============================================================================
