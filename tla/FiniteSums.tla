----------------------------- MODULE FiniteSums -----------------------------
(***************************************************************************)
(* Sums over finite sets.  SumFunctionOnSet of the community modules takes *)
(* the elements of a set in the order in which CHOOSE picks them; these    *)
(* facts let a proof take any of them.  Induction over finite sets and     *)
(* over numbers is stated for the set of those for which something holds   *)
(* instead of a predicate, as the existence of a minimal counterexample.   *)
(***************************************************************************)
EXTENDS Functions, Integers, FiniteSets, FiniteSetTheorems, TLAPS

Pick(S) == CHOOSE x \in S : TRUE

(* What holds of a set whenever it holds of all its proper subsets holds of *)
(* a finite set.                                                            *)
LEMMA SubsetInduction ==
  ASSUME NEW S, IsFiniteSet(S), NEW G,
         \A T \in SUBSET S : (\A U \in SUBSET T : U # T => U \in G) => T \in G
  PROVE  S \in G
<1> DEFINE Bad == (SUBSET S) \ G
<1>1. SUFFICES ASSUME S \notin G PROVE FALSE
  OBVIOUS
<1>2. /\ FiniteSubsetsOf(S) = SUBSET S
      /\ IsWellFoundedOn(StrictSubsetOrdering(S), SUBSET S)
  BY FS_FiniteSubsetsOfFinite, FS_StrictSubsetOrderingWellFounded
<1>3. Bad \subseteq SUBSET S /\ Bad # {}
  BY <1>1
<1>4. \E T \in Bad : \A U \in Bad : ~ (<<U, T>> \in StrictSubsetOrdering(S))
  <2> HIDE DEF Bad
  <2> QED BY <1>2, <1>3, WFMin
<1>5. PICK T \in Bad : \A U \in Bad : <<U, T>> \notin StrictSubsetOrdering(S)
  BY <1>4
<1>6. \A U \in SUBSET T : U # T => U \in G
  BY <1>5 DEF StrictSubsetOrdering
<1> QED BY <1>5, <1>6

(* What holds of a number whenever it holds of all smaller ones holds of   *)
(* every number.                                                           *)
LEMMA StrongInduction ==
  ASSUME NEW P, \A n \in Nat : (\A m \in 0 .. n - 1 : m \in P) => n \in P
  PROVE  \A n \in Nat : n \in P
<1> SUFFICES ASSUME NEW n \in Nat PROVE n \in P
  OBVIOUS
<1> DEFINE S == 0 .. n
           G == {T \in SUBSET S : \A k \in S : T = 0 .. k => k \in P}
<1>1. IsFiniteSet(S)
  BY FS_Interval
<1>2. ASSUME NEW T \in SUBSET S, \A U \in SUBSET T : U # T => U \in G
      PROVE  T \in G
  <2> SUFFICES ASSUME NEW k \in S, T = 0 .. k PROVE k \in P
    OBVIOUS
  <2>1. ASSUME NEW m \in 0 .. k - 1 PROVE m \in P
    <3>1. 0 .. m \in SUBSET T /\ 0 .. m # T
      <4>1. k \in T /\ k \notin 0 .. m
        OBVIOUS
      <4> QED BY <4>1
    <3>2. m \in S
      OBVIOUS
    <3>3. 0 .. m \in G
      <4> HIDE DEF G, S
      <4> QED BY <1>2, <3>1
    <3> QED BY <3>2, <3>3
  <2> QED BY <2>1
<1> HIDE DEF G, S
<1>3. S \in G
  BY <1>1, <1>2, SubsetInduction
<1> QED BY <1>3 DEF G, S

(* h is the sum of f over the subsets of S. *)
Sums(h, f, S) ==
  h = [s \in SUBSET S |-> IF s = {} THEN 0 ELSE f[Pick(s)] + h[s \ {Pick(s)}]]

LEMMA PickIn == ASSUME NEW S, S # {} PROVE Pick(S) \in S
  BY DEF Pick

LEMMA SumsAgree ==
  ASSUME NEW S, IsFiniteSet(S), NEW f, NEW A, NEW B, S \subseteq A, S \subseteq B, NEW g, NEW h, Sums(g, f, A), Sums(h, f, B)
  PROVE  g[S] = h[S]
<1> DEFINE G == {T \in SUBSET S : g[T] = h[T]}
<1>1. ASSUME NEW T \in SUBSET S, \A U \in SUBSET T : U # T => U \in G
      PROVE  T \in G
  <2>1. CASE T = {}
    BY <2>1 DEF Sums
  <2>2. CASE T # {}
    <3>1. T \ {Pick(T)} \in G
      BY <1>1, <2>2, PickIn
    <3>2. g[T] = f[Pick(T)] + g[T \ {Pick(T)}] /\ h[T] = f[Pick(T)] + h[T \ {Pick(T)}]
      BY <2>2 DEF Sums
    <3> QED BY <3>1, <3>2
  <2> QED BY <2>1, <2>2
<1> HIDE DEF G
<1>2. S \in G
  BY <1>1, SubsetInduction
<1> QED BY <1>2 DEF G

LEMMA SumsExist ==
  ASSUME NEW S, IsFiniteSet(S), NEW f
  PROVE  \E h : Sums(h, f, S)
<1> DEFINE G == {T \in SUBSET S : \E h : Sums(h, f, T)}
           H(U) == CHOOSE h : Sums(h, f, U)
<1>1. ASSUME NEW T \in SUBSET S, \A U \in SUBSET T : U # T => U \in G
      PROVE  T \in G
  <2> DEFINE Rest(s) == s \ {Pick(s)}
             h == [s \in SUBSET T |-> IF s = {} THEN 0
                                      ELSE f[Pick(s)] + H(Rest(s))[Rest(s)]]
  <2>1. \A U \in SUBSET T : U # T => Sums(H(U), f, U)
    BY <1>1
  <2> HIDE DEF H
  <2>2. ASSUME NEW s \in SUBSET T, s # {}
        PROVE  h[Rest(s)] = H(Rest(s))[Rest(s)]
    <3> DEFINE u == Rest(s)
    <3>1. u \in SUBSET T /\ u # T /\ Sums(H(u), f, u)
      BY <2>1, <2>2, PickIn
    <3>2. CASE u = {}
      BY <3>1, <3>2 DEF Sums
    <3>3. CASE u # {}
      <4>1. Rest(u) \in SUBSET T /\ Rest(u) # T /\ Rest(u) \subseteq u
        BY <3>1, <3>3, PickIn
      <4>2. Sums(H(Rest(u)), f, Rest(u))
        BY <2>1, <4>1
      <4>3. IsFiniteSet(Rest(u))
        BY <4>1, FS_Subset
      <4>4. H(Rest(u))[Rest(u)] = H(u)[Rest(u)]
        BY <3>1, <4>1, <4>2, <4>3, SumsAgree
      <4>5. H(u)[u] = f[Pick(u)] + H(u)[Rest(u)]
        BY <3>1, <3>3 DEF Sums
      <4> QED BY <3>1, <3>3, <4>4, <4>5
    <3> QED BY <3>2, <3>3
  <2>3. Sums(h, f, T)
    BY <2>2 DEF Sums
  <2> QED BY <2>3
<1> HIDE DEF G
<1>2. S \in G
  BY <1>1, SubsetInduction
<1> QED BY <1>2 DEF G

LEMMA SumsChosen ==
  ASSUME NEW S, NEW f
  PROVE  SumFunctionOnSet(f, S) = (CHOOSE h : Sums(h, f, S))[S]
BY DEF SumFunctionOnSet, FoldFunctionOnSet, MapThenFoldSet, Sums, Pick

LEMMA SumIs ==
  ASSUME NEW S, IsFiniteSet(S), NEW f, NEW A, S \subseteq A, NEW h, Sums(h, f, A)
  PROVE  SumFunctionOnSet(f, S) = h[S]
<1>1. Sums(CHOOSE g : Sums(g, f, S), f, S)
  BY SumsExist
<1> QED BY <1>1, SumsAgree, SumsChosen

---------------------------------------------------------------------------
(* The facts the other proofs use. *)

LEMMA SumEmpty == ASSUME NEW f PROVE SumFunctionOnSet(f, {}) = 0
<1>1. IsFiniteSet({})
  BY FS_EmptySet
<1>2. PICK h : Sums(h, f, {})
  BY <1>1, SumsExist
<1>3. h[{}] = 0
  BY <1>2 DEF Sums
<1>4. SumFunctionOnSet(f, {}) = h[{}]
  BY <1>1, <1>2, SumIs
<1> QED BY <1>3, <1>4

(* The sum takes out the element that CHOOSE picks... *)
LEMMA SumPick ==
  ASSUME NEW S, IsFiniteSet(S), NEW f, S # {}
  PROVE  SumFunctionOnSet(f, S) = f[Pick(S)] + SumFunctionOnSet(f, S \ {Pick(S)})
<1>1. PICK h : Sums(h, f, S)
  BY SumsExist
<1>2. IsFiniteSet(S \ {Pick(S)})
  BY FS_RemoveElement
<1>3. SumFunctionOnSet(f, S \ {Pick(S)}) = h[S \ {Pick(S)}]
  BY <1>1, <1>2, SumIs
<1>4. SumFunctionOnSet(f, S) = h[S]
  BY <1>1, SumIs
<1> QED BY <1>1, <1>3, <1>4 DEF Sums

LEMMA SumInt ==
  ASSUME NEW S, IsFiniteSet(S), NEW f, \A x \in S : f[x] \in Int
  PROVE  SumFunctionOnSet(f, S) \in Int
<1> DEFINE G == {T \in SUBSET S : SumFunctionOnSet(f, T) \in Int}
<1>1. ASSUME NEW T \in SUBSET S, \A U \in SUBSET T : U # T => U \in G
      PROVE  T \in G
  <2>1. IsFiniteSet(T)
    BY FS_Subset
  <2>2. CASE T = {}
    BY <2>2, SumEmpty
  <2>3. CASE T # {}
    <3>1. Pick(T) \in T /\ T \ {Pick(T)} \in G
      BY <1>1, <2>3, PickIn
    <3>2. f[Pick(T)] \in Int /\ SumFunctionOnSet(f, T \ {Pick(T)}) \in Int
      BY <3>1
    <3>3. SumFunctionOnSet(f, T) = f[Pick(T)] + SumFunctionOnSet(f, T \ {Pick(T)})
      BY <2>1, <2>3, SumPick
    <3> QED BY <3>2, <3>3
  <2> QED BY <2>2, <2>3
<1> HIDE DEF G
<1>2. S \in G
  BY <1>1, SubsetInduction
<1> QED BY <1>2 DEF G

(* ...and so any element. *)
LEMMA SumTake ==
  ASSUME NEW S, IsFiniteSet(S), NEW f, \A x \in S : f[x] \in Int, NEW a \in S
  PROVE  SumFunctionOnSet(f, S) = f[a] + SumFunctionOnSet(f, S \ {a})
<1> DEFINE G == {T \in SUBSET S : \A x \in T : SumFunctionOnSet(f, T) = f[x] + SumFunctionOnSet(f, T \ {x})}
<1>1. ASSUME NEW T \in SUBSET S, \A U \in SUBSET T : U # T => U \in G
      PROVE  T \in G
  <2> SUFFICES ASSUME NEW x \in T
               PROVE  SumFunctionOnSet(f, T) = f[x] + SumFunctionOnSet(f, T \ {x})
    OBVIOUS
  <2> DEFINE p == Pick(T)
  <2>1. p \in T
    BY PickIn
  <2>2. IsFiniteSet(T) /\ IsFiniteSet(T \ {x}) /\ IsFiniteSet((T \ {x}) \ {p})
    BY FS_Subset, FS_RemoveElement
  <2>3. SumFunctionOnSet(f, T) = f[p] + SumFunctionOnSet(f, T \ {p})
    BY <2>2, SumPick
  <2>4. CASE p = x
    BY <2>3, <2>4
  <2>5. CASE p # x
    <3> DEFINE R == (T \ {x}) \ {p}
    <3>1. T \ {p} \in G /\ T \ {x} \in G
      BY <1>1, <2>1
    <3>2. x \in T \ {p} /\ p \in T \ {x} /\ (T \ {p}) \ {x} = R
      BY <2>1, <2>5
    <3>3. SumFunctionOnSet(f, T \ {p}) = f[x] + SumFunctionOnSet(f, R)
      BY <3>1, <3>2
    <3>4. SumFunctionOnSet(f, T \ {x}) = f[p] + SumFunctionOnSet(f, R)
      BY <3>1, <3>2
    <3>5. SumFunctionOnSet(f, R) \in Int /\ f[x] \in Int /\ f[p] \in Int
      BY <2>1, <2>2, SumInt
    <3> HIDE DEF R, p
    <3> QED BY <2>3, <3>3, <3>4, <3>5
  <2> QED BY <2>4, <2>5
<1> HIDE DEF G
<1>2. S \in G
  BY <1>1, SubsetInduction
<1> QED BY <1>2 DEF G

(* Sums grow with their terms, and only depend on them. *)
LEMMA SumMonotonic ==
  ASSUME NEW S, IsFiniteSet(S), NEW f, NEW g,
         \A x \in S : f[x] \in Int /\ g[x] \in Int /\ f[x] <= g[x]
  PROVE  SumFunctionOnSet(f, S) <= SumFunctionOnSet(g, S)
<1> DEFINE G == {T \in SUBSET S : SumFunctionOnSet(f, T) <= SumFunctionOnSet(g, T)}
<1>1. ASSUME NEW T \in SUBSET S, \A U \in SUBSET T : U # T => U \in G
      PROVE  T \in G
  <2>1. IsFiniteSet(T) /\ IsFiniteSet(T \ {Pick(T)})
    BY FS_Subset, FS_RemoveElement
  <2>2. CASE T = {}
    BY <2>2, SumEmpty
  <2>3. CASE T # {}
    <3> DEFINE R == T \ {Pick(T)}
    <3>1. Pick(T) \in S /\ R \in G
      BY <1>1, <2>3, PickIn
    <3>2. SumFunctionOnSet(f, R) \in Int /\ SumFunctionOnSet(g, R) \in Int
      BY <2>1, SumInt
    <3>3. /\ SumFunctionOnSet(f, T) = f[Pick(T)] + SumFunctionOnSet(f, R)
          /\ SumFunctionOnSet(g, T) = g[Pick(T)] + SumFunctionOnSet(g, R)
      BY <2>1, <2>3, SumPick
    <3> QED BY <3>1, <3>2, <3>3
  <2> QED BY <2>2, <2>3
<1> HIDE DEF G
<1>2. S \in G
  BY <1>1, SubsetInduction
<1> QED BY <1>2 DEF G

LEMMA SumSame ==
  ASSUME NEW S, IsFiniteSet(S), NEW f, NEW g, \A x \in S : f[x] \in Int /\ f[x] = g[x]
  PROVE  SumFunctionOnSet(f, S) = SumFunctionOnSet(g, S)
<1>1. SumFunctionOnSet(f, S) <= SumFunctionOnSet(g, S)
  BY SumMonotonic
<1>2. SumFunctionOnSet(g, S) <= SumFunctionOnSet(f, S)
  BY SumMonotonic
<1> QED BY <1>1, <1>2, SumInt

LEMMA SumNat ==
  ASSUME NEW S, IsFiniteSet(S), NEW f, \A x \in S : f[x] \in Nat
  PROVE  SumFunctionOnSet(f, S) \in Nat
<1> DEFINE G == {T \in SUBSET S : SumFunctionOnSet(f, T) \in Nat}
<1>1. ASSUME NEW T \in SUBSET S, \A U \in SUBSET T : U # T => U \in G
      PROVE  T \in G
  <2>1. IsFiniteSet(T)
    BY FS_Subset
  <2>2. CASE T = {}
    BY <2>2, SumEmpty
  <2>3. CASE T # {}
    <3>1. Pick(T) \in T /\ T \ {Pick(T)} \in G
      BY <1>1, <2>3, PickIn
    <3>2. f[Pick(T)] \in Nat /\ SumFunctionOnSet(f, T \ {Pick(T)}) \in Nat
      BY <3>1
    <3>3. SumFunctionOnSet(f, T) = f[Pick(T)] + SumFunctionOnSet(f, T \ {Pick(T)})
      BY <2>1, <2>3, SumPick
    <3> QED BY <3>2, <3>3
  <2> QED BY <2>2, <2>3
<1> HIDE DEF G
<1>2. S \in G
  BY <1>1, SubsetInduction
<1> QED BY <1>2 DEF G

LEMMA SumSubset ==
  ASSUME NEW S, IsFiniteSet(S), NEW f, \A x \in S : f[x] \in Nat, NEW R \in SUBSET S
  PROVE  SumFunctionOnSet(f, R) <= SumFunctionOnSet(f, S)
<1> DEFINE G == {T \in SUBSET S : SumFunctionOnSet(f, R \cap T) <= SumFunctionOnSet(f, T)}
<1>1. ASSUME NEW T \in SUBSET S, \A U \in SUBSET T : U # T => U \in G
      PROVE  T \in G
  <2> DEFINE p == Pick(T)  Q == T \ {p}
  <2>1. IsFiniteSet(T) /\ IsFiniteSet(Q) /\ IsFiniteSet(R \cap T) /\ IsFiniteSet(R \cap Q)
    BY FS_Subset
  <2>2. CASE T = {}
    <3>1. R \cap T = {}
      BY <2>2
    <3> QED BY <2>2, <3>1, SumEmpty
  <2>3. CASE T # {}
    <3>1. p \in T /\ Q \in G /\ f[p] \in Nat
      BY <1>1, <2>3, PickIn
    <3>2. SumFunctionOnSet(f, T) = f[p] + SumFunctionOnSet(f, Q)
      BY <2>1, <2>3, SumPick
    <3>3. SumFunctionOnSet(f, Q) \in Nat /\ SumFunctionOnSet(f, R \cap Q) \in Nat
      BY <2>1, SumNat
    <3>4. CASE p \in R
      <4>1. p \in R \cap T /\ (R \cap T) \ {p} = R \cap Q
        BY <3>1, <3>4
      <4>2. SumFunctionOnSet(f, R \cap T) = f[p] + SumFunctionOnSet(f, R \cap Q)
        BY <2>1, <4>1, SumTake
      <4> QED BY <3>1, <3>2, <3>3, <4>2
    <3>5. CASE p \notin R
      <4>1. R \cap T = R \cap Q
        BY <3>5
      <4>2. SumFunctionOnSet(f, R \cap Q) <= SumFunctionOnSet(f, Q)
        BY <3>1
      <4>3. SumFunctionOnSet(f, R \cap T) = SumFunctionOnSet(f, R \cap Q)
        BY <4>1
      <4>4. SumFunctionOnSet(f, R \cap T) <= SumFunctionOnSet(f, T)
        <5> HIDE DEF Q, p
        <5> QED BY <3>1, <3>2, <3>3, <4>2, <4>3
      <4> QED BY <4>4
    <3> QED BY <3>4, <3>5
  <2> QED BY <2>2, <2>3
<1> HIDE DEF G
<1>2. S \in G /\ R \cap S = R
  BY <1>1, SubsetInduction
<1> QED BY <1>2 DEF G

(* One term changes. *)
LEMMA SumUpdate ==
  ASSUME NEW S, IsFiniteSet(S), NEW f, NEW g, NEW a \in S,
         \A x \in S : f[x] \in Int /\ g[x] \in Int,
         \A x \in S \ {a} : g[x] = f[x]
  PROVE  SumFunctionOnSet(g, S) = SumFunctionOnSet(f, S) + g[a] - f[a]
<1>1. IsFiniteSet(S \ {a})
  BY FS_RemoveElement
<1>2. SumFunctionOnSet(g, S \ {a}) = SumFunctionOnSet(f, S \ {a})
  BY <1>1, SumSame
<1>3. SumFunctionOnSet(f, S \ {a}) \in Int
  BY <1>1, SumInt
<1>4. SumFunctionOnSet(f, S) = f[a] + SumFunctionOnSet(f, S \ {a})
  BY SumTake
<1>5. SumFunctionOnSet(g, S) = g[a] + SumFunctionOnSet(g, S \ {a})
  BY SumTake
<1> QED BY <1>2, <1>3, <1>4, <1>5

(* The sum over two sets without a common element. *)
LEMMA SumDisjoint ==
  ASSUME NEW A, IsFiniteSet(A), NEW B, IsFiniteSet(B), A \cap B = {},
         NEW f, \A x \in A \cup B : f[x] \in Int
  PROVE  SumFunctionOnSet(f, A \cup B) = SumFunctionOnSet(f, A) + SumFunctionOnSet(f, B)
<1> DEFINE G == {T \in SUBSET A :
             SumFunctionOnSet(f, T \cup B) = SumFunctionOnSet(f, T) + SumFunctionOnSet(f, B)}
<1>1. ASSUME NEW T \in SUBSET A, \A U \in SUBSET T : U # T => U \in G
      PROVE  T \in G
  <2>0. SumFunctionOnSet(f, B) \in Int
    BY SumInt
  <2>1. CASE T = {}
    <3>1. T \cup B = B /\ SumFunctionOnSet(f, T) = 0
      BY <2>1, SumEmpty
    <3> QED BY <2>0, <3>1
  <2>2. CASE T # {}
    <3> DEFINE p == Pick(T)  Q == T \ {p}
    <3>1. p \in T /\ Q \in G /\ f[p] \in Int
      BY <1>1, <2>2, PickIn
    <3>2. IsFiniteSet(T) /\ IsFiniteSet(Q) /\ IsFiniteSet(T \cup B)
      <4>1. IsFiniteSet(T)
        BY FS_Subset
      <4>2. IsFiniteSet(Q)
        BY <4>1, FS_RemoveElement
      <4> QED BY <4>1, <4>2, FS_Union
    <3>3. p \in T \cup B /\ (T \cup B) \ {p} = Q \cup B
      BY <3>1
    <3>4. SumFunctionOnSet(f, T \cup B) = f[p] + SumFunctionOnSet(f, Q \cup B)
      <4> HIDE DEF Q, p
      <4>1. SumFunctionOnSet(f, T \cup B) = f[p] + SumFunctionOnSet(f, (T \cup B) \ {p})
        BY <3>2, <3>3, SumTake
      <4> QED BY <3>3, <4>1
    <3>5. SumFunctionOnSet(f, T) = f[p] + SumFunctionOnSet(f, Q)
      BY <2>2, <3>2, SumPick
    <3>6. SumFunctionOnSet(f, Q) \in Int
      BY <3>2, SumInt
    <3>7. SumFunctionOnSet(f, Q \cup B) = SumFunctionOnSet(f, Q) + SumFunctionOnSet(f, B)
      BY <3>1
    <3>8. SumFunctionOnSet(f, T \cup B) = SumFunctionOnSet(f, T) + SumFunctionOnSet(f, B)
      <4> HIDE DEF Q, p
      <4> QED BY <2>0, <3>1, <3>4, <3>5, <3>6, <3>7
    <3> QED BY <3>8
  <2> QED BY <2>1, <2>2
<1> HIDE DEF G
<1>2. A \in G
  BY <1>1, SubsetInduction
<1> QED BY <1>2 DEF G

(* Terms that each stay below a term of their own of another sum. *)
LEMMA SumInjection ==
  ASSUME NEW S, IsFiniteSet(S), NEW R, IsFiniteSet(R), NEW f, NEW h, NEW g,
         \A x \in S : g[x] \in R /\ f[x] \in Nat /\ f[x] <= h[g[x]],
         \A x, y \in S : g[x] = g[y] => x = y,
         \A y \in R : h[y] \in Nat
  PROVE  SumFunctionOnSet(f, S) <= SumFunctionOnSet(h, R)
<1> DEFINE Img(T) == {g[x] : x \in T}
           G == {T \in SUBSET S : SumFunctionOnSet(f, T) <= SumFunctionOnSet(h, Img(T))}
<1>1. ASSUME NEW T \in SUBSET S, \A U \in SUBSET T : U # T => U \in G
      PROVE  T \in G
  <2>1. CASE T = {}
    <3>1. Img(T) = {} 
      BY <2>1
    <3> QED BY <2>1, <3>1, SumEmpty
  <2>2. CASE T # {}
    <3> DEFINE p == Pick(T)  Q == T \ {p}
    <3>1. p \in T /\ Q \in G /\ g[p] \in R /\ f[p] \in Nat /\ h[g[p]] \in Nat /\ f[p] <= h[g[p]]
      BY <1>1, <2>2, PickIn
    <3>2. IsFiniteSet(T) /\ IsFiniteSet(Q) /\ IsFiniteSet(Img(T)) /\ IsFiniteSet(Img(Q))
      <4>1. Img(T) \subseteq R /\ Img(Q) \subseteq R
        OBVIOUS
      <4> QED BY <4>1, FS_Subset
    <3>3. g[p] \in Img(T) /\ Img(T) \ {g[p]} = Img(Q)
      BY <3>1
    <3>4. \A y \in Img(T) : h[y] \in Int
      OBVIOUS
    <3>5. SumFunctionOnSet(h, Img(T)) = h[g[p]] + SumFunctionOnSet(h, Img(Q))
      <4> HIDE DEF Img, Q, p
      <4>1. SumFunctionOnSet(h, Img(T)) = h[g[p]] + SumFunctionOnSet(h, Img(T) \ {g[p]})
        BY <3>2, <3>3, <3>4, SumTake
      <4> QED BY <3>3, <4>1
    <3>6. SumFunctionOnSet(f, T) = f[p] + SumFunctionOnSet(f, Q)
      BY <2>2, <3>2, SumPick
    <3>7. SumFunctionOnSet(f, Q) \in Int
      BY <3>2, SumInt
    <3>8. SumFunctionOnSet(h, Img(Q)) \in Int
      <4>1. \A y \in Img(Q) : h[y] \in Int
        BY <3>4
      <4> HIDE DEF Img
      <4> QED BY <3>2, <4>1, SumInt
    <3>9. SumFunctionOnSet(f, Q) <= SumFunctionOnSet(h, Img(Q))
      BY <3>1
    <3>10. SumFunctionOnSet(f, T) <= SumFunctionOnSet(h, Img(T))
      <4> HIDE DEF Img, Q, p
      <4> QED BY <3>1, <3>5, <3>6, <3>7, <3>8, <3>9
    <3> QED BY <3>10
  <2> QED BY <2>1, <2>2
<1> HIDE DEF G
<1>2. S \in G
  BY <1>1, SubsetInduction
<1>3. SumFunctionOnSet(f, S) <= SumFunctionOnSet(h, Img(S))
  BY <1>2 DEF G
<1>4. Img(S) \in SUBSET R
  OBVIOUS
<1> HIDE DEF Img
<1>5. SumFunctionOnSet(h, Img(S)) <= SumFunctionOnSet(h, R)
  BY <1>4, SumSubset
<1>6. SumFunctionOnSet(f, S) \in Int /\ SumFunctionOnSet(h, Img(S)) \in Int /\ SumFunctionOnSet(h, R) \in Int
  <2>1. IsFiniteSet(Img(S)) /\ \A y \in Img(S) : h[y] \in Int
    BY <1>4, FS_Subset
  <2> QED BY <2>1, SumInt
<1> QED BY <1>3, <1>5, <1>6

(* Term by term: sums, zeros, multiples. *)
LEMMA SumPlus ==
  ASSUME NEW S, IsFiniteSet(S), NEW f, NEW g, NEW h,
         \A x \in S : f[x] \in Int /\ g[x] \in Int /\ h[x] = f[x] + g[x]
  PROVE  SumFunctionOnSet(h, S) = SumFunctionOnSet(f, S) + SumFunctionOnSet(g, S)
<1> DEFINE G == {T \in SUBSET S :
             SumFunctionOnSet(h, T) = SumFunctionOnSet(f, T) + SumFunctionOnSet(g, T)}
<1>1. ASSUME NEW T \in SUBSET S, \A U \in SUBSET T : U # T => U \in G
      PROVE  T \in G
  <2>1. IsFiniteSet(T) /\ IsFiniteSet(T \ {Pick(T)})
    BY FS_Subset, FS_RemoveElement
  <2>2. CASE T = {}
    BY <2>2, SumEmpty
  <2>3. CASE T # {}
    <3> DEFINE R == T \ {Pick(T)}
    <3>1. Pick(T) \in S /\ R \in G
      BY <1>1, <2>3, PickIn
    <3>2. SumFunctionOnSet(f, R) \in Int /\ SumFunctionOnSet(g, R) \in Int
      BY <2>1, SumInt
    <3>3. /\ SumFunctionOnSet(f, T) = f[Pick(T)] + SumFunctionOnSet(f, R)
          /\ SumFunctionOnSet(g, T) = g[Pick(T)] + SumFunctionOnSet(g, R)
          /\ SumFunctionOnSet(h, T) = h[Pick(T)] + SumFunctionOnSet(h, R)
      BY <2>1, <2>3, SumPick
    <3> QED BY <3>1, <3>2, <3>3
  <2> QED BY <2>2, <2>3
<1> HIDE DEF G
<1>2. S \in G
  BY <1>1, SubsetInduction
<1> QED BY <1>2 DEF G

LEMMA SumTimes ==
  ASSUME NEW S, IsFiniteSet(S), NEW f, NEW h, NEW c \in Int,
         \A x \in S : f[x] \in Int /\ h[x] = c * f[x]
  PROVE  SumFunctionOnSet(h, S) = c * SumFunctionOnSet(f, S)
<1> DEFINE G == {T \in SUBSET S : SumFunctionOnSet(h, T) = c * SumFunctionOnSet(f, T)}
<1>1. ASSUME NEW T \in SUBSET S, \A U \in SUBSET T : U # T => U \in G
      PROVE  T \in G
  <2>1. IsFiniteSet(T) /\ IsFiniteSet(T \ {Pick(T)})
    BY FS_Subset, FS_RemoveElement
  <2>2. CASE T = {}
    BY <2>2, SumEmpty
  <2>3. CASE T # {}
    <3> DEFINE R == T \ {Pick(T)}
    <3>1. Pick(T) \in S /\ R \in G
      BY <1>1, <2>3, PickIn
    <3>2. SumFunctionOnSet(f, R) \in Int /\ f[Pick(T)] \in Int
      BY <2>1, <3>1, SumInt
    <3>3. /\ SumFunctionOnSet(f, T) = f[Pick(T)] + SumFunctionOnSet(f, R)
          /\ SumFunctionOnSet(h, T) = h[Pick(T)] + SumFunctionOnSet(h, R)
      BY <2>1, <2>3, SumPick
    <3>4. h[Pick(T)] = c * f[Pick(T)] /\ SumFunctionOnSet(h, R) = c * SumFunctionOnSet(f, R)
      BY <3>1
    <3>5. ASSUME NEW a \in Int, NEW b \in Int PROVE c * a + c * b = c * (a + b)
      OBVIOUS
    <3> HIDE DEF R
    <3>6. SumFunctionOnSet(h, T) = c * SumFunctionOnSet(f, T)
      BY <3>2, <3>3, <3>4, <3>5
    <3> QED BY <3>6
  <2> QED BY <2>2, <2>3
<1> HIDE DEF G
<1>2. S \in G
  BY <1>1, SubsetInduction
<1> QED BY <1>2 DEF G

LEMMA SumZero ==
  ASSUME NEW S, IsFiniteSet(S), NEW f, \A x \in S : f[x] = 0
  PROVE  SumFunctionOnSet(f, S) = 0
<1>1. SumFunctionOnSet(f, S) = 0 * SumFunctionOnSet(f, S)
  BY SumTimes
<1>2. SumFunctionOnSet(f, S) \in Int
  BY SumInt
<1> QED BY <1>1, <1>2

(* A term that is zero may be left out. *)
LEMMA SumOnSubset ==
  ASSUME NEW S, IsFiniteSet(S), NEW R \in SUBSET S, NEW f, NEW g,
         \A x \in R : f[x] \in Int /\ g[x] = f[x],
         \A x \in S \ R : g[x] = 0
  PROVE  SumFunctionOnSet(g, S) = SumFunctionOnSet(f, R)
<1>1. IsFiniteSet(R) /\ IsFiniteSet(S \ R) /\ R \cap (S \ R) = {} /\ R \cup (S \ R) = S
  BY FS_Subset
<1>2. SumFunctionOnSet(g, S) = SumFunctionOnSet(g, R) + SumFunctionOnSet(g, S \ R)
  <2>1. \A x \in R \cup (S \ R) : g[x] \in Int
    OBVIOUS
  <2>2. SumFunctionOnSet(g, R \cup (S \ R)) = SumFunctionOnSet(g, R) + SumFunctionOnSet(g, S \ R)
    BY <1>1, <2>1, SumDisjoint
  <2> QED BY <1>1, <2>2
<1>3. SumFunctionOnSet(g, R) = SumFunctionOnSet(f, R)
  BY <1>1, SumSame
<1>4. SumFunctionOnSet(g, S \ R) = 0
  BY <1>1, SumZero
<1>5. SumFunctionOnSet(f, R) \in Int
  BY <1>1, SumInt
<1> QED BY <1>2, <1>3, <1>4, <1>5

(* The terms of a sequence. *)
LEMMA SumLast ==
  ASSUME NEW n \in Nat, NEW f, \A i \in 1 .. n + 1 : f[i] \in Int
  PROVE  SumFunctionOnSet(f, 1 .. n + 1) = SumFunctionOnSet(f, 1 .. n) + f[n + 1]
<1>1. IsFiniteSet(1 .. n + 1) /\ IsFiniteSet(1 .. n)
  BY FS_Interval
<1>2. n + 1 \in 1 .. n + 1 /\ (1 .. n + 1) \ {n + 1} = 1 .. n
  OBVIOUS
<1>3. SumFunctionOnSet(f, 1 .. n + 1)
        = f[n + 1] + SumFunctionOnSet(f, (1 .. n + 1) \ {n + 1})
  BY <1>1, <1>2, SumTake
<1>4. SumFunctionOnSet(f, 1 .. n) \in Int
  <2>1. \A i \in 1 .. n : f[i] \in Int
    OBVIOUS
  <2> QED BY <1>1, <2>1, SumInt
<1>5. f[n + 1] \in Int
  BY <1>2
<1>6. SumFunctionOnSet(f, 1 .. n + 1) = f[n + 1] + SumFunctionOnSet(f, 1 .. n)
  BY <1>2, <1>3
<1> QED BY <1>4, <1>5, <1>6

LEMMA SumFirst ==
  ASSUME NEW n \in Nat, NEW f, \A i \in 1 .. n + 1 : f[i] \in Nat,
         NEW g, \A i \in 1 .. n : g[i] = f[i + 1]
  PROVE  SumFunctionOnSet(f, 1 .. n + 1) = f[1] + SumFunctionOnSet(g, 1 .. n)
<1>1. IsFiniteSet(1 .. n + 1) /\ IsFiniteSet(1 .. n) /\ IsFiniteSet(2 .. n + 1)
  BY FS_Interval
<1>2. 1 \in 1 .. n + 1 /\ (1 .. n + 1) \ {1} = 2 .. n + 1
  OBVIOUS
<1>3. SumFunctionOnSet(f, 1 .. n + 1) = f[1] + SumFunctionOnSet(f, 2 .. n + 1)
  <2>1. \A i \in 1 .. n + 1 : f[i] \in Int
    OBVIOUS
  <2>2. SumFunctionOnSet(f, 1 .. n + 1) = f[1] + SumFunctionOnSet(f, (1 .. n + 1) \ {1})
    BY <1>1, <1>2, <2>1, SumTake
  <2> QED BY <1>2, <2>2
<1> DEFINE up == [i \in 1 .. n |-> i + 1]  down == [i \in 2 .. n + 1 |-> i - 1]
<1>4. SumFunctionOnSet(g, 1 .. n) <= SumFunctionOnSet(f, 2 .. n + 1)
  <2>1. \A i \in 1 .. n : up[i] \in 2 .. n + 1 /\ g[i] \in Nat /\ g[i] <= f[up[i]]
    OBVIOUS
  <2>2. \A i, k \in 1 .. n : up[i] = up[k] => i = k
    OBVIOUS
  <2>3. \A i \in 2 .. n + 1 : f[i] \in Nat
    OBVIOUS
  <2> HIDE DEF up
  <2> QED BY <1>1, <2>1, <2>2, <2>3, SumInjection
<1>5. SumFunctionOnSet(f, 2 .. n + 1) <= SumFunctionOnSet(g, 1 .. n)
  <2>1. \A i \in 2 .. n + 1 : down[i] \in 1 .. n /\ f[i] \in Nat /\ f[i] <= g[down[i]]
    OBVIOUS
  <2>2. \A i, k \in 2 .. n + 1 : down[i] = down[k] => i = k
    OBVIOUS
  <2>3. \A i \in 1 .. n : g[i] \in Nat
    OBVIOUS
  <2> HIDE DEF down
  <2> QED BY <1>1, <2>1, <2>2, <2>3, SumInjection
<1>6. SumFunctionOnSet(f, 2 .. n + 1) \in Int /\ SumFunctionOnSet(g, 1 .. n) \in Int
  <2>1. (\A i \in 2 .. n + 1 : f[i] \in Int) /\ (\A i \in 1 .. n : g[i] \in Int)
    OBVIOUS
  <2> QED BY <1>1, <2>1, SumInt
<1>7. SumFunctionOnSet(f, 2 .. n + 1) = SumFunctionOnSet(g, 1 .. n)
  BY <1>4, <1>5, <1>6
<1> QED BY <1>3, <1>7

(* Rows F[a] and columns C[b]: summed up either way. *)
RowSums(F, A, B, f) == \A a \in A : f[a] = SumFunctionOnSet(F[a], B)
Transposed(F, A, B, C) == \A a \in A : \A b \in B : F[a][b] \in Int /\ C[b][a] = F[a][b]

LEMMA SumSwap ==
  ASSUME NEW A, IsFiniteSet(A), NEW B, IsFiniteSet(B), NEW F, NEW C, Transposed(F, A, B, C),
         NEW f, RowSums(F, A, B, f), NEW g, RowSums(C, B, A, g)
  PROVE  SumFunctionOnSet(f, A) = SumFunctionOnSet(g, B)
<1> USE DEF RowSums, Transposed
<1> DEFINE part(T) == [b \in B |-> SumFunctionOnSet(C[b], T)]
           G == {T \in SUBSET A : SumFunctionOnSet(f, T) = SumFunctionOnSet(part(T), B)}
<1>0. \A a \in A : \A b \in B : C[b][a] = F[a][b] /\ C[b][a] \in Int
  OBVIOUS
<1>01. \A T \in SUBSET A : IsFiniteSet(T) /\ \A b \in B : part(T)[b] \in Int
  <2> SUFFICES ASSUME NEW T \in SUBSET A
               PROVE  IsFiniteSet(T) /\ \A b \in B : part(T)[b] \in Int
    OBVIOUS
  <2>1. IsFiniteSet(T)
    BY FS_Subset
  <2>2. ASSUME NEW b \in B PROVE SumFunctionOnSet(C[b], T) \in Int
    <3>1. \A a \in T : C[b][a] \in Int
      BY <1>0
    <3> QED BY <2>1, <3>1, SumInt
  <2> QED BY <2>1, <2>2
<1>1. ASSUME NEW T \in SUBSET A, \A U \in SUBSET T : U # T => U \in G
      PROVE  T \in G
  <2>1. CASE T = {}
    <3>1. \A b \in B : part(T)[b] = 0
      BY <2>1, SumEmpty
    <3>2. SumFunctionOnSet(part(T), B) = 0
      <4> HIDE DEF part
      <4> QED BY <3>1, SumZero
    <3> QED BY <2>1, <3>2, SumEmpty
  <2>2. CASE T # {}
    <3> DEFINE p == Pick(T)  R == T \ {p}
    <3>1. p \in T /\ p \in A /\ R \in SUBSET A /\ R \in G
      BY <1>1, <2>2, PickIn
    <3>2. SumFunctionOnSet(f, T) = f[p] + SumFunctionOnSet(f, R)
      BY <1>01, <2>2, SumPick
    <3>3. ASSUME NEW b \in B PROVE part(T)[b] = F[p][b] + part(R)[b]
      <4>1. SumFunctionOnSet(C[b], T) = C[b][p] + SumFunctionOnSet(C[b], R)
        BY <1>01, <2>2, SumPick
      <4>2. C[b][p] = F[p][b]
        BY <3>1
      <4> HIDE DEF R, p
      <4> QED BY <4>1, <4>2
    <3>4. \A b \in B : F[p][b] \in Int /\ part(R)[b] \in Int
      BY <1>01, <3>1
    <3>5. SumFunctionOnSet(part(T), B)
            = SumFunctionOnSet(F[p], B) + SumFunctionOnSet(part(R), B)
      <4> HIDE DEF part, R, p
      <4> QED BY <3>3, <3>4, SumPlus
    <3>6. f[p] = SumFunctionOnSet(F[p], B)
      BY <3>1
    <3>7. SumFunctionOnSet(f, R) = SumFunctionOnSet(part(R), B)
      BY <3>1
    <3> HIDE DEF part, R, p
    <3>8. SumFunctionOnSet(f, T) = SumFunctionOnSet(part(T), B)
      BY <3>2, <3>5, <3>6, <3>7
    <3> QED BY <3>8
  <2> QED BY <2>1, <2>2
<1>2. A \in G
  <2> HIDE DEF G
  <2> QED BY <1>1, SubsetInduction
<1>3. SumFunctionOnSet(f, A) = SumFunctionOnSet(part(A), B)
  BY <1>2
<1>4. \A b \in B : part(A)[b] \in Int /\ part(A)[b] = g[b]
  BY <1>01
<1>5. SumFunctionOnSet(part(A), B) = SumFunctionOnSet(g, B)
  <2> HIDE DEF part
  <2> QED BY <1>4, SumSame
<1> QED BY <1>3, <1>5

(* A sum in which one term counts. *)
LEMMA SumOne ==
  ASSUME NEW S, IsFiniteSet(S), NEW a \in S, NEW f, f[a] \in Int, \A x \in S \ {a} : f[x] = 0
  PROVE  SumFunctionOnSet(f, S) = f[a]
<1>1. \A x \in S : f[x] \in Int
  OBVIOUS
<1>2. SumFunctionOnSet(f, S) = f[a] + SumFunctionOnSet(f, S \ {a})
  BY <1>1, SumTake
<1>3. IsFiniteSet(S \ {a})
  BY FS_RemoveElement
<1>4. SumFunctionOnSet(f, S \ {a}) = 0
  BY <1>3, SumZero
<1> QED BY <1>2, <1>4

(* Proportions that hold of the terms hold of the sums. *)
LEMMA SumScaled ==
  ASSUME NEW S, IsFiniteSet(S), NEW f, NEW g, NEW u \in Int, NEW p \in Int,
         \A x \in S : f[x] \in Int /\ g[x] \in Int /\ u * f[x] <= p * g[x]
  PROVE  u * SumFunctionOnSet(f, S) <= p * SumFunctionOnSet(g, S)
<1> DEFINE uf == [x \in S |-> u * f[x]]
           pg == [x \in S |-> p * g[x]]
<1>1. \A x \in S : f[x] \in Int /\ g[x] \in Int /\ uf[x] = u * f[x] /\ pg[x] = p * g[x]
  OBVIOUS
<1>2. \A x \in S : uf[x] \in Int /\ pg[x] \in Int /\ uf[x] <= pg[x]
  OBVIOUS
<1> HIDE DEF uf, pg
<1>3. SumFunctionOnSet(uf, S) = u * SumFunctionOnSet(f, S)
  BY <1>1, SumTimes
<1>4. SumFunctionOnSet(pg, S) = p * SumFunctionOnSet(g, S)
  BY <1>1, SumTimes
<1>5. SumFunctionOnSet(uf, S) <= SumFunctionOnSet(pg, S)
  BY <1>2, SumMonotonic
<1> QED BY <1>3, <1>4, <1>5
=============================================================================
