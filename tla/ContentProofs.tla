----------------------------- MODULE ContentProofs -----------------------------
(* What Quotas, RateLimit and Pastes promise, for any accounts, rows, quotas *)
(* and rules, and for any processes, limits and windows.                     *)
EXTENDS Pastes, Quotas, RateLimit, FiniteSetTheorems, WellFoundedInduction, TLAPS

(***************************************************************************)
(* Sums.  MapThenSumSet folds with a recursive function; what it computes   *)
(* is the number of dots when every x has w[x] of them, which the theorems  *)
(* about Cardinality are enough for.                                        *)
(***************************************************************************)

\* A set of subsets that has A when it has all smaller ones has them all.
LEMMA SubsetInduction ==
    ASSUME NEW S, IsFiniteSet(S), NEW T,
           \A A \in SUBSET S : (\A B \in SUBSET A : B # A => B \in T) => A \in T
    PROVE  SUBSET S \subseteq T
<1> DEFINE Bad == (SUBSET S) \ T
<1> SUFFICES ASSUME Bad # {} PROVE FALSE
  OBVIOUS
<1>1. PICK A \in Bad : \A B \in Bad : <<B, A>> \notin StrictSubsetOrdering(S)
  <2>1. Bad \subseteq FiniteSubsetsOf(S)
    BY FS_FiniteSubsetsOfFinite
  <2> HIDE DEF Bad
  <2> QED BY <2>1, FS_StrictSubsetOrderingWellFounded, WFMin
<1>2. ASSUME NEW B \in SUBSET A, B # A PROVE B \in T
  BY <1>1, <1>2 DEF StrictSubsetOrdering
<1>3. A \in SUBSET S /\ A \notin T
  BY <1>1
<1> QED BY <1>2, <1>3

\* w[x] dots for each x of S.
Dots(w, S) == UNION {{x} \X (1..w[x]) : x \in S}

LEMMA DotsCounted ==
    ASSUME NEW S, IsFiniteSet(S), NEW w \in [S -> Nat]
    PROVE  /\ IsFiniteSet(Dots(w, S))
           /\ \A x \in S : Cardinality(Dots(w, S)) = w[x] + Cardinality(Dots(w, S \ {x}))
<1> DEFINE T == {A \in SUBSET S : IsFiniteSet(Dots(w, A))}
<1>1. ASSUME NEW A \in SUBSET S, NEW x \in A
      PROVE  /\ Dots(w, A) = Dots(w, A \ {x}) \cup ({x} \X (1..w[x]))
             /\ Dots(w, A \ {x}) \cap ({x} \X (1..w[x])) = {}
  BY DEF Dots
<1>2. ASSUME NEW x \in S
      PROVE  IsFiniteSet({x} \X (1..w[x])) /\ Cardinality({x} \X (1..w[x])) = w[x]
  <2>1. IsFiniteSet({x}) /\ Cardinality({x}) = 1
    BY FS_Singleton
  <2>2. w[x] \in Nat
    OBVIOUS
  <2>3. IsFiniteSet(1..w[x]) /\ Cardinality(1..w[x]) = w[x]
    BY <2>2, FS_Interval
  <2>4. \A X, Y : IsFiniteSet(X) /\ IsFiniteSet(Y) =>
           IsFiniteSet(X \X Y) /\ Cardinality(X \X Y) = Cardinality(X) * Cardinality(Y)
    BY FS_Product
  <2>5. IsFiniteSet({x} \X (1..w[x])) /\ Cardinality({x} \X (1..w[x])) = 1 * w[x]
    BY ONLY <2>1, <2>3, <2>4
  <2> QED BY <2>2, <2>5
<1>3. ASSUME NEW A \in SUBSET S, \A B \in SUBSET A : B # A => B \in T
      PROVE  A \in T
  <2>1. CASE A = {}
    <3>1. Dots(w, A) = {}
      BY <2>1 DEF Dots
    <3> QED BY <3>1, FS_EmptySet
  <2>2. CASE A # {}
    <3>1. PICK x \in A : TRUE
      BY <2>2
    <3>2. IsFiniteSet(Dots(w, A \ {x}))
      BY <1>3, <3>1
    <3>3. Dots(w, A) = Dots(w, A \ {x}) \cup ({x} \X (1..w[x]))
      BY <1>1, <3>1
    <3>4. IsFiniteSet({x} \X (1..w[x]))
      BY <1>2, <3>1
    <3>5. IsFiniteSet(Dots(w, A \ {x}) \cup ({x} \X (1..w[x])))
      BY <3>2, <3>4, FS_Union
    <3> QED BY <3>3, <3>5
  <2> QED BY <2>1, <2>2
<1>4. \A A \in SUBSET S : IsFiniteSet(Dots(w, A))
  <2>1. SUBSET S \subseteq T
    <3>1. \A A \in SUBSET S : (\A B \in SUBSET A : B # A => B \in T) => A \in T
      BY <1>3
    <3> HIDE DEF T
    <3> QED BY <3>1, SubsetInduction
  <2> QED BY <2>1
<1>5. ASSUME NEW x \in S
      PROVE  Cardinality(Dots(w, S)) = w[x] + Cardinality(Dots(w, S \ {x}))
  <2> DEFINE D == Dots(w, S \ {x})
             C == {x} \X (1..w[x])
  <2>1. IsFiniteSet(D) /\ IsFiniteSet(C) /\ Cardinality(C) = w[x]
    BY <1>2, <1>4
  <2>2. Dots(w, S) = D \cup C /\ D \cap C = {}
    BY <1>1
  <2> HIDE DEF D, C
  <2>3. Cardinality(D \cup C) = Cardinality(D) + Cardinality(C) - Cardinality(D \cap C)
    BY <2>1, FS_Union
  <2>4. Cardinality(D \cap C) = 0
    BY <2>2, FS_EmptySet
  <2>5. Cardinality(D) \in Nat /\ w[x] \in Nat
    BY <2>1, FS_CardinalityType
  <2> QED BY <2>1, <2>2, <2>3, <2>4, <2>5 DEF D
<1> QED BY <1>4, <1>5

\* g is the fold that MapThenSumSet makes of w over the subsets of S.
FoldsTo(g, w, S) ==
    g = [s \in SUBSET S |-> IF s = {} THEN 0
                            ELSE w[CHOOSE x \in s : TRUE] + g[s \ {CHOOSE x \in s : TRUE}]]

LEMMA FoldsDots ==
    ASSUME NEW S, IsFiniteSet(S), NEW w \in [S -> Nat]
    PROVE  /\ FoldsTo([s \in SUBSET S |-> Cardinality(Dots(w, s))], w, S)
           /\ \A g : FoldsTo(g, w, S) => g[S] = Cardinality(Dots(w, S))
<1> DEFINE c == [s \in SUBSET S |-> Cardinality(Dots(w, s))]
<1>1. \A A \in SUBSET S : \A x \in A :
         Cardinality(Dots(w, A)) = w[x] + Cardinality(Dots(w, A \ {x}))
  <2> SUFFICES ASSUME NEW A \in SUBSET S, NEW x \in A
               PROVE  Cardinality(Dots(w, A)) = w[x] + Cardinality(Dots(w, A \ {x}))
    OBVIOUS
  <2> DEFINE v == [y \in A |-> w[y]]
  <2>1. v \in [A -> Nat] /\ IsFiniteSet(A) /\ v[x] = w[x]
    BY FS_Subset
  <2>2. Dots(w, A) = Dots(v, A) /\ Dots(w, A \ {x}) = Dots(v, A \ {x})
    BY DEF Dots
  <2> HIDE DEF v
  <2> QED BY <2>1, <2>2, DotsCounted
<1>2. Cardinality(Dots(w, {})) = 0
  <2>1. Dots(w, {}) = {}
    BY DEF Dots
  <2> QED BY <2>1, FS_EmptySet
<1>3. FoldsTo(c, w, S)
  <2>1. ASSUME NEW s \in SUBSET S
        PROVE  c[s] = IF s = {} THEN 0
                      ELSE w[CHOOSE x \in s : TRUE] + c[s \ {CHOOSE x \in s : TRUE}]
    <3>1. CASE s = {}
      BY <3>1, <1>2
    <3>2. CASE s # {}
      <4>1. (CHOOSE x \in s : TRUE) \in s
        BY <3>2
      <4> QED BY <3>2, <4>1, <1>1
    <3> QED BY <3>1, <3>2
  <2> QED BY <2>1 DEF FoldsTo
<1>4. ASSUME NEW g, FoldsTo(g, w, S) PROVE g[S] = c[S]
  <2> DEFINE T == {A \in SUBSET S : g[A] = c[A]}
  <2>1. ASSUME NEW A \in SUBSET S, \A B \in SUBSET A : B # A => B \in T
        PROVE  A \in T
    <3>1. g[A] = IF A = {} THEN 0
                 ELSE w[CHOOSE x \in A : TRUE] + g[A \ {CHOOSE x \in A : TRUE}]
      BY <1>4 DEF FoldsTo
    <3>2. c[A] = IF A = {} THEN 0
                 ELSE w[CHOOSE x \in A : TRUE] + c[A \ {CHOOSE x \in A : TRUE}]
      BY <1>3 DEF FoldsTo
    <3> HIDE DEF c
    <3>3. CASE A = {}
      BY <3>1, <3>2, <3>3
    <3>4. CASE A # {}
      <4>1. (CHOOSE x \in A : TRUE) \in A
        BY <3>4
      <4>2. A \ {CHOOSE x \in A : TRUE} \in T
        BY <4>1, <2>1
      <4> QED BY <3>1, <3>2, <3>4, <4>2
    <3> QED BY <3>3, <3>4
  <2>2. SUBSET S \subseteq T
    <3> HIDE DEF T
    <3> QED BY <2>1, SubsetInduction
  <2> QED BY <2>2
<1> QED BY <1>3, <1>4

\* The sizes of the rows fl of S, and their sum.
SizeSum(fl, S) == MapThenSumSet(LAMBDA f : fl[f].size, S)
Sized(fl, S) == Dots([f \in S |-> fl[f].size], S)

LEMMA SumIsCardinality ==
    ASSUME NEW S, IsFiniteSet(S), NEW fl, \A f \in S : fl[f].size \in Nat
    PROVE  SizeSum(fl, S) = Cardinality(Sized(fl, S))
<1> DEFINE w == [f \in S |-> fl[f].size]
           P(g) == g = [s \in SUBSET S |-> IF s = {} THEN 0
                            ELSE fl[CHOOSE x \in s : TRUE].size + g[s \ {CHOOSE x \in s : TRUE}]]
<1>1. \A s \in SUBSET S : s # {} => w[CHOOSE x \in s : TRUE] = fl[CHOOSE x \in s : TRUE].size
  OBVIOUS
<1>2. ASSUME NEW g PROVE P(g) <=> FoldsTo(g, w, S)
  BY <1>1 DEF FoldsTo
<1>3. SizeSum(fl, S) = (CHOOSE g : P(g))[S]
  BY DEF SizeSum, MapThenSumSet, MapThenFoldSet
<1>4. w \in [S -> Nat]
  OBVIOUS
<1> HIDE DEF P, w
<1>5. \E g : FoldsTo(g, w, S)
  BY <1>4, FoldsDots
<1>6. FoldsTo(CHOOSE g : P(g), w, S)
  BY <1>5, <1>2
<1>7. (CHOOSE g : P(g))[S] = Cardinality(Dots(w, S))
  BY <1>4, <1>6, FoldsDots
<1> QED BY <1>3, <1>7 DEF w, Sized

LEMMA SumInNat ==
    ASSUME NEW S, IsFiniteSet(S), NEW fl, \A f \in S : fl[f].size \in Nat
    PROVE  SizeSum(fl, S) \in Nat
<1>1. IsFiniteSet(Sized(fl, S))
  <2>1. [f \in S |-> fl[f].size] \in [S -> Nat]
    OBVIOUS
  <2> QED BY <2>1, DotsCounted DEF Sized
<1>2. Cardinality(Sized(fl, S)) \in Nat
  BY <1>1, FS_CardinalityType
<1>3. SizeSum(fl, S) = Cardinality(Sized(fl, S))
  BY SumIsCardinality
<1> QED BY <1>2, <1>3

\* Fewer rows of the same sizes make no greater sum.
LEMMA SumShrinks ==
    ASSUME NEW T, IsFiniteSet(T), NEW S \in SUBSET T, NEW fl, NEW gl,
           \A f \in T : fl[f].size \in Nat, \A f \in S : gl[f].size = fl[f].size
    PROVE  SizeSum(gl, S) <= SizeSum(fl, T)
<1>1. [f \in T |-> fl[f].size] \in [T -> Nat]
  OBVIOUS
<1>2. IsFiniteSet(Sized(fl, T))
  BY <1>1, DotsCounted DEF Sized
<1>3. Sized(gl, S) \subseteq Sized(fl, T)
  BY DEF Sized, Dots
<1>4. IsFiniteSet(S)
  BY FS_Subset
<1>5. Cardinality(Sized(gl, S)) <= Cardinality(Sized(fl, T))
  BY <1>2, <1>3, FS_Subset
<1>6. SizeSum(gl, S) = Cardinality(Sized(gl, S))
  BY <1>4, SumIsCardinality
<1>7. SizeSum(fl, T) = Cardinality(Sized(fl, T))
  BY SumIsCardinality
<1> QED BY <1>5, <1>6, <1>7

\* One row more adds its size.
LEMMA SumGrows ==
    ASSUME NEW S, IsFiniteSet(S), NEW fl, \A f \in S : fl[f].size \in Nat, NEW x \in S
    PROVE  SizeSum(fl, S)
             = fl[x].size + SizeSum(fl, S \ {x})
<1> DEFINE w == [f \in S |-> fl[f].size]
<1>1. w \in [S -> Nat] /\ w[x] = fl[x].size
  OBVIOUS
<1>2. Sized(fl, S) = Dots(w, S) /\ Sized(fl, S \ {x}) = Dots(w, S \ {x})
  BY DEF Sized, Dots
<1> HIDE DEF w
<1>3. Cardinality(Sized(fl, S)) = fl[x].size + Cardinality(Sized(fl, S \ {x}))
  BY <1>1, <1>2, DotsCounted
<1>4. IsFiniteSet(S \ {x})
  BY FS_RemoveElement
<1>5. SizeSum(fl, S) = Cardinality(Sized(fl, S))
  BY SumIsCardinality
<1>6. SizeSum(fl, S \ {x}) = Cardinality(Sized(fl, S \ {x}))
  BY <1>4, SumIsCardinality
<1> QED BY <1>3, <1>5, <1>6

\* No more dots each make no more dots...
LEMMA FewerDots ==
    ASSUME NEW D, IsFiniteSet(D), NEW v \in [D -> Nat],
           NEW E \in SUBSET D, NEW w \in [E -> Nat], \A x \in E : w[x] <= v[x]
    PROVE  Cardinality(Dots(w, E)) <= Cardinality(Dots(v, D))
<1>1. Dots(w, E) \subseteq Dots(v, D)
  <2>1. \A x \in E : w[x] \in Nat /\ v[x] \in Nat /\ w[x] <= v[x]
    OBVIOUS
  <2>2. \A x \in E : 1..w[x] \subseteq 1..v[x]
    BY <2>1
  <2> QED BY <2>2 DEF Dots
<1> QED BY <1>1, DotsCounted, FS_Subset

\* ... and one more of one x is one more.
LEMMA OneDotMore ==
    ASSUME NEW D, IsFiniteSet(D), NEW v \in [D -> Nat], NEW w \in [D -> Nat], NEW y \in D,
           w[y] <= v[y] + 1, \A x \in D \ {y} : w[x] <= v[x]
    PROVE  Cardinality(Dots(w, D)) <= Cardinality(Dots(v, D)) + 1
<1> DEFINE N == v[y] + 1
<1>1. /\ IsFiniteSet(Dots(v, D)) /\ IsFiniteSet(Dots(w, D))
      /\ Cardinality(Dots(v, D)) \in Nat
  BY DotsCounted, FS_CardinalityType
<1>2. Dots(w, D) \subseteq Dots(v, D) \cup {<<y, N>>}
  <2>1. \A x \in D : w[x] \in Nat /\ v[x] \in Nat
    OBVIOUS
  <2>2. \A x \in D \ {y} : 1..w[x] \subseteq 1..v[x]
    BY <2>1
  <2>3. 1..w[y] \subseteq (1..v[y]) \cup {N}
    BY <2>1
  <2> HIDE DEF N
  <2> QED BY <2>2, <2>3 DEF Dots
<1>3. /\ IsFiniteSet(Dots(v, D) \cup {<<y, N>>})
      /\ Cardinality(Dots(v, D) \cup {<<y, N>>}) <= Cardinality(Dots(v, D)) + 1
  <2>1. \A A, x : IsFiniteSet(A) =>
           /\ IsFiniteSet(A \cup {x})
           /\ \/ Cardinality(A \cup {x}) = Cardinality(A)
              \/ Cardinality(A \cup {x}) = Cardinality(A) + 1
    BY FS_AddElement
  <2>2. \/ Cardinality(Dots(v, D) \cup {<<y, N>>}) = Cardinality(Dots(v, D))
        \/ Cardinality(Dots(v, D) \cup {<<y, N>>}) = Cardinality(Dots(v, D)) + 1
    BY <1>1, <2>1
  <2>3. IsFiniteSet(Dots(v, D) \cup {<<y, N>>})
    BY <1>1, <2>1
  <2> QED BY <1>1, <2>2, <2>3
<1>4. Cardinality(Dots(w, D)) <= Cardinality(Dots(v, D) \cup {<<y, N>>})
  BY <1>2, <1>3, FS_Subset
<1>5. /\ Cardinality(Dots(w, D)) \in Nat
      /\ Cardinality(Dots(v, D) \cup {<<y, N>>}) \in Nat
  BY <1>1, <1>3, FS_CardinalityType
<1> QED BY <1>1, <1>3, <1>4, <1>5

(***************************************************************************)
(* Quotas.  The room an upload has found is there until it publishes: what *)
(* others do takes rows out of the sums, or marks the upload.              *)
(***************************************************************************)

\* HasRoom, of rows fl whose sums are over K, R and M.
Room(fl, K, R, M, o, n, m) ==
    /\ SizeSum(fl, K) + n <= Quota[o].storage
    /\ Cardinality(K) + m <= Quota[o].items
    /\ SizeSum(fl, R) + n <= Quota[o].daily
    /\ SizeSum(fl, M) + n <= Quota[o].monthly

LEMMA TotalIsSum == \A S : Total(S) = SizeSum(file, S)
BY DEF Total, SizeSum, MapThenSumSet, MapThenFoldSet

LEMMA RoomIsRoom ==
    ASSUME NEW o, NEW n, NEW m
    PROVE  /\ HasRoom(o, n, m) <=>
                  Room(file, Kept(o), Recent(Own(o)), Monthly(Own(o)), o, n, m)
           /\ HasRoom(o, n, m)' <=>
                  Room(file', Kept(o)', Recent(Own(o))', Monthly(Own(o))', o, n, m)
BY DEF HasRoom, Room, Total, SizeSum, MapThenSumSet, MapThenFoldSet

\* Any of the rows that count are finitely many, and have sizes.
LEMMA CountedRows ==
    ASSUME QuotasAssumption, QuotasTypeOK, NEW o, NEW S \in SUBSET OwnedBy(o)
    PROVE  /\ IsFiniteSet(S) /\ Cardinality(S) \in Nat /\ Total(S) \in Nat
           /\ \A f \in S : file[f] \in FileRow /\ file[f].size \in Nat
<1>1. \A f \in S : f \in File /\ file[f] \in FileRow
  BY DEF OwnedBy, QuotasTypeOK
<1>2. \A f \in S : file[f].size \in Nat
  BY <1>1 DEF FileRow, QuotasAssumption
<1>3. IsFiniteSet(S) /\ Cardinality(S) \in Nat
  <2>1. S \in SUBSET File
    BY <1>1
  <2> QED BY <2>1, FS_Subset, FS_CardinalityType DEF QuotasAssumption
<1>4. Total(S) \in Nat
  BY <1>2, <1>3, SumInNat, TotalIsSum
<1> QED BY <1>1, <1>2, <1>3, <1>4

\* What an owner has for its own uploads is part of what it has.
LEMMA OwnParts ==
    ASSUME NEW o
    PROVE  /\ Own(o) \subseteq OwnedBy(o)
           /\ Kept(o) \subseteq Stored(OwnedBy(o))
           /\ Recent(Own(o)) \subseteq Recent(OwnedBy(o))
           /\ Monthly(Own(o)) \subseteq Monthly(OwnedBy(o))
           /\ Stored(OwnedBy(o)) \subseteq OwnedBy(o)
           /\ Recent(OwnedBy(o)) \subseteq OwnedBy(o)
           /\ Monthly(OwnedBy(o)) \subseteq OwnedBy(o)
BY DEF Own, Kept, Recent, Monthly, Stored

LEMMA TotalShrinks ==
    ASSUME QuotasAssumption, QuotasTypeOK, NEW o, NEW T \in SUBSET OwnedBy(o),
           NEW S \in SUBSET T
    PROVE  Total(S) <= Total(T) /\ Cardinality(S) <= Cardinality(T)
<1>1. IsFiniteSet(T) /\ \A f \in T : file[f].size \in Nat
  BY CountedRows
<1>2. Total(S) = SizeSum(file, S) /\ Total(T) = SizeSum(file, T)
  BY TotalIsSum
<1> QED BY <1>1, <1>2, SumShrinks, FS_Subset

\* check_quota admits against more than what an owner's own uploads have.
LEMMA AdmittedHasRoom ==
    ASSUME QuotasAssumption, QuotasTypeOK, NEW o \in QuotasOwner, NEW n \in Nat,
           WithinQuota(o, n)
    PROVE  HasRoom(o, n, 1)
<1> DEFINE S == Stored(OwnedBy(o))
           R == Recent(OwnedBy(o))
           M == Monthly(OwnedBy(o))
<1>1. /\ Total(Kept(o)) <= Total(S) /\ Cardinality(Kept(o)) <= Cardinality(S)
      /\ Total(Recent(Own(o))) <= Total(R) /\ Total(Monthly(Own(o))) <= Total(M)
  BY OwnParts, TotalShrinks
<1>2. /\ Total(Kept(o)) \in Nat /\ Total(S) \in Nat
      /\ Cardinality(Kept(o)) \in Nat /\ Cardinality(S) \in Nat
      /\ Total(Recent(Own(o))) \in Nat /\ Total(R) \in Nat
      /\ Total(Monthly(Own(o))) \in Nat /\ Total(M) \in Nat
  BY OwnParts, CountedRows
<1>3. /\ Quota[o].storage \in Nat /\ Quota[o].items \in Nat
      /\ Quota[o].daily \in Nat /\ Quota[o].monthly \in Nat
  BY DEF QuotasAssumption
<1>4. /\ Total(S) + n <= Quota[o].storage /\ Cardinality(S) + 1 <= Quota[o].items
      /\ Total(R) + n <= Quota[o].daily /\ Total(M) + n <= Quota[o].monthly
  BY DEF WithinQuota, Usage
<1> HIDE DEF S, R, M
<1>5. /\ Total(Kept(o)) + n <= Quota[o].storage
      /\ Total(Recent(Own(o))) + n <= Quota[o].daily
      /\ Total(Monthly(Own(o))) + n <= Quota[o].monthly
  BY <1>1, <1>2, <1>3, <1>4
<1>6. Cardinality(Kept(o)) + 1 <= Quota[o].items
  BY <1>1, <1>2, <1>3, <1>4
<1> QED BY <1>5, <1>6 DEF HasRoom

\* What rows of finitely many files add up to.
RowSizes(fl, T) == IsFiniteSet(T) /\ \A f \in T : fl[f].size \in Nat

LEMMA SumsAreNat ==
    ASSUME NEW fl, NEW T, RowSizes(fl, T)
    PROVE  SizeSum(fl, T) \in Nat /\ Cardinality(T) \in Nat
BY SumInNat, FS_CardinalityType DEF RowSizes

LEMMA QuotaIsNat ==
    ASSUME QuotasAssumption, NEW o \in QuotasOwner
    PROVE  /\ Quota[o].storage \in Nat /\ Quota[o].items \in Nat
           /\ Quota[o].daily \in Nat /\ Quota[o].monthly \in Nat
BY DEF QuotasAssumption

\* Sums over fewer rows of the same sizes leave the room there was.
LEMMA RoomStays ==
    ASSUME QuotasAssumption, NEW o \in QuotasOwner, NEW n \in Nat, NEW m \in Nat,
           NEW fl, NEW K, NEW R, NEW M, Room(fl, K, R, M, o, n, m),
           RowSizes(fl, K), RowSizes(fl, R), RowSizes(fl, M),
           NEW gl, NEW K1 \in SUBSET K, NEW R1 \in SUBSET R, NEW M1 \in SUBSET M,
           \A f \in K1 \cup R1 \cup M1 : gl[f].size = fl[f].size
    PROVE  Room(gl, K1, R1, M1, o, n, m)
<1>1. ASSUME NEW T, RowSizes(fl, T), NEW S \in SUBSET T, \A f \in S : gl[f].size = fl[f].size
      PROVE  /\ SizeSum(gl, S) <= SizeSum(fl, T) /\ Cardinality(S) <= Cardinality(T)
             /\ RowSizes(gl, S)
  BY <1>1, SumShrinks, FS_Subset DEF RowSizes
<1>2. /\ SizeSum(gl, K1) <= SizeSum(fl, K) /\ Cardinality(K1) <= Cardinality(K)
      /\ SizeSum(gl, R1) <= SizeSum(fl, R) /\ SizeSum(gl, M1) <= SizeSum(fl, M)
      /\ RowSizes(gl, K1) /\ RowSizes(gl, R1) /\ RowSizes(gl, M1)
  BY <1>1
<1>3. /\ SizeSum(gl, K1) \in Nat /\ SizeSum(fl, K) \in Nat
      /\ Cardinality(K1) \in Nat /\ Cardinality(K) \in Nat
      /\ SizeSum(gl, R1) \in Nat /\ SizeSum(fl, R) \in Nat
      /\ SizeSum(gl, M1) \in Nat /\ SizeSum(fl, M) \in Nat
  BY <1>2, SumsAreNat
<1> QED BY <1>2, <1>3, QuotaIsNat DEF Room

\* The room for a file is used up when sums take that file in.
LEMMA RoomTaken ==
    ASSUME QuotasAssumption, NEW o \in QuotasOwner, NEW n \in Nat,
           NEW fl, NEW K, NEW R, NEW M, Room(fl, K, R, M, o, n, 1),
           RowSizes(fl, K), RowSizes(fl, R), RowSizes(fl, M),
           NEW gl, NEW x, gl[x].size = n,
           \A f \in K \cup R \cup M : gl[f].size = fl[f].size /\ f # x
    PROVE  Room(gl, K \cup {x}, R \cup {x}, M \cup {x}, o, 0, 0)
<1>1. ASSUME NEW T, RowSizes(fl, T), \A f \in T : gl[f].size = fl[f].size /\ f # x
      PROVE  /\ SizeSum(gl, T \cup {x}) <= SizeSum(fl, T) + n
             /\ SizeSum(gl, T \cup {x}) \in Nat
             /\ Cardinality(T \cup {x}) = Cardinality(T) + 1
  <2>1. IsFiniteSet(T \cup {x}) /\ Cardinality(T \cup {x}) = Cardinality(T) + 1
    BY <1>1, FS_AddElement DEF RowSizes
  <2>2. RowSizes(gl, T \cup {x}) /\ RowSizes(gl, T) /\ (T \cup {x}) \ {x} = T
    BY <1>1, <2>1 DEF RowSizes
  <2>3. SizeSum(gl, T \cup {x}) = n + SizeSum(gl, T)
    <3> DEFINE U == T \cup {x}
    <3>1. x \in U /\ IsFiniteSet(U) /\ \A f \in U : gl[f].size \in Nat
      BY <2>2 DEF RowSizes
    <3> HIDE DEF U
    <3>2. SizeSum(gl, U) = gl[x].size + SizeSum(gl, U \ {x})
      BY <3>1, SumGrows
    <3> QED BY <2>2, <3>2 DEF U
  <2>4. SizeSum(gl, T) <= SizeSum(fl, T)
    BY <1>1, SumShrinks DEF RowSizes
  <2> QED BY <1>1, <2>1, <2>2, <2>3, <2>4, SumsAreNat
<1>2. /\ SizeSum(gl, K \cup {x}) <= SizeSum(fl, K) + n /\ SizeSum(gl, K \cup {x}) \in Nat
      /\ SizeSum(gl, R \cup {x}) <= SizeSum(fl, R) + n /\ SizeSum(gl, R \cup {x}) \in Nat
      /\ SizeSum(gl, M \cup {x}) <= SizeSum(fl, M) + n /\ SizeSum(gl, M \cup {x}) \in Nat
      /\ Cardinality(K \cup {x}) = Cardinality(K) + 1
  BY <1>1
<1>3. /\ SizeSum(fl, K) \in Nat /\ SizeSum(fl, R) \in Nat /\ SizeSum(fl, M) \in Nat
      /\ Cardinality(K) \in Nat
  BY SumsAreNat
<1> QED BY <1>2, <1>3, QuotaIsNat DEF Room

LEMMA OwnSizes ==
    ASSUME QuotasAssumption, QuotasTypeOK, NEW o
    PROVE  /\ RowSizes(file, Kept(o)) /\ RowSizes(file, Recent(Own(o)))
           /\ RowSizes(file, Monthly(Own(o)))
BY OwnParts, CountedRows DEF RowSizes

\* A step that takes rows out of an owner's sums, or none, leaves the room it had.
LEMMA RoomKept ==
    ASSUME QuotasAssumption, QuotasTypeOK, NEW o \in QuotasOwner, NEW n \in Nat,
           NEW m \in Nat, HasRoom(o, n, m),
           Kept(o)' \subseteq Kept(o), Recent(Own(o))' \subseteq Recent(Own(o)),
           Monthly(Own(o))' \subseteq Monthly(Own(o)),
           \A f \in OwnedBy(o) : file'[f].size = file[f].size
    PROVE  HasRoom(o, n, m)'
<1>1. \A f \in Kept(o)' \cup Recent(Own(o))' \cup Monthly(Own(o))' :
         file'[f].size = file[f].size
  BY OwnParts
<1>2. Room(file', Kept(o)', Recent(Own(o))', Monthly(Own(o))', o, n, m)
  BY <1>1, RoomStays, RoomIsRoom, OwnSizes
<1> QED BY <1>2, RoomIsRoom

\* Nothing an owner has room for is lost by a step that writes one row f and takes it
\* out of sums, or none.
LEMMA RowTakenOut ==
    ASSUME QuotasAssumption, QuotasInvariant, NEW f \in File, NEW row \in FileRow,
           file[f] # NoRow, file' = [file EXCEPT ![f] = row], UNCHANGED inside,
           row.size = file[f].size,
           row.came \in {"upload", "back"} =>
               file[f].came \in {"upload", "back"} /\ row.owner = file[f].owner,
           row.came = "upload" => file[f].came = "upload",
           row.came = "upload" /\ row.state \in {"active", "quarantined"} =>
               file[f].state \in {"active", "quarantined"},
           row.age = "day" => file[f].age = "day",
           row.age = "month" => file[f].age \in {"day", "month"}
    PROVE  QuotasInvariant'
<1>1. QuotasTypeOK /\ QuotasTypeOK'
  BY DEF QuotasInvariant, QuotasTypeOK
<1>2. \A g \in File : IF g = f THEN file'[g] = row ELSE file'[g] = file[g]
  BY <1>1 DEF QuotasTypeOK
<1>3. ASSUME NEW o PROVE Own(o)' \subseteq Own(o)
  BY <1>2 DEF Own, OwnedBy
<1>4. ASSUME NEW o PROVE Kept(o)' \subseteq Kept(o)
  <2> SUFFICES ASSUME NEW g \in Kept(o)' PROVE g \in Kept(o)
    OBVIOUS
  <2>1. /\ g \in Own(o) /\ g \in File /\ file'[g].came = "upload"
        /\ file'[g].state \in {"active", "quarantined"}
    BY <1>3 DEF Kept, Stored, Own, OwnedBy
  <2> QED BY <1>2, <2>1 DEF Kept, Stored
<1>5. ASSUME NEW o
      PROVE  /\ Recent(Own(o))' \subseteq Recent(Own(o))
             /\ Monthly(Own(o))' \subseteq Monthly(Own(o))
  <2>1. Own(o)' \subseteq Own(o) /\ Own(o) \subseteq File
    BY <1>3 DEF Own, OwnedBy
  <2> QED BY <1>2, <2>1 DEF Recent, Monthly
<1>6. ASSUME NEW o PROVE \A g \in OwnedBy(o) : file'[g].size = file[g].size
  BY <1>2 DEF OwnedBy
<1>7. ASSUME NEW o \in QuotasOwner, NEW n \in Nat, NEW m \in Nat, HasRoom(o, n, m)
      PROVE  HasRoom(o, n, m)'
  BY <1>1, <1>4, <1>5, <1>6, <1>7, RoomKept
<1>8. QuotaHolds'
  BY <1>7 DEF QuotasInvariant, QuotaHolds
<1>9. ASSUME NEW s \in Replica PROVE RoomForUpload(s)'
  <2> SUFFICES ASSUME inside[s] # NoRow, inside[s].came = "upload"
               PROVE  HasRoom(inside[s].owner, inside[s].size, 1)'
    BY DEF RoomForUpload
  <2>1. HasRoom(inside[s].owner, inside[s].size, 1)
    BY DEF QuotasInvariant, RoomForUpload
  <2>2. inside[s].owner \in QuotasOwner /\ inside[s].size \in Nat
    BY <1>1 DEF QuotasTypeOK, UploadRow, QuotasAssumption
  <2>3. \A o \in QuotasOwner : \A n \in Nat : HasRoom(o, n, 1) => HasRoom(o, n, 1)'
    BY <1>7
  <2>4. \A o \in QuotasOwner : \A n \in Nat : 
           inside[s].owner = o /\ inside[s].size = n => HasRoom(o, n, 1)'
    BY <2>1, <2>3
  <2> QED BY <2>2, <2>4
<1> QED BY <1>1, <1>8, <1>9 DEF QuotasInvariant

LEMMA RowOfFile ==
    ASSUME QuotasInvariant, NEW f \in File, file[f] # NoRow
    PROVE  file[f] \in FileRow
BY DEF QuotasInvariant, QuotasTypeOK

LEMMA AgeStep ==
    ASSUME QuotasAssumption, QuotasInvariant, NEW f \in File, Age(f)
    PROVE  QuotasInvariant'
<1> DEFINE row == [file[f] EXCEPT !.age = IF @ = "day" THEN "month" ELSE "old"]
<1>1. file[f] # NoRow /\ UNCHANGED inside /\ file' = [file EXCEPT ![f] = row]
  BY DEF Age
<1>2. file[f] \in FileRow
  BY <1>1, RowOfFile
<1>3. /\ row \in FileRow /\ row.size = file[f].size /\ row.owner = file[f].owner
      /\ row.came = file[f].came /\ row.state = file[f].state
      /\ row.age # "day"
      /\ row.age = "month" => file[f].age = "day"
  BY <1>2 DEF FileRow
<1> HIDE DEF row
<1> QED BY <1>1, <1>3, RowTakenOut

LEMMA RetireFileStep ==
    ASSUME QuotasAssumption, QuotasInvariant, NEW f \in File, RetireFile(f)
    PROVE  QuotasInvariant'
<1> DEFINE row == [file[f] EXCEPT !.state = "gone"]
<1>1. file[f] # NoRow /\ UNCHANGED inside /\ file' = [file EXCEPT ![f] = row]
  BY DEF RetireFile
<1>2. file[f] \in FileRow
  BY <1>1, RowOfFile
<1>3. /\ row \in FileRow /\ row.size = file[f].size /\ row.owner = file[f].owner
      /\ row.came = file[f].came /\ row.age = file[f].age /\ row.state = "gone"
  BY <1>2 DEF FileRow, FileStates
<1> HIDE DEF row
<1> QED BY <1>1, <1>3, RowTakenOut

\* What was held comes back marked, so it is not among what was kept all along.
LEMMA ModerateFileStep ==
    ASSUME QuotasAssumption, QuotasInvariant, NEW f \in File, NEW to \in FileStates,
           ModerateFile(f, to)
    PROVE  QuotasInvariant'
<1> DEFINE back == to \in {"active", "quarantined"} /\ file[f].state = "held"
                   /\ file[f].came = "upload"
           row == [file[f] EXCEPT !.state = to, !.came = IF back THEN "back" ELSE @]
<1>1. /\ file[f] # NoRow /\ UNCHANGED inside /\ file' = [file EXCEPT ![f] = row]
      /\ file[f].state # "gone"
  BY DEF ModerateFile
<1>2. file[f] \in FileRow
  BY <1>1, RowOfFile
<1>3. /\ row \in FileRow /\ row.size = file[f].size /\ row.owner = file[f].owner
      /\ row.age = file[f].age /\ row.state = to
      /\ row.came = IF back THEN "back" ELSE file[f].came
  BY <1>2 DEF FileRow, Origins
<1>4. /\ row.came \in {"upload", "back"} => file[f].came \in {"upload", "back"}
      /\ row.came = "upload" => file[f].came = "upload"
      /\ row.came = "upload" /\ row.state \in {"active", "quarantined"} =>
             file[f].state \in {"active", "quarantined"}
  BY <1>1, <1>2, <1>3 DEF FileRow, FileStates
<1> HIDE DEF row
<1> QED BY <1>1, <1>3, <1>4, RowTakenOut

LEMMA ClaimFileStep ==
    ASSUME QuotasAssumption, QuotasInvariant, NEW u \in Account, NEW f \in File,
           ClaimFile(u, f)
    PROVE  QuotasInvariant'
<1> DEFINE row == [file[f] EXCEPT !.owner = u, !.came = "claim"]
<1>1. file[f] # NoRow /\ UNCHANGED inside /\ file' = [file EXCEPT ![f] = row]
  BY DEF ClaimFile
<1>2. file[f] \in FileRow
  BY <1>1, RowOfFile
<1>3. /\ row \in FileRow /\ row.size = file[f].size /\ row.state = file[f].state
      /\ row.age = file[f].age /\ row.came = "claim"
  BY <1>2 DEF FileRow, Origins, QuotasOwner
<1> HIDE DEF row
<1> QED BY <1>1, <1>3, RowTakenOut

\* What no row changes for.
LEMMA SameRows ==
    ASSUME NEW o, NEW n, NEW m, UNCHANGED file
    PROVE  HasRoom(o, n, m)' <=> HasRoom(o, n, m)
<1>1. /\ Kept(o)' = Kept(o) /\ Recent(Own(o))' = Recent(Own(o))
      /\ Monthly(Own(o))' = Monthly(Own(o))
  BY DEF Kept, Own, OwnedBy, Stored, Recent, Monthly
<1> QED BY <1>1, RoomIsRoom

LEMMA EnforceQuotaStep ==
    ASSUME QuotasAssumption, QuotasInvariant, NEW s \in Replica, NEW o \in QuotasOwner,
           NEW n \in Sizes, EnforceQuota(s, o, n)
    PROVE  QuotasInvariant'
<1> DEFINE u == [owner |-> o, size |-> n, came |-> "upload"]
<1>1. /\ QuotasTypeOK /\ WithinQuota(o, n) /\ UNCHANGED file
      /\ inside' = [inside EXCEPT ![s] = u]
  BY DEF EnforceQuota, QuotasInvariant
<1>2. n \in Nat
  BY DEF QuotasAssumption
<1>3. HasRoom(o, n, 1)
  BY <1>1, <1>2, AdmittedHasRoom
<1>4. u \in UploadRow /\ u.owner = o /\ u.size = n
  BY DEF UploadRow
<1> HIDE DEF u
<1>5. QuotasTypeOK'
  BY <1>1, <1>4 DEF QuotasTypeOK
<1>6. QuotaHolds'
  BY <1>1, SameRows DEF QuotasInvariant, QuotaHolds
<1>7. ASSUME NEW q \in Replica PROVE RoomForUpload(q)'
  <2>1. CASE q = s
    <3>1. inside'[q] = u
      BY <1>1, <2>1 DEF QuotasTypeOK
    <3>2. HasRoom(o, n, 1)'
      BY <1>1, <1>3, SameRows
    <3> QED BY <1>4, <3>1, <3>2 DEF RoomForUpload
  <2>2. CASE q # s
    <3>1. inside'[q] = inside[q]
      BY <1>1, <2>2 DEF QuotasTypeOK
    <3>2. RoomForUpload(q)
      BY DEF QuotasInvariant
    <3>3. HasRoom(inside[q].owner, inside[q].size, 1)'
              <=> HasRoom(inside[q].owner, inside[q].size, 1)
      BY <1>1, <3>1, SameRows
    <3> QED BY <3>1, <3>2, <3>3 DEF RoomForUpload
  <2> QED BY <2>1, <2>2
<1> QED BY <1>5, <1>6, <1>7 DEF QuotasInvariant

LEMMA AbandonUploadStep ==
    ASSUME QuotasAssumption, QuotasInvariant, NEW s \in Replica, AbandonUpload(s)
    PROVE  QuotasInvariant'
<1>1. QuotasTypeOK /\ UNCHANGED file /\ inside' = [inside EXCEPT ![s] = NoRow]
  BY DEF AbandonUpload, QuotasInvariant
<1>2. QuotasTypeOK'
  BY <1>1 DEF QuotasTypeOK
<1>3. QuotaHolds'
  BY <1>1, SameRows DEF QuotasInvariant, QuotaHolds
<1>4. ASSUME NEW q \in Replica PROVE RoomForUpload(q)'
  <2>1. CASE q = s
    BY <1>1, <2>1 DEF QuotasTypeOK, RoomForUpload
  <2>2. CASE q # s
    <3>1. inside'[q] = inside[q]
      BY <1>1, <2>2 DEF QuotasTypeOK
    <3>2. RoomForUpload(q)
      BY DEF QuotasInvariant
    <3>3. HasRoom(inside[q].owner, inside[q].size, 1)'
              <=> HasRoom(inside[q].owner, inside[q].size, 1)
      BY <1>1, <3>1, SameRows
    <3> QED BY <3>1, <3>2, <3>3 DEF RoomForUpload
  <2> QED BY <2>1, <2>2
<1> QED BY <1>2, <1>3, <1>4 DEF QuotasInvariant

\* The file is counted where its upload had room, or marked as one from beside.  Uploads of
\* the same owner that are still inside are marked in turn.
LEMMA PublishStep ==
    ASSUME QuotasAssumption, QuotasInvariant, NEW s \in Replica, NEW f \in File,
           NEW to \in {"active", "quarantined"}, Publish(s, f, to)
    PROVE  QuotasInvariant'
<1> DEFINE u == inside[s]
           row == [owner |-> u.owner, state |-> to, size |-> u.size, age |-> "day",
                   came |-> u.came]
<1>1. /\ QuotasTypeOK /\ QuotaHolds /\ u # NoRow /\ file[f] = NoRow
      /\ file' = [file EXCEPT ![f] = row]
      /\ \A q \in Replica : RoomForUpload(q)
      /\ inside' = [q \in Replica |->
             IF q = s \/ inside[q] = NoRow THEN NoRow
             ELSE IF inside[q].owner = u.owner THEN [inside[q] EXCEPT !.came = "beside"]
             ELSE inside[q]]
  BY DEF Publish, QuotasInvariant
<1>2. u \in UploadRow
  BY <1>1 DEF QuotasTypeOK
<1>3. u.owner \in QuotasOwner /\ u.size \in Nat /\ u.came \in {"upload", "beside"}
  BY <1>2 DEF UploadRow, QuotasAssumption
<1>4. /\ row \in FileRow /\ row.owner = u.owner /\ row.size = u.size
      /\ row.came = u.came /\ row.state = to /\ row.age = "day"
  BY <1>2 DEF FileRow, UploadRow, FileStates, Origins
<1> HIDE DEF row
<1>5. \A g \in File : IF g = f THEN file'[g] = row ELSE file'[g] = file[g]
  BY <1>1 DEF QuotasTypeOK
<1>6. QuotasTypeOK'
  <2>1. \A q \in Replica : inside[q] # NoRow =>
           inside[q] \in UploadRow /\ [inside[q] EXCEPT !.came = "beside"] \in UploadRow
    BY <1>1 DEF QuotasTypeOK, UploadRow
  <2> QED BY <1>1, <1>4, <2>1 DEF QuotasTypeOK
<1>7. ASSUME NEW o \in QuotasOwner, o # u.owner \/ u.came = "beside", NEW n \in Nat,
             NEW m \in Nat, HasRoom(o, n, m)
      PROVE  HasRoom(o, n, m)'
  <2>1. Own(o)' = Own(o) /\ Own(o) \subseteq File /\ f \notin Own(o)
    BY <1>1, <1>4, <1>5, <1>7 DEF Own, OwnedBy
  <2>2. \A g \in Own(o) : file'[g] = file[g]
    BY <1>5, <2>1
  <2>3. /\ Kept(o)' = Kept(o) /\ Recent(Own(o))' = Recent(Own(o))
        /\ Monthly(Own(o))' = Monthly(Own(o))
    BY <2>1, <2>2 DEF Kept, Stored, Recent, Monthly
  <2>4. \A g \in OwnedBy(o) : file'[g].size = file[g].size
    BY <1>1, <1>5 DEF OwnedBy
  <2> QED BY <1>1, <1>7, <2>3, <2>4, RoomKept
<1>8. ASSUME NEW o \in QuotasOwner, o = u.owner, u.came = "upload" PROVE HasRoom(o, 0, 0)'
  <2> DEFINE n == u.size
             K == Kept(o) \cup {f}
             R == Recent(Own(o)) \cup {f}
             M == Monthly(Own(o)) \cup {f}
  <2>1. HasRoom(o, n, 1)
    BY <1>1, <1>8 DEF RoomForUpload
  <2>2. Own(o) \subseteq File /\ f \notin Own(o)
    BY <1>1 DEF Own, OwnedBy
  <2>3. /\ Kept(o) \subseteq Own(o) /\ Recent(Own(o)) \subseteq Own(o)
        /\ Monthly(Own(o)) \subseteq Own(o)
    BY DEF Kept, Stored, Recent, Monthly
  <2>4. \A g \in Kept(o) \cup Recent(Own(o)) \cup Monthly(Own(o)) :
           file'[g].size = file[g].size /\ g # f
    BY <1>5, <2>2, <2>3
  <2>5. Kept(o)' \subseteq K /\ Recent(Own(o))' \subseteq R /\ Monthly(Own(o))' \subseteq M
    BY <1>5 DEF Kept, Stored, Recent, Monthly, Own, OwnedBy
  <2>6. file'[f].size = n /\ n \in Nat
    BY <1>3, <1>4, <1>5
  <2>7. /\ Room(file, Kept(o), Recent(Own(o)), Monthly(Own(o)), o, n, 1)
        /\ RowSizes(file, Kept(o)) /\ RowSizes(file, Recent(Own(o)))
        /\ RowSizes(file, Monthly(Own(o)))
    BY <1>1, <2>1, RoomIsRoom, OwnSizes
  <2>8. RowSizes(file', K) /\ RowSizes(file', R) /\ RowSizes(file', M)
    BY <2>4, <2>6, <2>7, FS_AddElement DEF RowSizes
  <2>9. Room(file', K, R, M, o, 0, 0)
    <3> HIDE DEF n
    <3> QED BY <2>4, <2>6, <2>7, RoomTaken
  <2> HIDE DEF K, R, M, n
  <2>10. Room(file', Kept(o)', Recent(Own(o))', Monthly(Own(o))', o, 0, 0)
    BY <2>5, <2>8, <2>9, RoomStays
  <2> QED BY <2>10, RoomIsRoom
<1>9. QuotaHolds'
  <2> SUFFICES ASSUME NEW o \in QuotasOwner PROVE HasRoom(o, 0, 0)'
    BY DEF QuotaHolds
  <2>1. CASE o # u.owner \/ u.came = "beside"
    BY <1>1, <1>7, <2>1 DEF QuotaHolds
  <2>2. CASE o = u.owner /\ u.came = "upload"
    BY <1>8, <2>2
  <2> QED BY <1>3, <2>1, <2>2
<1>10. ASSUME NEW q \in Replica PROVE RoomForUpload(q)'
  <2> SUFFICES ASSUME inside'[q] # NoRow, inside'[q].came = "upload"
               PROVE  HasRoom(inside[q].owner, inside[q].size, 1)'
    BY DEF RoomForUpload
  <2>1. inside[q] \in UploadRow \cup {NoRow}
    BY <1>1 DEF QuotasTypeOK
  <2>2. inside'[q] = inside[q] /\ inside[q] # NoRow /\ inside[q].owner # u.owner
    <3>1. q # s /\ inside[q] # NoRow
      BY <1>1
    <3>2. inside[q].owner # u.owner
      BY <1>1, <2>1, <3>1 DEF UploadRow
    <3> QED BY <1>1, <3>1, <3>2
  <2>3. HasRoom(inside[q].owner, inside[q].size, 1)
    BY <1>1, <2>2 DEF RoomForUpload
  <2>4. inside[q].owner \in QuotasOwner /\ inside[q].size \in Nat
    BY <2>1, <2>2 DEF UploadRow, QuotasAssumption
  <2>5. \A o \in QuotasOwner : \A n \in Nat :
           o # u.owner /\ HasRoom(o, n, 1) => HasRoom(o, n, 1)'
    BY <1>7
  <2>6. \A o \in QuotasOwner : \A n \in Nat :
           inside[q].owner = o /\ inside[q].size = n => HasRoom(o, n, 1)'
    BY <2>2, <2>3, <2>5
  <2> QED BY <2>2, <2>4, <2>6
<1> QED BY <1>6, <1>9, <1>10 DEF QuotasInvariant

LEMMA QuotasInitInvariant == ASSUME QuotasAssumption, QuotasInit PROVE QuotasInvariant
<1>1. QuotasTypeOK /\ \A s \in Replica : RoomForUpload(s)
  BY DEF QuotasInit, QuotasTypeOK, RoomForUpload
<1>2. ASSUME NEW o \in QuotasOwner PROVE HasRoom(o, 0, 0)
  <2>1. Kept(o) = {} /\ Recent(Own(o)) = {} /\ Monthly(Own(o)) = {}
    BY DEF QuotasInit, Kept, Stored, Recent, Monthly, Own, OwnedBy
  <2>2. SizeSum(file, {}) = 0
    <3>1. Sized(file, {}) = {}
      BY DEF Sized, Dots
    <3> QED BY <3>1, FS_EmptySet, SumIsCardinality
  <2>3. Room(file, {}, {}, {}, o, 0, 0)
    BY <2>2, QuotaIsNat, FS_EmptySet DEF Room
  <2> QED BY <2>1, <2>3, RoomIsRoom
<1> QED BY <1>1, <1>2 DEF QuotasInvariant, QuotaHolds

LEMMA QuotasStepInvariant ==
    ASSUME QuotasAssumption, QuotasInvariant, [QuotasNext]_quotaVars
    PROVE  QuotasInvariant'
<1>1. ASSUME NEW s \in Replica, NEW o \in QuotasOwner, NEW n \in Sizes, EnforceQuota(s, o, n)
      PROVE  QuotasInvariant'
  BY <1>1, EnforceQuotaStep
<1>2. ASSUME NEW s \in Replica, NEW f \in File, NEW to \in {"active", "quarantined"},
             Publish(s, f, to)
      PROVE  QuotasInvariant'
  BY <1>2, PublishStep
<1>3. ASSUME NEW s \in Replica, AbandonUpload(s) PROVE QuotasInvariant'
  BY <1>3, AbandonUploadStep
<1>4. ASSUME NEW f \in File, Age(f) PROVE QuotasInvariant'
  BY <1>4, AgeStep
<1>5. ASSUME NEW f \in File, NEW u \in Account, ClaimFile(u, f) PROVE QuotasInvariant'
  BY <1>5, ClaimFileStep
<1>6. ASSUME NEW f \in File, RetireFile(f) PROVE QuotasInvariant'
  BY <1>6, RetireFileStep
<1>7. ASSUME NEW f \in File, NEW to \in FileStates, ModerateFile(f, to)
      PROVE  QuotasInvariant'
  BY <1>7, ModerateFileStep
<1>8. CASE UNCHANGED quotaVars
  <2>1. UNCHANGED file /\ UNCHANGED inside
    BY <1>8 DEF quotaVars
  <2>2. QuotasTypeOK' /\ QuotaHolds'
    BY <2>1, SameRows DEF QuotasInvariant, QuotasTypeOK, QuotaHolds
  <2>3. ASSUME NEW s \in Replica PROVE RoomForUpload(s)'
    <3>1. HasRoom(inside[s].owner, inside[s].size, 1)'
              <=> HasRoom(inside[s].owner, inside[s].size, 1)
      BY <2>1, SameRows
    <3> QED BY <2>1, <3>1 DEF QuotasInvariant, RoomForUpload
  <2> QED BY <2>2, <2>3 DEF QuotasInvariant
<1> QED BY <1>1, <1>2, <1>3, <1>4, <1>5, <1>6, <1>7, <1>8 DEF QuotasNext

\* Neither deleting nor another upload of the process gets more in than the quota of an
\* owner (check_quota under upload_quota_lock), for any number of owners, files and processes.
THEOREM QuotasHold == QuotasSpec => []QuotasInvariant
<1>1. QuotasInit => QuotasInvariant
  BY QuotasAssumption, QuotasInitInvariant
<1>2. QuotasInvariant /\ [QuotasNext]_quotaVars => QuotasInvariant'
  BY QuotasAssumption, QuotasStepInvariant
<1> QED BY <1>1, <1>2, PTL DEF QuotasSpec

(***************************************************************************)
(* RateLimit.  A key has one bucket, which is all that a check looks at.    *)
(***************************************************************************)

LEMMA LimitPositive ==
    ASSUME RateLimitAssumption, NEW k \in Key
    PROVE  Limit(k) \in Nat \ {0} /\ WindowOf(k) \in Nat \ {0}
BY DEF RateLimitAssumption, Key, Limit, WindowOf

\* What is kept of the buckets is as good as they were.
LEMMA CountedKept ==
    ASSUME NEW B, NEW C \in SUBSET B, Counted(B)
    PROVE  Counted(C)
BY DEF Counted, Of

\* One more request in a bucket that is not full, and was there or is the key's first.
LEMMA CountedOneMore ==
    ASSUME RateLimitAssumption, NEW B \in SUBSET Bucket, Counted(B), NEW b,
           \/ b \in B
           \/ \E k \in Key, at \in 0..Eternity : b = Fresh(k, at) /\ Of(B, k) = {},
           b.count < Limit(b.key)
    PROVE  /\ (B \ {b}) \cup {OneMore(b)} \in SUBSET Bucket
           /\ Counted((B \ {b}) \cup {OneMore(b)})
<1> DEFINE more == OneMore(b)
           C == (B \ {b}) \cup {more}
<1>1. b \in Bucket /\ Of(B \ {b}, b.key) = {}
  BY DEF Bucket, Counted, Of, Fresh
<1>2. more \in Bucket /\ more.key = b.key /\ more.count = b.count + 1
  BY <1>1 DEF Bucket, OneMore
<1>3. more.count \in 1..Limit(more.key)
  BY <1>1, <1>2, LimitPositive DEF Bucket
<1> HIDE DEF more
<1>4. C \in SUBSET Bucket
  BY <1>2
<1>5. ASSUME NEW c \in C PROVE c.count \in 1..Limit(c.key) /\ Of(C, c.key) = {c}
  <2>1. CASE c = more
    BY <2>1, <1>1, <1>2, <1>3 DEF Of
  <2>2. CASE c \in B \ {b}
    BY <2>2, <1>1, <1>2 DEF Of, Counted
  <2> QED BY <2>1, <2>2
<1> QED BY <1>4, <1>5 DEF Counted, more

\* A history in which nothing is let through after second n.
History == [Process \X Key -> [0..Eternity -> Nat]]
UpTo(ad, n) == \A pk \in Process \X Key : \A u \in n + 1..Eternity : ad[pk][u] = 0

\* What a request that is let through does to the history.
LEMMA AdmitStep ==
    ASSUME RateLimitAssumption, LimitsTypeOK, NEW p \in Process, NEW k \in Key,
           Admit(p, k), now' = now
    PROVE  /\ admitted' \in History /\ UpTo(admitted', now)
           /\ \A q \in Process, j \in Key : \A u \in 0..Eternity :
                 IF q = p /\ j = k /\ u = now
                 THEN admitted'[<<q, j>>][u] = admitted[<<q, j>>][u] + 1
                 ELSE admitted'[<<q, j>>][u] = admitted[<<q, j>>][u]
<1>1. /\ admitted \in History /\ now \in 0..Eternity /\ UpTo(admitted, now)
      /\ Eternity \in Nat
  BY DEF LimitsTypeOK, RateLimitAssumption, History, UpTo
<1> DEFINE f == admitted[<<p, k>>]
           g == [f EXCEPT ![now] = @ + 1]
<1>2. <<p, k>> \in Process \X Key /\ f \in [0..Eternity -> Nat]
  BY <1>1 DEF History
<1> HIDE DEF f
<1>3. /\ g \in [0..Eternity -> Nat] /\ g[now] = f[now] + 1
      /\ \A u \in (0..Eternity) \ {now} : g[u] = f[u]
  BY <1>1, <1>2
<1>4. admitted' = [admitted EXCEPT ![<<p, k>>] = g]
  BY DEF Admit, f
<1> HIDE DEF g
<1>5. admitted' \in History
  BY <1>1, <1>2, <1>3, <1>4 DEF History
<1>6. /\ admitted'[<<p, k>>] = g
      /\ \A q \in Process, j \in Key : q # p \/ j # k =>
            admitted'[<<q, j>>] = admitted[<<q, j>>]
  BY <1>1, <1>2, <1>4 DEF History
<1>7. \A pk \in Process \X Key : pk # <<p, k>> => admitted'[pk] = admitted[pk]
  BY <1>1, <1>4 DEF History
<1>8. UpTo(admitted', now)
  <2> SUFFICES ASSUME NEW pk \in Process \X Key, NEW u \in now + 1..Eternity
               PROVE  admitted'[pk][u] = 0
    BY DEF UpTo
  <2>1. u \in 0..Eternity /\ u # now /\ admitted[pk][u] = 0
    BY <1>1 DEF UpTo
  <2>2. CASE pk = <<p, k>>
    BY <2>1, <2>2, <1>3, <1>6 DEF f
  <2> QED BY <2>1, <2>2, <1>7
<1> QED BY <1>1, <1>3, <1>5, <1>6, <1>8 DEF f

LEMMA LimitsInitTypes == ASSUME RateLimitAssumption, LimitsInit PROVE LimitsTypeOK
BY DEF RateLimitAssumption, LimitsInit, LimitsTypeOK, Counted

LEMMA CheckMemoryTypes ==
    ASSUME RateLimitAssumption, LimitsTypeOK, NEW p \in Process, NEW k \in Key,
           NEW at \in 0..now, CheckMemory(p, k, at)
    PROVE  LimitsTypeOK'
<1> DEFINE kept == Retained(buckets[p], WindowOf(k), at)
           b == IF Of(kept, k) = {} THEN Fresh(k, at) ELSE CHOOSE x \in Of(kept, k) : TRUE
<1>1. kept \in SUBSET Bucket /\ Counted(kept)
  BY CountedKept DEF Retained, LimitsTypeOK
<1>2. at \in 0..Eternity
  BY DEF LimitsTypeOK, RateLimitAssumption
<1>3. \/ b \in kept
      \/ \E j \in Key, u \in 0..Eternity : b = Fresh(j, u) /\ Of(kept, j) = {}
  BY <1>2 DEF Of
<1>4. b.key = k
  BY DEF Of, Fresh
<1>5. b.count >= Limit(k) => b \in kept
  <2>1. b = Fresh(k, at) => b.count = 0
    BY DEF Fresh
  <2>2. ~(0 >= Limit(k))
    BY LimitPositive
  <2>3. b = Fresh(k, at) \/ b \in kept
    BY DEF Of
  <2> QED BY <2>1, <2>2, <2>3
<1>6. \/ /\ b.count >= Limit(k)
         /\ buckets' = [buckets EXCEPT ![p] = kept \cup {b}]
      \/ /\ b.count < Limit(k)
         /\ buckets' = [buckets EXCEPT ![p] = (kept \ {b}) \cup {OneMore(b)}]
  BY DEF CheckMemory
<1>7. ~shared /\ UNCHANGED <<shared, now, rows>>
  BY DEF CheckMemory
<1> HIDE DEF kept, b
<1>8. PICK C : C \in SUBSET Bucket /\ Counted(C) /\ buckets' = [buckets EXCEPT ![p] = C]
  <2>1. CASE b.count >= Limit(k) /\ buckets' = [buckets EXCEPT ![p] = kept \cup {b}]
    <3>1. kept \cup {b} = kept
      BY <2>1, <1>5
    <3> QED BY <2>1, <3>1, <1>1
  <2>2. CASE b.count < Limit(k)
             /\ buckets' = [buckets EXCEPT ![p] = (kept \ {b}) \cup {OneMore(b)}]
    BY <2>2, <1>1, <1>3, <1>4, CountedOneMore
  <2> QED BY <1>6, <2>1, <2>2
<1>9. admitted' \in History /\ UpTo(admitted', now)
  BY <1>7, AdmitStep DEF CheckMemory, LimitsTypeOK, History, UpTo
<1> QED BY <1>7, <1>8, <1>9, ZenonT(60) DEF LimitsTypeOK, Counted, History, UpTo

LEMMA CheckDatabaseTypes ==
    ASSUME RateLimitAssumption, LimitsTypeOK, NEW p \in Process, NEW k \in Key,
           NEW at \in 0..now, CheckDatabase(p, k, at)
    PROVE  LimitsTypeOK'
<1>1. at \in 0..Eternity /\ UNCHANGED <<shared, now, buckets>>
  BY DEF LimitsTypeOK, RateLimitAssumption, CheckDatabase
<1>2. rows \in SUBSET Bucket /\ Counted(rows)
  BY DEF LimitsTypeOK
<1>3. Fresh(k, at).count = 0 /\ Fresh(k, at).key = k /\ 0 < Limit(k)
  BY LimitPositive DEF Fresh
<1>4. rows' \in SUBSET Bucket /\ Counted(rows')
  <2>1. CASE Of(rows, k) = {} /\ rows' = rows \cup {OneMore(Fresh(k, at))}
    <3>1. Fresh(k, at) \notin rows
      BY <2>1, <1>3 DEF Of
    <3>2. rows' = (rows \ {Fresh(k, at)}) \cup {OneMore(Fresh(k, at))}
      BY <2>1, <3>1
    <3> QED BY <2>1, <3>2, <1>1, <1>2, <1>3, CountedOneMore
  <2>2. ASSUME NEW b \in Of(rows, k), b.count < Limit(k),
               rows' = (rows \ {b}) \cup {OneMore(b)}
        PROVE  rows' \in SUBSET Bucket /\ Counted(rows')
    BY <2>2, <1>2, CountedOneMore DEF Of
  <2>3. ASSUME NEW b \in Of(rows, k), rows' = (rows \ {b}) \cup {OneMore(Fresh(k, at))}
        PROVE  rows' \in SUBSET Bucket /\ Counted(rows')
    <3> DEFINE B == rows \ {b}
    <3>1. B \in SUBSET Bucket /\ Counted(B)
      BY <1>2, CountedKept
    <3>2. Of(rows, k) = {b}
      BY <1>2 DEF Counted, Of
    <3>3. Of(B, k) = {} /\ Fresh(k, at) \notin B
      BY <3>2, <1>3 DEF Of
    <3>4. rows' = (B \ {Fresh(k, at)}) \cup {OneMore(Fresh(k, at))}
      BY <2>3, <3>3
    <3> QED BY <3>1, <3>3, <3>4, <1>1, <1>3, CountedOneMore
  <2>4. CASE rows' = rows
    BY <2>4, <1>2
  <2> QED BY <2>1, <2>2, <2>3, <2>4 DEF CheckDatabase
<1>5. admitted' \in History /\ UpTo(admitted', now)
  <2>1. CASE Admit(p, k)
    BY <2>1, <1>1, AdmitStep
  <2>2. CASE UNCHANGED admitted
    BY <2>2 DEF LimitsTypeOK, History, UpTo
  <2> QED BY <2>1, <2>2 DEF CheckDatabase
<1> QED BY <1>1, <1>4, <1>5 DEF LimitsTypeOK, Counted, CheckDatabase, History, UpTo

LEMMA LimitsStepTypes ==
    ASSUME RateLimitAssumption, LimitsTypeOK, [LimitsNext]_limitVars
    PROVE  LimitsTypeOK'
<1>1. ASSUME NEW p \in Process, NEW k \in Key, NEW at \in 0..now,
             CheckMemory(p, k, at) \/ CheckDatabase(p, k, at)
      PROVE  LimitsTypeOK'
  BY <1>1, CheckMemoryTypes, CheckDatabaseTypes
<1>2. ASSUME NEW p \in Process, Restart(p) PROVE LimitsTypeOK'
  <2>1. /\ UNCHANGED <<shared, now, rows>> /\ buckets' = [buckets EXCEPT ![p] = {}]
        /\ admitted \in History /\ UpTo(admitted, now) /\ now \in 0..Eternity
    BY <1>2 DEF Restart, LimitsTypeOK, History, UpTo
  <2>2. /\ DOMAIN admitted = Process \X Key
        /\ [s \in 0..Eternity |-> 0] \in [0..Eternity -> Nat]
    BY <2>1 DEF History
  <2>3. admitted' = [pk \in Process \X Key |->
                        IF pk[1] = p THEN [s \in 0..Eternity |-> 0] ELSE admitted[pk]]
    BY <1>2, <2>2 DEF Restart
  <2>4. admitted' \in History
    BY <2>1, <2>2, <2>3 DEF History
  <2>5. UpTo(admitted', now)
    <3>1. \A u \in now + 1..Eternity : u \in 0..Eternity
      BY <2>1 DEF RateLimitAssumption
    <3> QED BY <2>1, <2>3, <3>1 DEF UpTo
  <2> QED BY <2>1, <2>4, <2>5 DEF LimitsTypeOK, Counted, History, UpTo
<1>3. CASE Cleanup
  <2>1. rows' \in SUBSET rows
    BY <1>3 DEF Cleanup
  <2>2. Counted(rows')
    BY <2>1, CountedKept DEF LimitsTypeOK
  <2> QED BY <1>3, <2>1, <2>2 DEF Cleanup, LimitsTypeOK, Counted
<1>4. CASE Tick
  <2>1. now' \in 0..Eternity /\ now' + 1..Eternity \subseteq now + 1..Eternity
    BY <1>4 DEF Tick, LimitsTypeOK, RateLimitAssumption
  <2> QED BY <1>4, <2>1 DEF Tick, LimitsTypeOK, Counted
<1>5. CASE UNCHANGED limitVars
  BY <1>5 DEF limitVars, LimitsTypeOK, Counted
<1> QED BY <1>1, <1>2, <1>3, <1>4, <1>5 DEF LimitsNext

\* A key has one bucket or row, and neither RateLimiter::check nor check_rate_limit
\* counts past its limit, for any processes, limits and clocks.
THEOREM NoBucketOverflows == LimitsSpec => []LimitsTypeOK
<1>1. LimitsInit => LimitsTypeOK
  BY RateLimitAssumption, LimitsInitTypes
<1>2. LimitsTypeOK /\ [LimitsNext]_limitVars => LimitsTypeOK'
  BY RateLimitAssumption, LimitsStepTypes
<1> QED BY <1>1, <1>2, PTL DEF LimitsSpec

\* What a count is sure to last for are times.
LEMMA SpansAreTimes ==
    ASSUME RateLimitAssumption, NEW k \in Key
    PROVE  /\ \A w \in Spans(k) : w \in Nat
           /\ shared => WindowOf(k) \in Spans(k) /\ Retention \in Spans(k)
           /\ ~shared => \A j \in Key : WindowOf(j) \in Spans(k)
BY LimitPositive DEF RateLimitAssumption, Spans, WindowOf, Key

\* A row that was replaced by itself with one more request still counts what it counted.
LEMMA CountsOn ==
    ASSUME NEW b \in Bucket
    PROVE  /\ OneMore(b).key = b.key /\ OneMore(b).start = b.start
           /\ OneMore(b).count >= b.count /\ b.count >= b.count
BY DEF Bucket, OneMore

LEMMA RowsCountOn ==
    ASSUME RateLimitAssumption, LimitsTypeOK, [LimitsNext]_limitVars,
           NEW b \in rows, \A w \in Spans(b.key) : now' < b.start + w
    PROVE  \E c \in rows' : c.key = b.key /\ c.start = b.start /\ c.count >= b.count
<1>1. b \in Bucket
  BY DEF LimitsTypeOK
<1>2. CASE b \in rows'
  BY <1>1, <1>2, CountsOn
<1>3. ASSUME NEW p \in Process, NEW k \in Key, NEW at \in 0..now, CheckDatabase(p, k, at),
             b \notin rows'
      PROVE  OneMore(b) \in rows'
  <2>1. b.key = k => ~(b.start + WindowOf(k) <= at)
    <3>1. now' < b.start + WindowOf(b.key)
      BY <1>3, <1>1, SpansAreTimes DEF CheckDatabase, Bucket
    <3>2. now' = now /\ now \in Nat /\ at \in Nat /\ at <= now /\ b.start \in Nat
      BY <1>3, <1>1 DEF CheckDatabase, LimitsTypeOK, Bucket, RateLimitAssumption
    <3> QED BY <3>1, <3>2, <1>1, LimitPositive DEF Bucket
  <2>2. PICK c \in Of(rows, k) :
           LET over == c.start + WindowOf(k) <= at
           IN  rows' = (rows \ {c}) \cup {OneMore(IF over THEN Fresh(k, at) ELSE c)}
    BY <1>3 DEF CheckDatabase
  <2>3. b = c /\ b.key = k
    BY <2>2, <1>3 DEF Of
  <2> QED BY <2>1, <2>2, <2>3
<1>4. CASE Cleanup
  <2>1. now' < b.start + Retention
    BY <1>4, <1>1, SpansAreTimes DEF Cleanup, Bucket
  <2>2. now' = now /\ now \in Nat /\ b.start \in Nat /\ Retention \in Nat
    BY <1>4, <1>1 DEF Cleanup, LimitsTypeOK, Bucket, RateLimitAssumption
  <2>3. b.start + Retention > now
    BY <2>1, <2>2
  <2> QED BY <1>4, <1>2, <2>3 DEF Cleanup
<1>5. CASE UNCHANGED rows
  BY <1>5, <1>2
<1> QED BY <1>2, <1>3, <1>4, <1>5, <1>1, CountsOn
        DEF LimitsNext, limitVars, CheckMemory, Restart, Tick

LEMMA BucketsCountOn ==
    ASSUME RateLimitAssumption, LimitsTypeOK, [LimitsNext]_limitVars,
           NEW p \in Process, ~Restart(p), NEW b \in buckets[p],
           \A w \in Spans(b.key) : now' < b.start + w
    PROVE  \E c \in buckets'[p] : /\ c.key = b.key /\ c.start = b.start
                                  /\ c.count >= b.count
<1>1. b \in Bucket /\ buckets \in [Process -> SUBSET Bucket]
  BY DEF LimitsTypeOK
<1>2. CASE b \in buckets'[p]
  BY <1>1, <1>2, CountsOn
<1>3. ASSUME NEW k \in Key, NEW at \in 0..now, CheckMemory(p, k, at)
      PROVE  b \in buckets'[p] \/ OneMore(b) \in buckets'[p]
  <2> DEFINE kept == Retained(buckets[p], WindowOf(k), at)
             f == IF Of(kept, k) = {} THEN Fresh(k, at) ELSE CHOOSE x \in Of(kept, k) : TRUE
  <2>1. now' < b.start + WindowOf(k)
    BY <1>3, <1>1, SpansAreTimes DEF CheckMemory, Bucket
  <2>2. now' = now /\ now \in Nat /\ at \in Nat /\ at <= now /\ b.start \in Nat
    BY <1>3, <1>1 DEF CheckMemory, LimitsTypeOK, Bucket, RateLimitAssumption
  <2>3. at < b.start + WindowOf(k)
    BY <2>1, <2>2, LimitPositive
  <2>4. b \in kept
    BY <2>3 DEF Retained
  <2>5. \/ buckets' = [buckets EXCEPT ![p] = kept \cup {f}]
        \/ buckets' = [buckets EXCEPT ![p] = (kept \ {f}) \cup {OneMore(f)}]
    BY <1>3 DEF CheckMemory
  <2> HIDE DEF kept, f
  <2> QED BY <1>1, <2>4, <2>5
<1>4. ASSUME NEW q \in Process, NEW k \in Key, NEW at \in 0..now, CheckMemory(q, k, at),
             q # p
      PROVE  b \in buckets'[p]
  BY <1>4, <1>1 DEF CheckMemory
<1>5. ASSUME NEW q \in Process, Restart(q) PROVE b \in buckets'[p]
  BY <1>5, <1>1 DEF Restart
<1>6. CASE UNCHANGED buckets
  BY <1>6, <1>2
<1> QED BY <1>2, <1>3, <1>4, <1>5, <1>6, <1>1, CountsOn
        DEF LimitsNext, limitVars, CheckDatabase, Cleanup, Tick

\* A count lasts as long as it is sure to (CountsLast), for any processes, limits, windows
\* and clocks: in memory as long as the shortest window of all actions, with the database
\* as long as its own and the retention of the clean-up job.
THEOREM CountsSurvive == LimitsSpec => CountsLast
<1>1. LimitsTypeOK /\ [LimitsNext]_limitVars =>
         [/\ CountOn(SurelyCounting(rows), rows')
          /\ \A p \in Process :
                Restart(p) \/ CountOn(SurelyCounting(buckets[p]), buckets'[p])]_limitVars
  BY RateLimitAssumption, RowsCountOn, BucketsCountOn DEF CountOn, SurelyCounting
<1> QED BY <1>1, NoBucketOverflows, PTL DEF LimitsSpec, CountsLast

(***************************************************************************)
(* RateLimit, twice the limit.  What a bucket says of the requests that     *)
(* were let through (Accounted) bounds every stretch that the present       *)
(* second is part of, and a request only adds to those.                     *)
(***************************************************************************)

\* AdmittedIn, Since, BeganAt and Accounted of a history ad at second n.
RequestSum(ad, k, D) == MapThenSumSet(LAMBDA pu : ad[<<pu[1], k>>][pu[2]], D)
SinceOf(ad, P, k, s) == RequestSum(ad, k, P \X (s..Eternity))
Began(ad, n, P, k, t, c) == \A s \in 0..n :
    /\ s > t => SinceOf(ad, P, k, s) <= c
    /\ (\A w \in Spans(k) : s + w > t + Lag) => SinceOf(ad, P, k, s) <= c + Limit(k)
Backed(ad, n, B, P, k) ==
    /\ Of(B, k) = {} => \E t \in 0..n : Began(ad, n, P, k, t, 0)
    /\ \A b \in Of(B, k) : \E t \in 0..n : t <= b.start + Lag /\ Began(ad, n, P, k, t, b.count)

LEMMA SumsAreSums ==
    ASSUME NEW P, NEW k, NEW S
    PROVE  /\ AdmittedIn(P, k, S) = RequestSum(admitted, k, P \X S)
           /\ AdmittedIn(P, k, S)' = RequestSum(admitted', k, P \X S)
BY DEF AdmittedIn, RequestSum, MapThenSumSet, MapThenFoldSet

LEMMA SinceIsSince ==
    ASSUME NEW P, NEW k, NEW s
    PROVE  /\ Since(P, k, s) = SinceOf(admitted, P, k, s)
           /\ Since(P, k, s)' = SinceOf(admitted', P, k, s)
BY DEF Since, SinceOf, AdmittedIn, RequestSum, MapThenSumSet, MapThenFoldSet

\* The requests of each of the pairs D, and their sum.
RequestsOf(ad, k, D) == [pu \in D |-> ad[<<pu[1], k>>][pu[2]]]

LEMMA RequestsAreDots ==
    ASSUME NEW D, IsFiniteSet(D), NEW ad, NEW k, RequestsOf(ad, k, D) \in [D -> Nat]
    PROVE  RequestSum(ad, k, D) = Cardinality(Dots(RequestsOf(ad, k, D), D))
<1> DEFINE w == RequestsOf(ad, k, D)
           Q(g) == g = [s \in SUBSET D |-> IF s = {} THEN 0
                            ELSE ad[<<(CHOOSE x \in s : TRUE)[1], k>>][(CHOOSE x \in s : TRUE)[2]]
                                 + g[s \ {CHOOSE x \in s : TRUE}]]
<1>1. \A s \in SUBSET D : s # {} =>
         w[CHOOSE x \in s : TRUE]
            = ad[<<(CHOOSE x \in s : TRUE)[1], k>>][(CHOOSE x \in s : TRUE)[2]]
  BY DEF RequestsOf
<1>2. ASSUME NEW g PROVE Q(g) <=> FoldsTo(g, w, D)
  <2> HIDE DEF w
  <2>1. ASSUME NEW s \in SUBSET D
        PROVE  (IF s = {} THEN 0
                ELSE ad[<<(CHOOSE x \in s : TRUE)[1], k>>][(CHOOSE x \in s : TRUE)[2]]
                     + g[s \ {CHOOSE x \in s : TRUE}])
                 = (IF s = {} THEN 0 ELSE w[CHOOSE x \in s : TRUE] + g[s \ {CHOOSE x \in s : TRUE}])
    BY <1>1
  <2>2. [s \in SUBSET D |-> IF s = {} THEN 0
            ELSE ad[<<(CHOOSE x \in s : TRUE)[1], k>>][(CHOOSE x \in s : TRUE)[2]]
                 + g[s \ {CHOOSE x \in s : TRUE}]]
          = [s \in SUBSET D |-> IF s = {} THEN 0
                ELSE w[CHOOSE x \in s : TRUE] + g[s \ {CHOOSE x \in s : TRUE}]]
    BY <2>1
  <2> QED BY <2>2 DEF FoldsTo
<1>3. RequestSum(ad, k, D) = (CHOOSE g : Q(g))[D]
  BY DEF RequestSum, MapThenSumSet, MapThenFoldSet
<1> HIDE DEF Q, w
<1>4. \E g : FoldsTo(g, w, D)
  BY FoldsDots DEF w
<1>5. FoldsTo(CHOOSE g : Q(g), w, D)
  BY <1>4, <1>2
<1>6. (CHOOSE g : Q(g))[D] = Cardinality(Dots(w, D))
  BY <1>5, FoldsDots DEF w
<1> QED BY <1>3, <1>6 DEF w

\* Of a history, the requests of finitely many processes have a sum.
Pairs == Process \X (0..Eternity)

LEMMA PairsAreFinite ==
    ASSUME RateLimitAssumption, NEW D \in SUBSET Pairs
    PROVE  IsFiniteSet(D)
<1>1. IsFiniteSet(0..Eternity)
  BY FS_Interval DEF RateLimitAssumption
<1>2. IsFiniteSet(Pairs)
  BY <1>1, FS_Product DEF RateLimitAssumption, Pairs
<1> QED BY <1>2, FS_Subset

LEMMA RequestsCount ==
    ASSUME RateLimitAssumption, NEW ad \in History, NEW k \in Key, NEW D \in SUBSET Pairs
    PROVE  /\ RequestsOf(ad, k, D) \in [D -> Nat]
           /\ RequestSum(ad, k, D) = Cardinality(Dots(RequestsOf(ad, k, D), D))
           /\ RequestSum(ad, k, D) \in Nat
<1>1. \A x \in D : <<x[1], k>> \in Process \X Key /\ x[2] \in 0..Eternity
  BY DEF Pairs
<1>2. \A x \in D : ad[<<x[1], k>>][x[2]] \in Nat
  BY <1>1 DEF History
<1>3. RequestsOf(ad, k, D) \in [D -> Nat]
  BY <1>2 DEF RequestsOf
<1>4. RequestSum(ad, k, D) = Cardinality(Dots(RequestsOf(ad, k, D), D))
  BY <1>3, PairsAreFinite, RequestsAreDots
<1>5. IsFiniteSet(Dots(RequestsOf(ad, k, D), D))
  BY <1>3, PairsAreFinite, DotsCounted
<1> QED BY <1>3, <1>4, <1>5, FS_CardinalityType

\* A history with no more requests has no greater sums, of no more seconds.
LEMMA FewerRequests ==
    ASSUME RateLimitAssumption, NEW ad \in History, NEW bd \in History, NEW k \in Key,
           NEW D \in SUBSET Pairs, NEW E \in SUBSET D,
           \A x \in E : bd[<<x[1], k>>][x[2]] <= ad[<<x[1], k>>][x[2]]
    PROVE  RequestSum(bd, k, E) <= RequestSum(ad, k, D)
<1> DEFINE v == RequestsOf(ad, k, D)
           w == RequestsOf(bd, k, E)
<1>1. \A x \in E : w[x] <= v[x]
  BY DEF RequestsOf
<1>2. v \in [D -> Nat] /\ RequestSum(ad, k, D) = Cardinality(Dots(v, D))
  BY RequestsCount
<1>3. w \in [E -> Nat] /\ RequestSum(bd, k, E) = Cardinality(Dots(w, E))
  BY RequestsCount
<1> HIDE DEF v, w
<1> QED BY <1>1, <1>2, <1>3, PairsAreFinite, FewerDots

\* One with one request more has sums that are one greater at most.
LEMMA OneRequestMore ==
    ASSUME RateLimitAssumption, NEW ad \in History, NEW bd \in History, NEW k \in Key,
           NEW D \in SUBSET Pairs, NEW y,
           bd[<<y[1], k>>][y[2]] <= ad[<<y[1], k>>][y[2]] + 1,
           \A x \in D \ {y} : bd[<<x[1], k>>][x[2]] <= ad[<<x[1], k>>][x[2]]
    PROVE  RequestSum(bd, k, D) <= RequestSum(ad, k, D) + 1
<1> DEFINE v == RequestsOf(ad, k, D)
           w == RequestsOf(bd, k, D)
<1>1. /\ v \in [D -> Nat] /\ RequestSum(ad, k, D) = Cardinality(Dots(v, D))
      /\ RequestSum(ad, k, D) \in Nat
  BY RequestsCount
<1>2. /\ w \in [D -> Nat] /\ RequestSum(bd, k, D) = Cardinality(Dots(w, D))
      /\ RequestSum(bd, k, D) \in Nat
  BY RequestsCount
<1>3. CASE y \in D
  <2>1. w[y] <= v[y] + 1
    BY <1>3 DEF RequestsOf
  <2>2. \A x \in D \ {y} : w[x] <= v[x]
    BY DEF RequestsOf
  <2> HIDE DEF v, w
  <2> QED BY <1>1, <1>2, <1>3, <2>1, <2>2, PairsAreFinite, OneDotMore
<1>4. CASE y \notin D
  <2>1. RequestSum(bd, k, D) <= RequestSum(ad, k, D)
    BY <1>4, FewerRequests
  <2> QED BY <1>1, <1>2, <2>1
<1> QED BY <1>3, <1>4

LEMMA NoRequests ==
    ASSUME RateLimitAssumption, NEW ad \in History, NEW k \in Key, NEW D \in SUBSET Pairs,
           \A x \in D : ad[<<x[1], k>>][x[2]] = 0
    PROVE  RequestSum(ad, k, D) = 0
<1> DEFINE v == RequestsOf(ad, k, D)
<1>1. \A x \in D : 1..v[x] = {}
  BY DEF RequestsOf
<1>2. RequestSum(ad, k, D) = Cardinality(Dots(v, D))
  BY RequestsCount
<1> HIDE DEF v
<1>3. Dots(v, D) = {}
  BY <1>1 DEF Dots
<1> QED BY <1>2, <1>3, FS_EmptySet

LEMMA SecondsOfPool ==
    ASSUME NEW P \in SUBSET Process, NEW s \in Nat
    PROVE  P \X (s..Eternity) \in SUBSET Pairs
<1>1. s..Eternity \subseteq 0..Eternity
  OBVIOUS
<1> QED BY <1>1 DEF Pairs

LEMMA SinceInNat ==
    ASSUME RateLimitAssumption, NEW ad \in History, NEW k \in Key,
           NEW P \in SUBSET Process, NEW s \in Nat
    PROVE  SinceOf(ad, P, k, s) \in Nat
BY SecondsOfPool, RequestsCount DEF SinceOf

LEMMA SinceNoMore ==
    ASSUME RateLimitAssumption, NEW ad \in History, NEW bd \in History, NEW k \in Key,
           NEW P \in SUBSET Process, NEW s \in Nat,
           \A p \in P : \A u \in 0..Eternity : bd[<<p, k>>][u] <= ad[<<p, k>>][u]
    PROVE  SinceOf(bd, P, k, s) <= SinceOf(ad, P, k, s)
<1> DEFINE D == P \X (s..Eternity)
<1>1. \A x \in D : x[1] \in P /\ x[2] \in 0..Eternity
  OBVIOUS
<1>2. \A x \in D : bd[<<x[1], k>>][x[2]] <= ad[<<x[1], k>>][x[2]]
  BY <1>1
<1>3. D \in SUBSET Pairs
  BY SecondsOfPool
<1> HIDE DEF D
<1>4. RequestSum(bd, k, D) <= RequestSum(ad, k, D)
  BY <1>2, <1>3, FewerRequests
<1> QED BY <1>4 DEF SinceOf, D

LEMMA SinceOneMore ==
    ASSUME RateLimitAssumption, NEW ad \in History, NEW bd \in History, NEW k \in Key,
           NEW P \in SUBSET Process, NEW s \in Nat, NEW q, NEW n,
           bd[<<q, k>>][n] <= ad[<<q, k>>][n] + 1,
           \A p \in P : \A u \in 0..Eternity :
              p # q \/ u # n => bd[<<p, k>>][u] <= ad[<<p, k>>][u]
    PROVE  SinceOf(bd, P, k, s) <= SinceOf(ad, P, k, s) + 1
<1> DEFINE D == P \X (s..Eternity)
           y == <<q, n>>
<1>1. \A x \in D : x = <<x[1], x[2]>> /\ x[1] \in P /\ x[2] \in 0..Eternity
  OBVIOUS
<1>2. \A x \in D \ {y} : bd[<<x[1], k>>][x[2]] <= ad[<<x[1], k>>][x[2]]
  BY <1>1
<1>3. D \in SUBSET Pairs /\ y[1] = q /\ y[2] = n
  BY SecondsOfPool
<1> HIDE DEF D, y
<1>4. RequestSum(bd, k, D) <= RequestSum(ad, k, D) + 1
  BY <1>2, <1>3, OneRequestMore
<1> QED BY <1>4 DEF SinceOf, D

LEMMA SinceNone ==
    ASSUME RateLimitAssumption, NEW ad \in History, NEW k \in Key,
           NEW P \in SUBSET Process, NEW s \in Nat,
           \A p \in P : \A u \in s..Eternity : ad[<<p, k>>][u] = 0
    PROVE  SinceOf(ad, P, k, s) = 0
<1> DEFINE D == P \X (s..Eternity)
<1>1. \A x \in D : ad[<<x[1], k>>][x[2]] = 0
  OBVIOUS
<1>2. D \in SUBSET Pairs
  BY SecondsOfPool
<1> HIDE DEF D
<1>3. RequestSum(ad, k, D) = 0
  BY <1>1, <1>2, NoRequests
<1> QED BY <1>3 DEF SinceOf, D

\* Where a window began stands as long as no request comes...
LEMMA BeganStands ==
    ASSUME RateLimitAssumption, NEW ad \in History, NEW bd \in History, NEW k \in Key,
           NEW P \in SUBSET Process, NEW n \in Nat, NEW t \in Nat, NEW c \in Nat,
           Began(ad, n, P, k, t, c),
           \A s \in 0..n : SinceOf(bd, P, k, s) <= SinceOf(ad, P, k, s)
    PROVE  Began(bd, n, P, k, t, c)
<1> SUFFICES ASSUME NEW s \in 0..n
             PROVE  /\ s > t => SinceOf(bd, P, k, s) <= c
                    /\ (\A w \in Spans(k) : s + w > t + Lag) => SinceOf(bd, P, k, s) <= c + Limit(k)
  BY DEF Began
<1>1. /\ SinceOf(ad, P, k, s) \in Nat /\ SinceOf(bd, P, k, s) \in Nat
      /\ SinceOf(bd, P, k, s) <= SinceOf(ad, P, k, s)
  BY SinceInNat
<1>2. /\ s > t => SinceOf(ad, P, k, s) <= c
      /\ (\A w \in Spans(k) : s + w > t + Lag) => SinceOf(ad, P, k, s) <= c + Limit(k)
  BY DEF Began
<1> QED BY <1>1, <1>2, LimitPositive

\* ... and when one comes it counts it.
LEMMA BeganOneMore ==
    ASSUME RateLimitAssumption, NEW ad \in History, NEW bd \in History, NEW k \in Key,
           NEW P \in SUBSET Process, NEW n \in Nat, NEW t \in Nat, NEW c \in Nat,
           Began(ad, n, P, k, t, c),
           \A s \in 0..n : SinceOf(bd, P, k, s) <= SinceOf(ad, P, k, s) + 1
    PROVE  Began(bd, n, P, k, t, c + 1)
<1> SUFFICES ASSUME NEW s \in 0..n
             PROVE  /\ s > t => SinceOf(bd, P, k, s) <= c + 1
                    /\ (\A w \in Spans(k) : s + w > t + Lag) =>
                          SinceOf(bd, P, k, s) <= (c + 1) + Limit(k)
  BY DEF Began
<1>1. /\ SinceOf(ad, P, k, s) \in Nat /\ SinceOf(bd, P, k, s) \in Nat
      /\ SinceOf(bd, P, k, s) <= SinceOf(ad, P, k, s) + 1
  BY SinceInNat
<1>2. /\ s > t => SinceOf(ad, P, k, s) <= c
      /\ (\A w \in Spans(k) : s + w > t + Lag) => SinceOf(ad, P, k, s) <= c + Limit(k)
  BY DEF Began
<1> QED BY <1>1, <1>2, LimitPositive

\* A bucket that has lasted leaves no more behind than its limit.
LEMMA OverBegins ==
    ASSUME RateLimitAssumption, NEW ad \in History, NEW k \in Key, NEW P \in SUBSET Process,
           NEW n \in Nat, NEW B \in SUBSET Bucket, Counted(B), Backed(ad, n, B, P, k),
           NEW b \in Of(B, k), NEW w \in Spans(k), b.start + w <= n
    PROVE  Began(ad, n, P, k, n, 0)
<1>1. b.start \in Nat /\ b.count \in Nat /\ b.count <= Limit(k)
  BY LimitPositive DEF Of, Counted, Bucket
<1>2. PICK t \in 0..n : t <= b.start + Lag /\ Began(ad, n, P, k, t, b.count)
  BY DEF Backed
<1> SUFFICES ASSUME NEW s \in 0..n, s + w > n + Lag
             PROVE  SinceOf(ad, P, k, s) <= 0 + Limit(k)
  BY DEF Began
<1>3. Lag \in Nat /\ w \in Nat /\ Limit(k) \in Nat /\ SinceOf(ad, P, k, s) \in Nat
  BY LimitPositive, SpansAreTimes, SinceInNat DEF RateLimitAssumption
<1>4. s > t
  BY <1>1, <1>2, <1>3
<1>5. SinceOf(ad, P, k, s) <= b.count
  BY <1>2, <1>4 DEF Began
<1> QED BY <1>1, <1>3, <1>5

\* The account stays true when no request comes and only buckets go that have lasted.
LEMMA AccountStands ==
    ASSUME RateLimitAssumption, NEW ad \in History, NEW bd \in History, NEW k \in Key,
           NEW P \in SUBSET Process, NEW n \in Nat, NEW B \in SUBSET Bucket, Counted(B),
           Backed(ad, n, B, P, k), NEW C, Of(C, k) \subseteq Of(B, k),
           \A b \in Of(B, k) \ Of(C, k) : \E w \in Spans(k) : b.start + w <= n,
           \A s \in 0..n : SinceOf(bd, P, k, s) <= SinceOf(ad, P, k, s)
    PROVE  Backed(bd, n, C, P, k)
<1>1. ASSUME Of(C, k) = {} PROVE \E t \in 0..n : Began(bd, n, P, k, t, 0)
  <2>1. PICK t \in 0..n : Began(ad, n, P, k, t, 0)
    <3>1. CASE Of(B, k) = {}
      BY <3>1 DEF Backed
    <3>2. CASE Of(B, k) # {}
      <4>1. PICK b \in Of(B, k) : TRUE
        BY <3>2
      <4>2. PICK w \in Spans(k) : b.start + w <= n
        BY <1>1
      <4>3. Began(ad, n, P, k, n, 0)
        BY <4>2, OverBegins
      <4> QED BY <4>3
    <3> QED BY <3>1, <3>2
  <2> QED BY <2>1, BeganStands
<1>2. ASSUME NEW b \in Of(C, k)
      PROVE  \E t \in 0..n : t <= b.start + Lag /\ Began(bd, n, P, k, t, b.count)
  <2>1. b \in Of(B, k) /\ b.count \in Nat
    BY DEF Of, Bucket
  <2>2. PICK t \in 0..n : t <= b.start + Lag /\ Began(ad, n, P, k, t, b.count)
    BY <2>1 DEF Backed
  <2>3. Began(bd, n, P, k, t, b.count)
    BY <2>1, <2>2, BeganStands
  <2> QED BY <2>2, <2>3
<1> QED BY <1>1, <1>2 DEF Backed

\* A request opens the key's first window...
LEMMA AccountOpens ==
    ASSUME RateLimitAssumption, NEW ad \in History, NEW bd \in History, NEW k \in Key,
           NEW P \in SUBSET Process, NEW n \in 0..Eternity, NEW B, Of(B, k) = {},
           Backed(ad, n, B, P, k), NEW at \in 0..n, n <= at + Lag,
           NEW C, Of(C, k) = {OneMore(Fresh(k, at))},
           \A s \in 0..n : SinceOf(bd, P, k, s) <= SinceOf(ad, P, k, s) + 1
    PROVE  Backed(bd, n, C, P, k)
<1> DEFINE b == OneMore(Fresh(k, at))
<1>1. b.start = at /\ b.count = 1
  BY DEF OneMore, Fresh
<1>2. PICK t \in 0..n : Began(ad, n, P, k, t, 0)
  BY DEF Backed
<1>3. n \in Nat /\ Lag \in Nat
  BY DEF RateLimitAssumption
<1>4. Began(bd, n, P, k, t, 0 + 1)
  BY <1>2, <1>3, BeganOneMore
<1>5. t <= at + Lag
  BY <1>3
<1> HIDE DEF b
<1> QED BY <1>1, <1>4, <1>5 DEF Backed, b

\* ... or counts in the one that is open.
LEMMA AccountCounts ==
    ASSUME RateLimitAssumption, NEW ad \in History, NEW bd \in History, NEW k \in Key,
           NEW P \in SUBSET Process, NEW n \in 0..Eternity, NEW B,
           Backed(ad, n, B, P, k), NEW b \in Bucket, b \in Of(B, k), NEW C, Of(C, k) = {OneMore(b)},
           \A s \in 0..n : SinceOf(bd, P, k, s) <= SinceOf(ad, P, k, s) + 1
    PROVE  Backed(bd, n, C, P, k)
<1> DEFINE c == OneMore(b)
<1>1. c.start = b.start /\ c.count = b.count + 1 /\ b.start \in Nat /\ b.count \in Nat
  BY DEF OneMore, Bucket
<1>2. PICK t \in 0..n : t <= b.start + Lag /\ Began(ad, n, P, k, t, b.count)
  BY DEF Backed
<1>3. Began(bd, n, P, k, t, b.count + 1)
  BY <1>1, <1>2, BeganOneMore DEF RateLimitAssumption
<1> HIDE DEF c
<1> QED BY <1>1, <1>2, <1>3 DEF Backed, c

\* A second goes by in which nothing has come yet.
LEMMA AccountTicks ==
    ASSUME RateLimitAssumption, NEW ad \in History, NEW k \in Key, NEW P \in SUBSET Process,
           NEW n \in Nat, UpTo(ad, n), NEW B \in SUBSET Bucket, Backed(ad, n, B, P, k)
    PROVE  Backed(ad, n + 1, B, P, k)
<1>1. SinceOf(ad, P, k, n + 1) = 0
  <2>1. \A p \in P : \A u \in n + 1..Eternity : ad[<<p, k>>][u] = 0
    BY DEF UpTo
  <2> QED BY <2>1, SinceNone
<1>2. \A s \in 0..n + 1 : s \in 0..n \/ s = n + 1
  OBVIOUS
<1>3. ASSUME NEW t \in 0..n, NEW c \in Nat, Began(ad, n, P, k, t, c)
      PROVE  Began(ad, n + 1, P, k, t, c)
  <2>1. 0 <= c /\ 0 <= c + Limit(k)
    BY LimitPositive
  <2> QED BY <2>1, <1>1, <1>2, <1>3 DEF Began
<1>4. \A b \in Of(B, k) : b.count \in Nat
  BY DEF Of, Bucket
<1>5. \A t \in 0..n : t \in 0..n + 1
  OBVIOUS
<1> QED BY <1>1, <1>2, <1>3, <1>4, <1>5 DEF Backed

\* Of no requests every account is true.
LEMMA AccountOfNone ==
    ASSUME RateLimitAssumption, NEW ad \in History, NEW k \in Key, NEW P \in SUBSET Process,
           NEW n \in Nat, \A p \in P : \A u \in 0..Eternity : ad[<<p, k>>][u] = 0,
           NEW B, Of(B, k) = {}
    PROVE  Backed(ad, n, B, P, k)
<1>1. ASSUME NEW s \in Nat PROVE SinceOf(ad, P, k, s) = 0
  <2>1. \A u \in s..Eternity : u \in 0..Eternity
    OBVIOUS
  <2> QED BY <2>1, SinceNone
<1>2. Began(ad, n, P, k, 0, 0)
  <2>1. 0 <= 0 /\ 0 <= 0 + Limit(k)
    BY LimitPositive
  <2> QED BY <2>1, <1>1 DEF Began
<1> QED BY <1>2 DEF Backed

\* A pool P of processes with the buckets B: their account of k is true, and k has had
\* twice its limit at most.
Held(ad, n, P, k) ==
    \A s \in 0..n : RequestSum(ad, k, P \X Stretch(k, s)) <= 2 * Limit(k)
PoolOK(ad, n, B, P, k) == Backed(ad, n, B, P, k) /\ Held(ad, n, P, k)

LEMMA StretchOfPool ==
    ASSUME NEW P \in SUBSET Process, NEW k \in Key, NEW s \in Nat
    PROVE  P \X Stretch(k, s) \in SUBSET Pairs /\ Stretch(k, s) \subseteq s..Eternity
BY DEF Pairs, Stretch

LEMMA PoolStands ==
    ASSUME RateLimitAssumption, NEW ad \in History, NEW bd \in History, NEW k \in Key,
           NEW P \in SUBSET Process, NEW n \in Nat, NEW B \in SUBSET Bucket, Counted(B),
           PoolOK(ad, n, B, P, k), NEW C, Of(C, k) \subseteq Of(B, k),
           \A b \in Of(B, k) \ Of(C, k) : \E w \in Spans(k) : b.start + w <= n,
           \A p \in P : \A u \in 0..Eternity : bd[<<p, k>>][u] <= ad[<<p, k>>][u]
    PROVE  PoolOK(bd, n, C, P, k)
<1>1. \A s \in 0..n : SinceOf(bd, P, k, s) <= SinceOf(ad, P, k, s)
  BY SinceNoMore
<1>2. Backed(bd, n, C, P, k)
  BY <1>1, AccountStands DEF PoolOK
<1>3. ASSUME NEW s \in 0..n PROVE RequestSum(bd, k, P \X Stretch(k, s)) <= 2 * Limit(k)
  <2> DEFINE D == P \X Stretch(k, s)
  <2>1. D \in SUBSET Pairs
    BY StretchOfPool
  <2>2. \A x \in D : bd[<<x[1], k>>][x[2]] <= ad[<<x[1], k>>][x[2]]
    BY DEF Stretch
  <2>3. RequestSum(ad, k, D) <= 2 * Limit(k)
    BY DEF PoolOK, Held
  <2> HIDE DEF D
  <2>4. RequestSum(bd, k, D) <= RequestSum(ad, k, D)
    BY <2>1, <2>2, FewerRequests
  <2>5. RequestSum(bd, k, D) \in Nat /\ RequestSum(ad, k, D) \in Nat /\ Limit(k) \in Nat
    BY <2>1, RequestsCount, LimitPositive
  <2> QED BY <2>3, <2>4, <2>5 DEF D
<1> QED BY <1>2, <1>3 DEF PoolOK, Held

\* A request that comes in second n is in the account of its bucket, and so are all others
\* of the stretches that n is part of.
LEMMA PoolCounts ==
    ASSUME RateLimitAssumption, NEW ad \in History, NEW bd \in History, NEW k \in Key,
           NEW P \in SUBSET Process, NEW n \in 0..Eternity, NEW C \in SUBSET Bucket,
           Counted(C), Backed(bd, n, C, P, k), NEW b \in Of(C, k), Held(ad, n, P, k),
           \A p \in P : \A u \in 0..Eternity : u # n => bd[<<p, k>>][u] <= ad[<<p, k>>][u]
    PROVE  PoolOK(bd, n, C, P, k)
<1>1. n \in Nat /\ Lag \in Nat /\ WindowOf(k) \in Nat /\ Limit(k) \in Nat
  BY LimitPositive DEF RateLimitAssumption
<1>2. b.count \in Nat /\ b.count <= Limit(k)
  BY <1>1 DEF Of, Counted, Bucket
<1>3. PICK t \in 0..n : Began(bd, n, P, k, t, b.count)
  BY DEF Backed
<1>4. ASSUME NEW s \in 0..n PROVE RequestSum(bd, k, P \X Stretch(k, s)) <= 2 * Limit(k)
  <2> DEFINE D == P \X Stretch(k, s)
             E == P \X (s..Eternity)
  <2>1. D \in SUBSET Pairs /\ E \in SUBSET Pairs /\ D \in SUBSET E
    BY StretchOfPool, SecondsOfPool
  <2>2. CASE n \in Stretch(k, s)
    <3>1. \A w \in Spans(k) : s + w > t + Lag
      BY <2>2, <1>1, SpansAreTimes DEF Stretch
    <3>2. RequestSum(bd, k, E) <= b.count + Limit(k)
      BY <3>1, <1>3 DEF Began, SinceOf
    <3>3. \A x \in D : bd[<<x[1], k>>][x[2]] <= bd[<<x[1], k>>][x[2]]
      <4>1. \A x \in D : bd[<<x[1], k>>][x[2]] \in Nat
        BY DEF Stretch, History
      <4> QED BY <4>1
    <3> HIDE DEF D, E
    <3>4. RequestSum(bd, k, D) <= RequestSum(bd, k, E)
      BY <2>1, <3>3, FewerRequests
    <3>5. RequestSum(bd, k, D) \in Nat /\ RequestSum(bd, k, E) \in Nat
      BY <2>1, RequestsCount
    <3>6. RequestSum(bd, k, D) <= 2 * Limit(k)
      BY <3>2, <3>4, <3>5, <1>1, <1>2
    <3> QED BY <3>6 DEF D
  <2>3. CASE n \notin Stretch(k, s)
    <3>1. \A x \in D : bd[<<x[1], k>>][x[2]] <= ad[<<x[1], k>>][x[2]]
      BY <2>3 DEF Stretch
    <3>2. RequestSum(ad, k, D) <= 2 * Limit(k)
      BY DEF Held
    <3> HIDE DEF D, E
    <3>3. RequestSum(bd, k, D) <= RequestSum(ad, k, D)
      BY <2>1, <3>1, FewerRequests
    <3>4. RequestSum(bd, k, D) \in Nat /\ RequestSum(ad, k, D) \in Nat
      BY <2>1, RequestsCount
    <3>5. RequestSum(bd, k, D) <= 2 * Limit(k)
      BY <3>2, <3>3, <3>4, <1>1
    <3> QED BY <3>5 DEF D
  <2> QED BY <2>2, <2>3
<1> QED BY <1>4 DEF PoolOK, Held

LEMMA PoolTicks ==
    ASSUME RateLimitAssumption, NEW ad \in History, NEW k \in Key, NEW P \in SUBSET Process,
           NEW n \in Nat, UpTo(ad, n), NEW B \in SUBSET Bucket, PoolOK(ad, n, B, P, k)
    PROVE  PoolOK(ad, n + 1, B, P, k)
<1>1. Backed(ad, n + 1, B, P, k)
  BY AccountTicks DEF PoolOK
<1>2. RequestSum(ad, k, P \X Stretch(k, n + 1)) = 0
  <2> DEFINE D == P \X Stretch(k, n + 1)
  <2>1. D \in SUBSET Pairs
    BY StretchOfPool
  <2>2. \A x \in D : x[1] \in Process /\ x[2] \in n + 1..Eternity
    BY StretchOfPool
  <2>3. \A x \in D : ad[<<x[1], k>>][x[2]] = 0
    BY <2>2 DEF UpTo
  <2> HIDE DEF D
  <2>4. RequestSum(ad, k, D) = 0
    BY <2>1, <2>3, NoRequests
  <2> QED BY <2>4 DEF D
<1>3. \A s \in 0..n + 1 : s \in 0..n \/ s = n + 1
  OBVIOUS
<1>4. 0 <= 2 * Limit(k)
  BY LimitPositive
<1> QED BY <1>1, <1>2, <1>3, <1>4 DEF PoolOK, Held

LEMMA PoolOfNone ==
    ASSUME RateLimitAssumption, NEW ad \in History, NEW k \in Key, NEW P \in SUBSET Process,
           NEW n \in Nat, \A p \in P : \A u \in 0..Eternity : ad[<<p, k>>][u] = 0,
           NEW B, Of(B, k) = {}
    PROVE  PoolOK(ad, n, B, P, k)
<1>1. ASSUME NEW s \in 0..n PROVE RequestSum(ad, k, P \X Stretch(k, s)) <= 2 * Limit(k)
  <2> DEFINE D == P \X Stretch(k, s)
  <2>1. D \in SUBSET Pairs
    BY StretchOfPool
  <2>2. \A x \in D : ad[<<x[1], k>>][x[2]] = 0
    BY DEF Stretch
  <2> HIDE DEF D
  <2>3. RequestSum(ad, k, D) = 0
    BY <2>1, <2>2, NoRequests
  <2> QED BY <2>3, LimitPositive DEF D
<1> QED BY <1>1, AccountOfNone DEF PoolOK, Held

\* The invariant, pool by pool, before a step and after it.
LEMMA PoolsAreOK ==
    LimitHolds /\ CountsAccount <=>
       \A k \in Key : IF shared THEN PoolOK(admitted, now, rows, Process, k)
                      ELSE \A p \in Process : PoolOK(admitted, now, buckets[p], {p}, k)
<1>1. LimitHolds <=> \A k \in Key : \A P \in Pools : Held(admitted, now, P, k)
  BY DEF LimitHolds, Held, AdmittedIn, RequestSum, MapThenSumSet, MapThenFoldSet
<1>2. \A B, P, k : Accounted(B, P, k) <=> Backed(admitted, now, B, P, k)
  BY SinceIsSince DEF Accounted, Backed, BeganAt, Began
<1>3. CountsAccount <=> \A k \in Key : \A P \in Pools :
          IF shared THEN Backed(admitted, now, rows, P, k)
          ELSE \A p \in P : Backed(admitted, now, buckets[p], P, k)
  BY <1>2 DEF CountsAccount
<1> QED BY <1>1, <1>3 DEF Pools, PoolOK

LEMMA PoolsStayOK ==
    ASSUME shared' = shared
    PROVE  (LimitHolds /\ CountsAccount)' <=>
              \A k \in Key : IF shared' THEN PoolOK(admitted', now', rows', Process, k)
                             ELSE \A p \in Process : PoolOK(admitted', now', buckets'[p], {p}, k)
<1>1. \A k, s : Stretch(k, s)' = Stretch(k, s) /\ Spans(k)' = Spans(k)
  BY DEF Stretch, Spans
<1>2. LimitHolds' <=> \A k \in Key : \A P \in Pools' : Held(admitted', now', P, k)
  BY <1>1 DEF LimitHolds, Held, AdmittedIn, RequestSum, MapThenSumSet, MapThenFoldSet
<1>3. \A P, k, t, c : BeganAt(P, k, t, c)' <=> Began(admitted', now', P, k, t, c)
  BY <1>1, SinceIsSince DEF BeganAt, Began
<1>4. /\ \A P, k : Accounted(rows, P, k)' <=> Backed(admitted', now', rows', P, k)
      /\ \A p, P, k : Accounted(buckets[p], P, k)' <=> Backed(admitted', now', buckets'[p], P, k)
  BY <1>3 DEF Accounted, Backed
<1>5. CountsAccount' <=> \A k \in Key : \A P \in Pools' :
          IF shared' THEN Backed(admitted', now', rows', P, k)
          ELSE \A p \in P : Backed(admitted', now', buckets'[p], P, k)
  BY <1>4 DEF CountsAccount
<1> QED BY <1>2, <1>5 DEF Pools, PoolOK

LEMMA HistoryTyped ==
    ASSUME RateLimitAssumption, LimitsTypeOK
    PROVE  /\ now \in 0..Eternity /\ now \in Nat /\ Lag \in Nat
           /\ admitted \in History /\ UpTo(admitted, now)
           /\ \A q \in Process, j \in Key : \A u \in 0..Eternity :
                 admitted[<<q, j>>][u] \in Nat /\ admitted[<<q, j>>][u] <= admitted[<<q, j>>][u]
           /\ rows \in SUBSET Bucket /\ Counted(rows)
           /\ \A q \in Process : buckets[q] \in SUBSET Bucket /\ Counted(buckets[q])
<1>1. admitted \in History /\ UpTo(admitted, now)
  BY DEF LimitsTypeOK, History, UpTo
<1>2. \A q \in Process, j \in Key : \A u \in 0..Eternity : admitted[<<q, j>>][u] \in Nat
  BY <1>1 DEF History
<1> QED BY <1>1, <1>2 DEF LimitsTypeOK, RateLimitAssumption

\* After a request of k that p let through, a pool that p is part of has one more of k.
LEMMA PoolAdmits ==
    ASSUME RateLimitAssumption, LimitsTypeOK, NEW p \in Process, NEW k \in Key, Admit(p, k),
           now' = now, NEW P \in SUBSET Process, NEW B \in SUBSET Bucket, Counted(B),
           PoolOK(admitted, now, B, P, k), NEW C \in SUBSET Bucket, Counted(C), NEW f,
           \/ f \in Of(B, k)
           \/ \E at \in 0..now : now <= at + Lag /\ f = Fresh(k, at) /\ Of(B, k) = {},
           Of(C, k) = {OneMore(f)}
    PROVE  PoolOK(admitted', now, C, P, k)
<1>1. /\ now \in 0..Eternity /\ now \in Nat
      /\ admitted \in History /\ admitted' \in History
  BY HistoryTyped, AdmitStep
<1>2. \A q \in Process : \A u \in 0..Eternity :
         IF q = p /\ u = now
         THEN admitted'[<<q, k>>][u] = admitted[<<q, k>>][u] + 1
         ELSE admitted'[<<q, k>>][u] = admitted[<<q, k>>][u]
  BY AdmitStep
<1>3. \A q \in Process : \A u \in 0..Eternity : admitted[<<q, k>>][u] \in Nat
  BY HistoryTyped
<1>4. /\ admitted'[<<p, k>>][now] <= admitted[<<p, k>>][now] + 1
      /\ \A q \in P : \A u \in 0..Eternity :
            q # p \/ u # now => admitted'[<<q, k>>][u] <= admitted[<<q, k>>][u]
  BY <1>1, <1>2, <1>3
<1>5. ASSUME NEW s \in 0..now
      PROVE  SinceOf(admitted', P, k, s) <= SinceOf(admitted, P, k, s) + 1
  <2> DEFINE ad == admitted
             bd == admitted'
             n == now
  <2>1. s \in Nat
    BY <1>1
  <2> HIDE DEF ad, bd, n
  <2>2. /\ ad \in History /\ bd \in History
        /\ bd[<<p, k>>][n] <= ad[<<p, k>>][n] + 1
        /\ \A q \in P : \A u \in 0..Eternity :
              q # p \/ u # n => bd[<<q, k>>][u] <= ad[<<q, k>>][u]
    BY <1>1, <1>4 DEF ad, bd, n
  <2>3. SinceOf(bd, P, k, s) <= SinceOf(ad, P, k, s) + 1
    BY <2>1, <2>2, SinceOneMore
  <2> QED BY <2>3 DEF ad, bd, n
<1>6. Backed(admitted, now, B, P, k) /\ Held(admitted, now, P, k)
  BY DEF PoolOK
<1>7. Backed(admitted', now, C, P, k)
  <2>1. CASE f \in Of(B, k)
    <3>1. f \in Bucket
      BY <2>1 DEF Of
    <3> QED BY <2>1, <3>1, <1>1, <1>5, <1>6, AccountCounts
  <2>2. ASSUME NEW at \in 0..now, now <= at + Lag, f = Fresh(k, at), Of(B, k) = {}
        PROVE  Backed(admitted', now, C, P, k)
    BY <2>2, <1>1, <1>5, <1>6, AccountOpens
  <2> QED BY <2>1, <2>2
<1>8. OneMore(f) \in Of(C, k)
  OBVIOUS
<1> QED BY <1>1, <1>4, <1>6, <1>7, <1>8, PoolCounts

LEMMA CheckMemoryPools ==
    ASSUME RateLimitAssumption, LimitsTypeOK, LimitsTypeOK',
           NEW p \in Process, NEW k \in Key, NEW at \in 0..now, now <= at + Lag,
           CheckMemory(p, k, at), NEW q \in Process, NEW j \in Key,
           PoolOK(admitted, now, buckets[q], {q}, j)
    PROVE  PoolOK(admitted', now', buckets'[q], {q}, j)
<1>1. /\ ~shared /\ now' = now /\ now \in Nat /\ {q} \in SUBSET Process
      /\ admitted \in History /\ admitted' \in History
      /\ buckets[q] \in SUBSET Bucket /\ Counted(buckets[q])
      /\ buckets'[q] \in SUBSET Bucket /\ Counted(buckets'[q])
  <2>1. admitted' \in History /\ buckets'[q] \in SUBSET Bucket /\ Counted(buckets'[q])
    BY DEF LimitsTypeOK, History
  <2> QED BY <2>1, HistoryTyped DEF CheckMemory
<1> DEFINE kept == Retained(buckets[p], WindowOf(k), at)
           f == IF Of(kept, k) = {} THEN Fresh(k, at) ELSE CHOOSE x \in Of(kept, k) : TRUE
<1>2. \/ /\ f.count >= Limit(k) /\ admitted' = admitted
         /\ buckets' = [buckets EXCEPT ![p] = kept \cup {f}]
      \/ /\ f.count < Limit(k) /\ Admit(p, k)
         /\ buckets' = [buckets EXCEPT ![p] = (kept \ {f}) \cup {OneMore(f)}]
  BY DEF CheckMemory
<1>3. \/ f \in Of(kept, k) /\ at < f.start + WindowOf(k)
      \/ f = Fresh(k, at) /\ Of(kept, k) = {} /\ f.count = 0 /\ f.key = k
  BY DEF Retained, Of, Fresh
<1>4. /\ kept \in SUBSET buckets[p]
      /\ \A b \in buckets[p] \ kept : ~(at < b.start + WindowOf(k))
  BY DEF Retained
<1> HIDE DEF kept, f
<1>5. \A u \in 0..Eternity : admitted[<<q, j>>][u] <= admitted[<<q, j>>][u]
  BY HistoryTyped
<1>6. ASSUME ~(q = p /\ j = k /\ Admit(p, k))
      PROVE  \A u \in 0..Eternity : admitted'[<<q, j>>][u] <= admitted[<<q, j>>][u]
  <2>1. CASE Admit(p, k)
    <3>1. \A u \in 0..Eternity : admitted'[<<q, j>>][u] = admitted[<<q, j>>][u]
      BY <2>1, <1>1, <1>6, AdmitStep
    <3> QED BY <3>1, <1>5
  <2>2. CASE admitted' = admitted
    BY <2>2, <1>5
  <2> QED BY <2>1, <2>2, <1>2
<1>7. CASE q # p
  <2>1. buckets'[q] = buckets[q]
    BY <1>2, <1>7 DEF LimitsTypeOK
  <2> QED BY <2>1, <1>1, <1>6, <1>7, PoolStands
<1>8. CASE q = p
  <2>1. \A b \in Of(buckets[p], j) \ Of(kept, j) : \E w \in Spans(j) : b.start + w <= now
    <3>1. WindowOf(k) \in Spans(j) /\ WindowOf(k) \in Nat
      BY <1>1, SpansAreTimes
    <3>2. \A b \in buckets[p] : b.start \in Nat
      BY <1>1, <1>8 DEF Bucket
    <3>3. \A b \in Of(buckets[p], j) \ Of(kept, j) :
             b \in buckets[p] /\ ~(at < b.start + WindowOf(k))
      BY <1>4 DEF Of
    <3> QED BY <3>1, <3>2, <3>3, <1>1
  <2>2. kept \in SUBSET Bucket /\ Counted(kept)
    BY <1>1, <1>4, <1>8, CountedKept
  <2>3. PoolOK(admitted, now, kept, {p}, j)
    <3>1. Of(kept, j) \subseteq Of(buckets[p], j)
      BY <1>4 DEF Of
    <3> QED BY <3>1, <2>1, <1>1, <1>5, <1>8, PoolStands
  <2>4. f \in kept => f.count >= 1
    BY <2>2 DEF Counted
  <2>5. CASE f.count >= Limit(k) /\ admitted' = admitted
             /\ buckets' = [buckets EXCEPT ![p] = kept \cup {f}]
    <3>1. f \in kept
      BY <2>5, <1>3, LimitPositive DEF Of
    <3>2. buckets'[p] = kept
      BY <2>5, <3>1 DEF LimitsTypeOK
    <3> QED BY <2>3, <2>5, <3>2, <1>1, <1>8
  <2>6. CASE f.count < Limit(k) /\ Admit(p, k)
             /\ buckets' = [buckets EXCEPT ![p] = (kept \ {f}) \cup {OneMore(f)}]
    <3> DEFINE C == (kept \ {f}) \cup {OneMore(f)}
    <3>1. buckets'[p] = C
      BY <2>6 DEF LimitsTypeOK
    <3>2. f.key = k /\ OneMore(f).key = k
      <4>1. f.key = k
        BY <1>3 DEF Of
      <4>2. f = Fresh(k, at) \/ f \in Bucket
        BY <1>3, <2>2 DEF Of
      <4> QED BY <4>1, <4>2 DEF OneMore, Fresh, Bucket
    <3>3. CASE j = k
      <4>1. Of(C, k) = {OneMore(f)}
        BY <1>3, <2>2, <3>2 DEF Of, Counted
      <4>2. \/ f \in Of(kept, k)
            \/ \E u \in 0..now : now <= u + Lag /\ f = Fresh(k, u) /\ Of(kept, k) = {}
        BY <1>3
      <4> HIDE DEF C
      <4>3. PoolOK(admitted', now, C, {p}, k)
        BY <1>1, <1>8, <2>2, <2>3, <2>6, <3>1, <3>3, <4>1, <4>2, PoolAdmits
      <4> QED BY <4>3, <3>1, <3>3, <1>1, <1>8
    <3>4. CASE j # k
      <4>1. Of(C, j) = Of(kept, j)
        BY <3>2, <3>4 DEF Of
      <4> HIDE DEF C
      <4>2. PoolOK(admitted', now, C, {p}, j)
        BY <4>1, <1>1, <1>6, <1>8, <2>2, <2>3, <3>4, PoolStands
      <4> QED BY <4>2, <3>1, <1>1, <1>8
    <3> QED BY <3>3, <3>4
  <2> QED BY <2>5, <2>6, <1>2
<1> QED BY <1>7, <1>8

LEMMA CheckDatabasePool ==
    ASSUME RateLimitAssumption, LimitsTypeOK, LimitsTypeOK',
           NEW p \in Process, NEW k \in Key, NEW at \in 0..now, now <= at + Lag,
           CheckDatabase(p, k, at), NEW j \in Key, PoolOK(admitted, now, rows, Process, j)
    PROVE  PoolOK(admitted', now', rows', Process, j)
<1>1. /\ shared /\ now' = now /\ now \in Nat
      /\ admitted \in History /\ admitted' \in History
      /\ rows \in SUBSET Bucket /\ Counted(rows) /\ rows' \in SUBSET Bucket /\ Counted(rows')
  <2>1. admitted' \in History /\ rows' \in SUBSET Bucket /\ Counted(rows')
    BY DEF LimitsTypeOK, History
  <2> QED BY <2>1, HistoryTyped DEF CheckDatabase
<1>2. PICK f : /\ \/ f \in Of(rows, k) /\ ~(f.start + WindowOf(k) <= at)
                  \/ f = Fresh(k, at)
               /\ \/ /\ Admit(p, k)
                     /\ \E B \in SUBSET rows :
                           /\ rows' = B \cup {OneMore(f)}
                           /\ \A b \in rows \ B :
                                 b = f \/ (b.key = k /\ b.start + WindowOf(k) <= at)
                           /\ f \notin B /\ (f = Fresh(k, at) => Of(B, k) = {})
                  \/ UNCHANGED <<rows, admitted>>
  <2>1. Fresh(k, at) \notin rows
    BY <1>1 DEF Counted, Fresh
  <2>2. CASE Of(rows, k) = {} /\ rows' = rows \cup {OneMore(Fresh(k, at))} /\ Admit(p, k)
    BY <2>1, <2>2
  <2>3. ASSUME NEW b \in Of(rows, k), ~(b.start + WindowOf(k) <= at),
               rows' = (rows \ {b}) \cup {OneMore(b)}, Admit(p, k)
        PROVE  \E B \in SUBSET rows :
                  /\ rows' = B \cup {OneMore(b)} /\ b \notin B /\ \A c \in rows \ B : c = b
                  /\ b = Fresh(k, at) => Of(B, k) = {}
    <3>1. b # Fresh(k, at)
      BY <2>1 DEF Of
    <3> WITNESS rows \ {b} \in SUBSET rows
    <3> QED BY <2>3, <3>1
  <2>4. ASSUME NEW b \in Of(rows, k), b.start + WindowOf(k) <= at,
               rows' = (rows \ {b}) \cup {OneMore(Fresh(k, at))}, Admit(p, k)
        PROVE  \E B \in SUBSET rows :
                  /\ rows' = B \cup {OneMore(Fresh(k, at))} /\ Fresh(k, at) \notin B
                  /\ \A c \in rows \ B : c.key = k /\ c.start + WindowOf(k) <= at
                  /\ Of(B, k) = {}
    <3>1. b.key = k /\ Of(rows, k) = {b}
      BY <1>1 DEF Of, Counted
    <3>2. Of(rows \ {b}, k) = {}
      BY <3>1 DEF Of
    <3> WITNESS rows \ {b} \in SUBSET rows
    <3> QED BY <2>1, <2>4, <3>1, <3>2
  <2>5. CASE UNCHANGED <<rows, admitted>>
    BY <2>5
  <2> QED BY <2>2, <2>3, <2>4, <2>5 DEF CheckDatabase
<1>3. \A q \in Process : \A u \in 0..Eternity : admitted[<<q, j>>][u] <= admitted[<<q, j>>][u]
  BY HistoryTyped
<1>4. CASE UNCHANGED <<rows, admitted>>
  BY <1>1, <1>4
<1>5. ASSUME Admit(p, k), NEW B \in SUBSET rows, rows' = B \cup {OneMore(f)},
             \A b \in rows \ B : b = f \/ (b.key = k /\ b.start + WindowOf(k) <= at),
             f \notin B, f = Fresh(k, at) => Of(B, k) = {}
      PROVE  PoolOK(admitted', now', rows', Process, j)
  <2>1. f.key = k /\ OneMore(f).key = k
    <3>1. f.key = k
      BY <1>2 DEF Of, Fresh
    <3>2. f = Fresh(k, at) \/ f \in Bucket
      BY <1>1, <1>2 DEF Of
    <3> QED BY <3>1, <3>2 DEF OneMore, Fresh, Bucket
  <2>2. CASE j # k
    <3>1. Of(rows', j) = Of(rows, j)
      BY <1>5, <2>1, <2>2 DEF Of
    <3>2. \A q \in Process : \A u \in 0..Eternity :
             admitted'[<<q, j>>][u] = admitted[<<q, j>>][u]
      BY <1>1, <1>5, <2>2, AdmitStep
    <3>3. \A q \in Process : \A u \in 0..Eternity :
             admitted'[<<q, j>>][u] <= admitted[<<q, j>>][u]
      BY <3>2, <1>3
    <3> QED BY <3>1, <3>3, <1>1, PoolStands
  <2>3. CASE j = k
    <3> DEFINE A == B \cup ({f} \cap rows)
    <3>1. A \in SUBSET rows /\ A \in SUBSET Bucket /\ Counted(A)
      BY <1>1, CountedKept
    <3>2. \A b \in Of(rows, k) \ Of(A, k) : \E w \in Spans(k) : b.start + w <= now
      <4>1. \A b \in rows : b.start \in Nat
        BY <1>1 DEF Bucket
      <4>2. \A b \in Of(rows, k) \ Of(A, k) : b \in rows /\ b.start + WindowOf(k) <= at
        BY <1>5, <2>1 DEF Of
      <4>3. WindowOf(k) \in Nat /\ WindowOf(k) \in Spans(k)
        BY <1>1, SpansAreTimes
      <4> QED BY <4>1, <4>2, <4>3, <1>1
    <3>3. PoolOK(admitted, now, A, Process, k)
      <4>1. Of(A, k) \subseteq Of(rows, k)
        BY DEF Of
      <4> QED BY <4>1, <3>2, <2>3, <1>1, <1>3, PoolStands
    <3>4. Of(rows', k) = {OneMore(f)}
      <4>1. Of(B, k) = {}
        BY <1>1, <1>2, <1>5 DEF Of, Counted
      <4> QED BY <4>1, <1>5, <2>1 DEF Of
    <3>5. \/ f \in Of(A, k)
          \/ \E u \in 0..now : now <= u + Lag /\ f = Fresh(k, u) /\ Of(A, k) = {}
      <4>1. CASE f \in Of(rows, k) /\ ~(f.start + WindowOf(k) <= at)
        BY <4>1 DEF Of
      <4>2. CASE f = Fresh(k, at)
        <5>1. f \notin rows
          BY <4>2, <1>1 DEF Counted, Fresh
        <5> QED BY <4>2, <5>1, <1>5
      <4> QED BY <4>1, <4>2, <1>2
    <3> HIDE DEF A
    <3> QED BY <1>1, <1>5, <2>3, <3>1, <3>3, <3>4, <3>5, PoolAdmits
  <2> QED BY <2>2, <2>3
<1> QED BY <1>2, <1>4, <1>5

LEMMA CleanupPool ==
    ASSUME RateLimitAssumption, LimitsTypeOK, Cleanup,
           NEW k \in Key, PoolOK(admitted, now, rows, Process, k)
    PROVE  PoolOK(admitted', now', rows', Process, k)
<1>1. now' = now /\ admitted' = admitted /\ shared
  BY DEF Cleanup
<1>2. Of(rows', k) \subseteq Of(rows, k)
  BY DEF Cleanup, Of
<1>3. \A b \in Of(rows, k) \ Of(rows', k) : \E w \in Spans(k) : b.start + w <= now
  <2>1. \A b \in Of(rows, k) \ Of(rows', k) : b \in rows /\ ~(b.start + Retention > now)
    BY DEF Cleanup, Of
  <2>2. \A b \in rows : b.start \in Nat
    BY DEF LimitsTypeOK, Bucket
  <2>3. Retention \in Spans(k) /\ Retention \in Nat /\ now \in Nat
    BY <1>1, SpansAreTimes, HistoryTyped
  <2> QED BY <2>1, <2>2, <2>3
<1> QED BY <1>1, <1>2, <1>3, HistoryTyped, PoolStands

LEMMA RestartPools ==
    ASSUME RateLimitAssumption, LimitsTypeOK, LimitsTypeOK', NEW p \in Process, Restart(p),
           NEW q \in Process, NEW k \in Key, PoolOK(admitted, now, buckets[q], {q}, k)
    PROVE  PoolOK(admitted', now', buckets'[q], {q}, k)
<1>1. /\ now' = now /\ now \in Nat /\ {q} \in SUBSET Process
      /\ admitted \in History /\ admitted' \in History
      /\ buckets[q] \in SUBSET Bucket /\ Counted(buckets[q])
      /\ buckets' = [buckets EXCEPT ![p] = {}]
  <2>1. admitted' \in History
    BY DEF LimitsTypeOK, History
  <2> QED BY <2>1, HistoryTyped DEF Restart
<1>2. DOMAIN admitted = Process \X Key /\ <<q, k>> \in Process \X Key /\ <<q, k>>[1] = q
  BY <1>1 DEF History
<1>3. admitted'[<<q, k>>] = IF q = p THEN [s \in 0..Eternity |-> 0] ELSE admitted[<<q, k>>]
  BY <1>2 DEF Restart
<1>4. CASE q = p
  <2>1. Of(buckets'[q], k) = {}
    BY <1>1, <1>4 DEF LimitsTypeOK, Of
  <2>2. \A u \in 0..Eternity : admitted'[<<q, k>>][u] = 0
    BY <1>3, <1>4
  <2> QED BY <2>1, <2>2, <1>1, PoolOfNone
<1>5. CASE q # p
  <2>1. buckets'[q] = buckets[q]
    BY <1>1, <1>5 DEF LimitsTypeOK
  <2>2. \A u \in 0..Eternity : admitted'[<<q, k>>][u] <= admitted[<<q, k>>][u]
    BY <1>3, <1>5, HistoryTyped
  <2> QED BY <2>1, <2>2, <1>1, PoolStands
<1> QED BY <1>4, <1>5

LEMMA LimitsInitInvariant == ASSUME RateLimitAssumption, LimitsInit PROVE LimitsInvariant
<1>1. LimitsTypeOK
  BY LimitsInitTypes
<1>2. /\ now \in Nat /\ admitted \in History
      /\ \A q \in Process : buckets[q] = {} /\ rows = {}
  BY <1>1, HistoryTyped DEF LimitsInit
<1>3. \A q \in Process, k \in Key : \A u \in 0..Eternity : admitted[<<q, k>>][u] = 0
  BY DEF LimitsInit
<1>4. ASSUME NEW k \in Key
      PROVE  /\ PoolOK(admitted, now, rows, Process, k)
             /\ \A q \in Process : PoolOK(admitted, now, buckets[q], {q}, k)
  <2>1. Of({}, k) = {} /\ rows = {}
    BY DEF Of, LimitsInit
  <2> QED BY <2>1, <1>2, <1>3, PoolOfNone
<1> QED BY <1>1, <1>4, PoolsAreOK DEF LimitsInvariant

LEMMA LimitsStepInvariant ==
    ASSUME RateLimitAssumption, LimitsInvariant, [LimitsNext]_limitVars
    PROVE  LimitsInvariant'
<1>1. LimitsTypeOK /\ LimitsTypeOK'
  BY LimitsStepTypes DEF LimitsInvariant
<1>3. shared' = shared
  BY DEF LimitsNext, limitVars, CheckMemory, CheckDatabase, Restart, Cleanup, Tick
<1>2. \A k \in Key : IF shared THEN PoolOK(admitted, now, rows, Process, k)
                     ELSE \A q \in Process : PoolOK(admitted, now, buckets[q], {q}, k)
  BY PoolsAreOK DEF LimitsInvariant
<1> SUFFICES ASSUME NEW k \in Key
             PROVE  IF shared' THEN PoolOK(admitted', now', rows', Process, k)
                    ELSE \A q \in Process : PoolOK(admitted', now', buckets'[q], {q}, k)
  BY <1>1, <1>3, PoolsStayOK DEF LimitsInvariant
<1>4. ASSUME NEW p \in Process, NEW j \in Key, NEW at \in 0..now, now <= at + Lag,
             CheckMemory(p, j, at)
      PROVE  ~shared /\ \A q \in Process : PoolOK(admitted', now', buckets'[q], {q}, k)
  <2>1. ~shared
    BY <1>4 DEF CheckMemory
  <2> QED BY <2>1, <1>1, <1>2, <1>4, CheckMemoryPools
<1>5. ASSUME NEW p \in Process, NEW j \in Key, NEW at \in 0..now, now <= at + Lag,
             CheckDatabase(p, j, at)
      PROVE  shared /\ PoolOK(admitted', now', rows', Process, k)
  <2>1. shared
    BY <1>5 DEF CheckDatabase
  <2> QED BY <2>1, <1>1, <1>2, <1>5, CheckDatabasePool
<1>6. CASE Cleanup
  <2>1. shared
    BY <1>6 DEF Cleanup
  <2> QED BY <2>1, <1>1, <1>2, <1>3, <1>6, CleanupPool
<1>7. ASSUME NEW p \in Process, Restart(p)
      PROVE  ~shared /\ \A q \in Process : PoolOK(admitted', now', buckets'[q], {q}, k)
  <2>1. ~shared
    BY <1>1, <1>7 DEF Restart, LimitsTypeOK
  <2> QED BY <2>1, <1>1, <1>2, <1>7, RestartPools
<1>8. CASE Tick
  <2>1. now' = now + 1 /\ UNCHANGED <<shared, buckets, rows, admitted>>
    BY <1>8 DEF Tick
  <2>2. \A q \in Process : {q} \in SUBSET Process
    OBVIOUS
  <2>3. /\ now \in Nat /\ admitted \in History /\ UpTo(admitted, now)
        /\ rows \in SUBSET Bucket /\ \A q \in Process : buckets[q] \in SUBSET Bucket
    BY <1>1, HistoryTyped
  <2>4. shared => PoolOK(admitted, now + 1, rows, Process, k)
    BY <2>3, <1>2, PoolTicks
  <2>5. ~shared => \A q \in Process : PoolOK(admitted, now + 1, buckets[q], {q}, k)
    BY <2>2, <2>3, <1>2, PoolTicks
  <2> QED BY <2>1, <2>4, <2>5
<1>9. CASE UNCHANGED limitVars
  BY <1>2, <1>9 DEF limitVars
<1>10. \/ \E p \in Process, j \in Key : \E at \in 0..now :
             now <= at + Lag /\ (CheckMemory(p, j, at) \/ CheckDatabase(p, j, at))
       \/ \E p \in Process : Restart(p)
       \/ Cleanup \/ Tick \/ UNCHANGED limitVars
  BY DEF LimitsNext
<1> QED BY <1>3, <1>4, <1>5, <1>6, <1>7, <1>8, <1>9, <1>10

\* No more than twice the limit gets through in any stretch shorter than a count is sure to
\* last, by a check's lag: through a process in memory, whose counts last for the shortest of
\* all windows, or through all processes with the database.
THEOREM LimitsHold == LimitsSpec => []LimitsInvariant
<1>1. LimitsInit => LimitsInvariant
  BY RateLimitAssumption, LimitsInitInvariant
<1>2. LimitsInvariant /\ [LimitsNext]_limitVars => LimitsInvariant'
  BY RateLimitAssumption, LimitsStepInvariant
<1> QED BY <1>1, <1>2, PTL DEF LimitsSpec

(***************************************************************************)
(* Pastes.  Everything follows from PastesInvariant: a request in flight   *)
(* relies on what RequestReady says, and each step leaves that true of     *)
(* every request.                                                          *)
(***************************************************************************)

USE PastesAssumption, PastesRowsAssumption DEF PastesAssumption

\* The type of one row or request, as the proofs below use it.
LEMMA PasteTyped ==
    ASSUME PastesTypeOK, NEW p \in Paste, paste[p] # None
    PROVE  paste[p] \in PasteRow
BY DEF PastesTypeOK

LEMMA PasteRequestTyped ==
    ASSUME PastesTypeOK, NEW r \in Request, request[r] # None
    PROVE  /\ request[r] \in RequestRow
           /\ request[r].paste \in Paste /\ request[r].text \in 0..MaxText
           /\ request[r].base \in 0..MaxText /\ request[r].late \in BOOLEAN
           /\ request[r].step \in {"edit", "insert", "update", "delete"}
BY DEF PastesTypeOK, RequestRow

\* A row stays a row when one of its fields is written.
LEMMA PasteWritten ==
    ASSUME NEW row \in PasteRow
    PROVE  /\ \A v \in Owner : [row EXCEPT !.owner = v] \in PasteRow
           /\ \A v \in ItemStates : [row EXCEPT !.state = v] \in PasteRow
           /\ \A v \in BOOLEAN : [row EXCEPT !.due = v] \in PasteRow
           /\ \A v \in 1..MaxText : [row EXCEPT !.text = v] \in PasteRow
BY DEF PasteRow

LEMMA PasteRequestWritten ==
    ASSUME NEW q \in RequestRow
    PROVE  /\ [q EXCEPT !.late = TRUE] \in RequestRow
           /\ [q EXCEPT !.step = "update"] \in RequestRow
           /\ \A v \in 0..MaxText : [q EXCEPT !.step = "insert", !.base = v] \in RequestRow
BY DEF RequestRow

\* The invariant, from its parts.
LEMMA PastesParts ==
    ASSUME PastesTypeOK', VerdictsStand', \A r \in Request : RequestReady(r)',
           VerdictsOnRows'
    PROVE  PastesInvariant'
BY DEF PastesInvariant

\* An instance starts without pastes.
LEMMA PastesInitInvariant == PastesInit => PastesInvariant /\ HistoryKept
BY DEF PastesInit, PastesInvariant, PastesTypeOK, VerdictsStand, RequestReady, VerdictsOnRows,
       HistoryKept, ItemStates

\* A request keeps what it relies on when no row, revision or verdict is taken away
\* under it and it stays as it is.
LEMMA RequestUndisturbed ==
    ASSUME PastesInvariant, NEW r \in Request, request'[r] = request[r],
           revisions \subseteq revisions',
           \A p \in Paste : paste[p] # None => paste'[p] # None,
           \A p \in Paste : verdict'[p] = verdict[p] \/ verdict'[p] # "held"
    PROVE  RequestReady(r)'
<1> SUFFICES ASSUME request[r] # None PROVE RequestReady(r)'
  BY DEF RequestReady
<1>1. RequestReady(r) /\ PastesTypeOK
  BY DEF PastesInvariant
<1>2. request[r].paste \in Paste
  BY <1>1, PasteRequestTyped
<1> QED BY <1>1, <1>2 DEF RequestReady

\* A step that writes some rows of pastes and nothing else: rows stay rows, and what
\* a moderator withheld is not written.
LEMMA RowsWritten ==
    ASSUME PastesInvariant,
           UNCHANGED <<revisions, request, texts, historyVars>>,
           paste' \in [Paste -> PasteRow \cup {None}],
           \A p \in Paste : paste[p] = None <=> paste'[p] = None,
           \A p \in Paste : verdict[p] = "held" => paste'[p].state = paste[p].state
    PROVE  PastesInvariant'
<1>1. UNCHANGED <<revisions, request, texts, had, blind, verdict>>
  BY DEF historyVars
<1>2. PastesTypeOK'
  BY <1>1 DEF PastesInvariant, PastesTypeOK
<1>3. VerdictsStand'
  BY <1>1 DEF PastesInvariant, VerdictsStand
<1>4. ASSUME NEW r \in Request PROVE RequestReady(r)'
  BY <1>1, RequestUndisturbed
<1>5. VerdictsOnRows'
  BY <1>1 DEF PastesInvariant, VerdictsOnRows
<1> QED BY <1>2, <1>3, <1>4, <1>5, PastesParts

\* A new row: it has no verdict, and no request is about it.
LEMMA CreatePasteStep ==
    ASSUME PastesInvariant, NEW o \in Owner, NEW p \in Paste, CreatePaste(o, p)
    PROVE  PastesInvariant'
<1> DEFINE row == [owner |-> o, token |-> o = Nobody /\ TokensGiven,
                   state |-> "active", due |-> FALSE, text |-> texts + 1]
<1>1. /\ PastesTypeOK /\ VerdictsOnRows /\ VerdictsStand
      /\ texts' = texts + 1 /\ paste' = [paste EXCEPT ![p] = row] /\ paste[p] = None
      /\ UNCHANGED <<revisions, request, had, blind, verdict>>
  BY DEF CreatePaste, PastesInvariant, historyVars
<1>2. texts + 1 \in 1..MaxText /\ texts' \in 0..MaxText
  BY <1>1 DEF PastesTypeOK, CreatePaste
<1>3. row \in PasteRow
  BY <1>2 DEF PasteRow, ItemStates
<1> HIDE DEF row
<1>4. PastesTypeOK'
  BY <1>1, <1>2, <1>3 DEF PastesTypeOK
<1>5. paste'[p] = row /\ row # None /\ \A q \in Paste : q # p => paste'[q] = paste[q]
  BY <1>1, <1>3 DEF PastesTypeOK
<1>6. verdict[p] = None
  BY <1>1 DEF VerdictsOnRows
<1>7. VerdictsStand'
  <2> SUFFICES ASSUME NEW q \in Paste, verdict'[q] = "held" PROVE paste'[q].state = "held"
    BY DEF VerdictsStand
  <2>1. CASE q = p
    BY <2>1, <1>1, <1>5, <1>6 DEF row, ItemStates
  <2>2. CASE q # p
    BY <2>2, <1>1, <1>5 DEF VerdictsStand
  <2> QED BY <2>1, <2>2
<1>8. ASSUME NEW r \in Request PROVE RequestReady(r)'
  BY <1>1, <1>5, RequestUndisturbed
<1>9. VerdictsOnRows'
  BY <1>1, <1>5 DEF VerdictsOnRows
<1> QED BY <1>4, <1>7, <1>8, <1>9, PastesParts

\* A request that has just begun; no row changes.
LEMMA BeginStep ==
    ASSUME PastesInvariant, NEW r \in Request, NEW q \in RequestRow, Begin(r, q),
           UNCHANGED <<paste, revisions, historyVars>>, texts' \in 0..MaxText,
           paste[q.paste] # None,
           \/ (q.step = "edit" /\ q.text \in 1..MaxText)
           \/ (q.step = "delete" /\ verdict[q.paste] # "held")
    PROVE  PastesInvariant'
<1>1. /\ PastesTypeOK /\ VerdictsOnRows /\ VerdictsStand
      /\ UNCHANGED <<paste, revisions, had, blind, verdict>>
      /\ request' = [request EXCEPT ![r] = q]
  BY DEF PastesInvariant, Begin, historyVars
<1>2. PastesTypeOK'
  BY <1>1 DEF PastesTypeOK
<1>3. VerdictsStand' /\ VerdictsOnRows'
  BY <1>1 DEF VerdictsStand, VerdictsOnRows
<1>4. ASSUME NEW s \in Request PROVE RequestReady(s)'
  <2>1. CASE s = r
    <3>1. request'[s] = q
      BY <1>1, <2>1 DEF PastesTypeOK
    <3> QED BY <3>1, <1>1 DEF RequestReady
  <2>2. CASE s # r
    <3>1. request'[s] = request[s]
      BY <1>1, <2>2 DEF PastesTypeOK
    <3> QED BY <3>1, <1>1, RequestUndisturbed
  <2> QED BY <2>1, <2>2
<1> QED BY <1>2, <1>3, <1>4, PastesParts

LEMMA EditStartStep ==
    ASSUME PastesInvariant, NEW r \in Request, NEW u \in Author, NEW p \in Paste,
           EditStart(r, u, p)
    PROVE  PastesInvariant'
<1> DEFINE q == [step |-> "edit", paste |-> p, text |-> texts + 1, base |-> 0, late |-> FALSE]
<1>1. PastesTypeOK /\ Begin(r, q) /\ UNCHANGED <<paste, revisions, historyVars>>
      /\ paste[p] # None /\ texts < MaxText /\ texts' = texts + 1
  BY DEF EditStart, Visible, PastesInvariant
<1>2. texts + 1 \in 1..MaxText /\ texts' \in 0..MaxText /\ texts + 1 \in 0..MaxText
  BY <1>1 DEF PastesTypeOK
<1>3. q \in RequestRow
  BY <1>2 DEF RequestRow
<1>4. q.step = "edit" /\ q.text \in 1..MaxText /\ q.paste = p
  BY <1>2
<1> HIDE DEF q
<1> QED BY <1>1, <1>2, <1>3, <1>4, BeginStep

\* A deletion looks at a paste that is active, so no moderator withholds it.
LEMMA DeleteStartStep ==
    ASSUME PastesInvariant, NEW r \in Request, NEW u \in Owner, NEW p \in Paste,
           DeleteStart(r, u, p)
    PROVE  PastesInvariant'
<1> DEFINE q == [step |-> "delete", paste |-> p, text |-> 0, base |-> 0, late |-> FALSE]
<1>1. /\ PastesTypeOK /\ Begin(r, q) /\ UNCHANGED <<paste, revisions, texts, historyVars>>
      /\ paste[p] # None /\ paste[p].state = "active"
  BY DEF DeleteStart, Visible, PastesInvariant
<1>2. verdict[p] # "held"
  BY <1>1 DEF PastesInvariant, VerdictsStand
<1>3. q \in RequestRow /\ texts' \in 0..MaxText
  BY <1>1 DEF RequestRow, PastesTypeOK
<1>4. q.step = "delete" /\ q.paste = p
  OBVIOUS
<1> HIDE DEF q
<1> QED BY <1>1, <1>2, <1>3, <1>4, BeginStep

\* What a request that goes on relies on itself, when the others keep what they have.
LEMMA RequestMoves ==
    ASSUME PastesInvariant, NEW r \in Request,
           NEW q \in RequestRow \cup {None}, request' = [request EXCEPT ![r] = q],
           UNCHANGED <<paste, had, blind, verdict, texts>>,
           revisions \subseteq revisions', revisions' \subseteq Paste \X (1..MaxText),
           RequestReady(r)'
    PROVE  PastesInvariant'
<1>1. PastesTypeOK /\ VerdictsOnRows /\ VerdictsStand
  BY DEF PastesInvariant
<1>2. PastesTypeOK'
  BY <1>1 DEF PastesTypeOK
<1>3. VerdictsStand' /\ VerdictsOnRows'
  BY <1>1 DEF VerdictsStand, VerdictsOnRows
<1>4. ASSUME NEW s \in Request PROVE RequestReady(s)'
  <2>1. CASE s # r
    <3>1. request'[s] = request[s]
      BY <1>1, <2>1 DEF PastesTypeOK
    <3> QED BY <3>1, RequestUndisturbed
  <2> QED BY <2>1
<1> QED BY <1>2, <1>3, <1>4, PastesParts

LEMMA EditReadStep ==
    ASSUME PastesInvariant, NEW r \in Request, EditRead(r)
    PROVE  PastesInvariant'
<1> DEFINE b == paste[request[r].paste].text
           q == [request[r] EXCEPT !.step = "insert", !.base = b]
<1>1. /\ PastesTypeOK /\ RequestReady(r) /\ request[r] # None /\ request[r].step = "edit"
      /\ request' = [request EXCEPT ![r].step = "insert", ![r].base = b]
      /\ UNCHANGED <<paste, revisions, texts, had, blind, verdict>>
  BY DEF EditRead, PastesInvariant, historyVars
<1>2. request[r] \in RequestRow /\ request[r].paste \in Paste
  BY <1>1, PasteRequestTyped
<1>3. paste[request[r].paste] # None /\ request[r].text \in 1..MaxText
  BY <1>1 DEF RequestReady
<1>4. b \in 1..MaxText
  BY <1>1, <1>2, <1>3, PasteTyped DEF PasteRow
<1>5. request' = [request EXCEPT ![r] = q] /\ request'[r] = q
  BY <1>1, <1>2 DEF PastesTypeOK
<1>6. b \in 0..MaxText
  BY <1>4
<1>7. /\ q \in RequestRow /\ q.paste = request[r].paste /\ q.text = request[r].text
      /\ q.step = "insert" /\ q.base = b
  BY <1>2, <1>6 DEF RequestRow
<1> HIDE DEF q, b
<1>8. RequestReady(r)'
  BY <1>1, <1>3, <1>4, <1>5, <1>7 DEF RequestReady
<1>9. revisions' \subseteq Paste \X (1..MaxText)
  BY <1>1 DEF PastesTypeOK
<1> QED BY <1>1, <1>5, <1>7, <1>8, <1>9, RequestMoves

\* What was read is now among the revisions.
LEMMA EditInsertStep ==
    ASSUME PastesInvariant, NEW r \in Request, EditInsert(r)
    PROVE  PastesInvariant'
<1> DEFINE q == [request[r] EXCEPT !.step = "update"]
<1>1. /\ PastesTypeOK /\ RequestReady(r) /\ request[r] # None /\ request[r].step = "insert"
      /\ request' = [request EXCEPT ![r].step = "update"]
      /\ revisions' = revisions \cup {<<request[r].paste, request[r].base>>}
      /\ UNCHANGED <<paste, texts, had, blind, verdict>>
  BY DEF EditInsert, PastesInvariant, historyVars
<1>2. request[r] \in RequestRow /\ request[r].paste \in Paste
  BY <1>1, PasteRequestTyped
<1>3. /\ paste[request[r].paste] # None
      /\ request[r].text \in 1..MaxText /\ request[r].base \in 1..MaxText
  BY <1>1 DEF RequestReady
<1>4. request' = [request EXCEPT ![r] = q] /\ request'[r] = q
  BY <1>1, <1>2 DEF PastesTypeOK
<1>5. /\ q \in RequestRow /\ q.paste = request[r].paste /\ q.text = request[r].text
      /\ q.step = "update" /\ q.base = request[r].base
  BY <1>2 DEF RequestRow
<1> HIDE DEF q
<1>6. RequestReady(r)'
  BY <1>1, <1>3, <1>4, <1>5 DEF RequestReady
<1>7. revisions' \subseteq Paste \X (1..MaxText)
  BY <1>1, <1>2, <1>3 DEF PastesTypeOK
<1> QED BY <1>1, <1>4, <1>5, <1>6, <1>7, RequestMoves

LEMMA DropRequestStep ==
    ASSUME PastesInvariant, NEW r \in Request, DropRequest(r)
    PROVE  PastesInvariant'
<1>1. /\ PastesTypeOK /\ request' = [request EXCEPT ![r] = None]
      /\ UNCHANGED <<paste, revisions, texts, had, blind, verdict>>
  BY DEF DropRequest, PastesInvariant, historyVars
<1>2. request'[r] = None /\ revisions' \subseteq Paste \X (1..MaxText)
  BY <1>1 DEF PastesTypeOK
<1>3. RequestReady(r)'
  BY <1>2 DEF RequestReady
<1> QED BY <1>1, <1>2, <1>3, RequestMoves

\* The row of an edit or deletion is written and the request ends.  What a moderator
\* withheld stays so if the state is not written, or the verdict is forgotten with it.
LEMMA RequestEnds ==
    ASSUME PastesInvariant, NEW r \in Request, NEW p \in Paste, NEW row \in PasteRow,
           request' = [request EXCEPT ![r] = None], paste[p] # None,
           paste' = [paste EXCEPT ![p] = row], UNCHANGED <<revisions, texts>>,
           had' \subseteq Paste \X (1..MaxText), blind' \subseteq had',
           \/ UNCHANGED verdict /\ (row.state = paste[p].state \/ verdict[p] # "held")
           \/ verdict' = [verdict EXCEPT ![p] = None]
    PROVE  PastesInvariant'
<1>1. /\ PastesTypeOK /\ VerdictsOnRows /\ VerdictsStand
      /\ None # "held" /\ None \notin PasteRow
  BY DEF PastesInvariant, ItemStates
<1>2. \A q \in Paste : IF q = p THEN paste'[q] = row ELSE paste'[q] = paste[q]
  BY <1>1 DEF PastesTypeOK
<1>3. /\ \A q \in Paste : verdict'[q] = verdict[q] \/ (q = p /\ verdict'[q] = None)
      /\ verdict'[p] = "held" => row.state = paste[p].state
  BY <1>1 DEF PastesTypeOK
<1>4. PastesTypeOK'
  BY <1>1 DEF PastesTypeOK
<1>5. VerdictsStand'
  BY <1>1, <1>2, <1>3 DEF VerdictsStand
<1>6. ASSUME NEW s \in Request PROVE RequestReady(s)'
  <2>1. CASE s = r
    BY <1>1, <2>1 DEF RequestReady, PastesTypeOK
  <2>2. CASE s # r
    <3>1. request'[s] = request[s]
      BY <1>1, <2>2 DEF PastesTypeOK
    <3> QED BY <3>1, <1>1, <1>2, <1>3, RequestUndisturbed
  <2> QED BY <2>1, <2>2
<1>7. VerdictsOnRows'
  BY <1>1, <1>2, <1>3 DEF VerdictsOnRows
<1> QED BY <1>4, <1>5, <1>6, <1>7, PastesParts

LEMMA EditWriteStep ==
    ASSUME PastesInvariant, NEW r \in Request, EditWrite(r)
    PROVE  PastesInvariant'
<1> DEFINE p == request[r].paste
           row == [paste[p] EXCEPT !.text = request[r].text]
           gone == <<p, paste[p].text>>
<1>1. /\ PastesTypeOK /\ RequestReady(r) /\ request[r] # None /\ request[r].step = "update"
      /\ request' = [request EXCEPT ![r] = None]
      /\ paste' = [paste EXCEPT ![p].text = request[r].text]
      /\ had' = had \cup {gone} /\ blind' \subseteq blind \cup {gone}
      /\ UNCHANGED <<revisions, texts, verdict>>
  BY DEF EditWrite, PastesInvariant
<1>2. p \in Paste
  BY <1>1, PasteRequestTyped
<1>3. paste[p] # None /\ request[r].text \in 1..MaxText
  BY <1>1 DEF RequestReady
<1>4. paste[p] \in PasteRow /\ paste[p].text \in 1..MaxText
  BY <1>1, <1>2, <1>3, PasteTyped DEF PasteRow
<1>5. row \in PasteRow /\ row.state = paste[p].state
  BY <1>3, <1>4, PasteWritten DEF PasteRow
<1>6. paste' = [paste EXCEPT ![p] = row]
  BY <1>1
<1>7. had' \subseteq Paste \X (1..MaxText) /\ blind' \subseteq had'
  BY <1>1, <1>2, <1>4 DEF PastesTypeOK
<1> HIDE DEF p, row, gone
<1> QED BY <1>1, <1>2, <1>3, <1>5, <1>6, <1>7, RequestEnds

LEMMA DeleteWriteStep ==
    ASSUME PastesInvariant, NEW r \in Request, DeleteWrite(r)
    PROVE  PastesInvariant'
<1> DEFINE p == request[r].paste
           row == [paste[p] EXCEPT !.state = "deleted"]
<1>1. /\ PastesTypeOK /\ RequestReady(r) /\ request[r] # None /\ request[r].step = "delete"
      /\ request' = [request EXCEPT ![r] = None]
      /\ paste' = [paste EXCEPT ![p].state = "deleted"]
      /\ verdict' = [verdict EXCEPT ![p] = IF request[r].late THEN None ELSE @]
      /\ UNCHANGED <<revisions, texts, had, blind>>
  BY DEF DeleteWrite, PastesInvariant
<1>2. p \in Paste
  BY <1>1, PasteRequestTyped
<1>3. paste[p] # None /\ (request[r].late \/ verdict[p] # "held")
  BY <1>1 DEF RequestReady
<1>4. row \in PasteRow
  BY <1>1, <1>2, <1>3, PasteTyped, PasteWritten DEF ItemStates
<1>5. paste' = [paste EXCEPT ![p] = row]
  BY <1>1
<1>6. had' \subseteq Paste \X (1..MaxText) /\ blind' \subseteq had'
  BY <1>1 DEF PastesTypeOK
<1>7. \/ UNCHANGED verdict /\ verdict[p] # "held"
      \/ verdict' = [verdict EXCEPT ![p] = None]
  BY <1>1, <1>3 DEF PastesTypeOK
<1> HIDE DEF p, row
<1> QED BY <1>1, <1>2, <1>3, <1>4, <1>5, <1>6, <1>7, RequestEnds

\* A row that is written in one field, in all pastes of a set that have a row.
LEMMA SomeRowsWritten ==
    ASSUME PastesInvariant, NEW S \in SUBSET Paste,
           UNCHANGED <<revisions, request, texts, historyVars>>,
           NEW row, paste' = [p \in Paste |-> IF p \in S THEN row[p] ELSE paste[p]],
           \A p \in S : /\ paste[p] # None /\ row[p] \in PasteRow
                        /\ verdict[p] = "held" => row[p].state = paste[p].state
    PROVE  PastesInvariant'
<1>1. PastesTypeOK /\ None \notin PasteRow
  BY DEF PastesInvariant
<1>2. \A p \in Paste : paste'[p] = IF p \in S THEN row[p] ELSE paste[p]
  OBVIOUS
<1>3. paste' \in [Paste -> PasteRow \cup {None}]
  BY <1>1 DEF PastesTypeOK
<1>4. \A p \in Paste : paste[p] = None <=> paste'[p] = None
  BY <1>1, <1>2
<1>5. \A p \in Paste : verdict[p] = "held" => paste'[p].state = paste[p].state
  BY <1>2
<1> QED BY <1>3, <1>4, <1>5, RowsWritten

\* Only what is active is deleted in bulk, so nothing a moderator withholds.
LEMMA BulkDeleteStep ==
    ASSUME PastesInvariant, NEW u \in Author, NEW S \in SUBSET Paste, BulkDelete(u, S)
    PROVE  PastesInvariant'
<1> DEFINE T == {p \in S : paste[p].state = "active"}
           row == [p \in T |-> [paste[p] EXCEPT !.state = "deleted"]]
<1>1. /\ \A p \in S : paste[p] # None
      /\ UNCHANGED <<revisions, request, texts, historyVars>>
      /\ paste' = [p \in Paste |-> IF p \in T THEN row[p] ELSE paste[p]]
  BY DEF BulkDelete, Selectable
<1>2. PastesTypeOK /\ VerdictsStand
  BY DEF PastesInvariant
<1>3. \A p \in T : paste[p] # None /\ row[p] \in PasteRow /\ verdict[p] # "held"
  BY <1>1, <1>2, PasteTyped, PasteWritten DEF VerdictsStand, ItemStates
<1> HIDE DEF T, row
<1>4. T \in SUBSET Paste
  BY DEF T
<1> QED BY <1>1, <1>3, <1>4, SomeRowsWritten

LEMMA SetExpiryStep ==
    ASSUME PastesInvariant, NEW u \in Author, NEW S \in SUBSET Paste, SetExpiry(u, S)
    PROVE  PastesInvariant'
<1>1. /\ \A p \in S : paste[p] # None
      /\ UNCHANGED <<revisions, request, texts, historyVars>>
      /\ paste' = [p \in Paste |-> IF p \in S THEN [paste[p] EXCEPT !.due = FALSE]
                                              ELSE paste[p]]
  BY DEF SetExpiry, Selectable
<1>2. PastesTypeOK /\ None \notin PasteRow
  BY DEF PastesInvariant
<1>3. \A p \in S : paste[p] \in PasteRow
  BY <1>1, <1>2, PasteTyped
<1>4. \A p \in S : /\ [paste[p] EXCEPT !.due = FALSE] \in PasteRow
                  /\ [paste[p] EXCEPT !.due = FALSE].state = paste[p].state
  BY <1>3 DEF PasteRow
<1>5. paste' \in [Paste -> PasteRow \cup {None}]
  BY <1>1, <1>2, <1>4 DEF PastesTypeOK
<1>6. \A p \in Paste : paste[p] = None <=> paste'[p] = None
  BY <1>1, <1>2, <1>4
<1>7. \A p \in Paste : verdict[p] = "held" => paste'[p].state = paste[p].state
  BY <1>1, <1>4
<1> QED BY <1>1, <1>5, <1>6, <1>7, RowsWritten

LEMMA FallDueStep ==
    ASSUME PastesInvariant, NEW p \in Paste, FallDue(p)
    PROVE  PastesInvariant'
<1> DEFINE row == [paste[p] EXCEPT !.due = TRUE]
<1>1. /\ paste[p] # None /\ paste' = [paste EXCEPT ![p] = row]
      /\ UNCHANGED <<revisions, request, texts, historyVars>>
  BY DEF FallDue
<1>2. PastesTypeOK /\ None \notin PasteRow
  BY DEF PastesInvariant
<1>3. paste[p] \in PasteRow
  BY <1>1, <1>2, PasteTyped
<1>4. row \in PasteRow /\ row.state = paste[p].state
  BY <1>3, PasteWritten DEF PasteRow
<1> HIDE DEF row
<1>5. \A q \in Paste : IF q = p THEN paste'[q] = row ELSE paste'[q] = paste[q]
  BY <1>1, <1>2 DEF PastesTypeOK
<1>6. paste' \in [Paste -> PasteRow \cup {None}]
  BY <1>1, <1>2, <1>4 DEF PastesTypeOK
<1>7. \A q \in Paste : paste[q] = None <=> paste'[q] = None
  BY <1>1, <1>2, <1>4, <1>5
<1>8. \A q \in Paste : paste'[q].state = paste[q].state
  BY <1>4, <1>5
<1> QED BY <1>1, <1>6, <1>7, <1>8, RowsWritten

LEMMA ExpireDuePastesStep ==
    ASSUME PastesInvariant, ExpireDuePastes
    PROVE  PastesInvariant'
<1> DEFINE T == {p \in Paste : paste[p] # None /\ paste[p].state = "active" /\ paste[p].due}
           row == [p \in T |-> [paste[p] EXCEPT !.state = "expired"]]
<1>1. /\ UNCHANGED <<revisions, request, texts, historyVars>>
      /\ paste' = [p \in Paste |-> IF p \in T THEN row[p] ELSE paste[p]]
  BY DEF ExpireDuePastes
<1>2. PastesTypeOK /\ VerdictsStand
  BY DEF PastesInvariant
<1>3. \A p \in T : paste[p] # None /\ row[p] \in PasteRow /\ verdict[p] # "held"
  BY <1>2, PasteTyped, PasteWritten DEF VerdictsStand, ItemStates
<1> HIDE DEF T, row
<1>4. T \in SUBSET Paste
  BY DEF T
<1> QED BY <1>1, <1>3, <1>4, SomeRowsWritten

LEMMA ClaimPasteStep ==
    ASSUME PastesInvariant, NEW u \in Author, NEW p \in Paste, ClaimPaste(u, p)
    PROVE  PastesInvariant'
<1> DEFINE row == [paste[p] EXCEPT !.owner = u]
<1>1. /\ paste[p] # None /\ paste' = [paste EXCEPT ![p] = row]
      /\ UNCHANGED <<revisions, request, texts, historyVars>>
  BY DEF ClaimPaste, Claimable
<1>2. PastesTypeOK /\ None \notin PasteRow
  BY DEF PastesInvariant
<1>3. paste[p] \in PasteRow
  BY <1>1, <1>2, PasteTyped
<1>4. row \in PasteRow /\ row.state = paste[p].state
  BY <1>3, PasteWritten DEF PasteRow, Owner
<1> HIDE DEF row
<1>5. \A q \in Paste : IF q = p THEN paste'[q] = row ELSE paste'[q] = paste[q]
  BY <1>1, <1>2 DEF PastesTypeOK
<1>6. paste' \in [Paste -> PasteRow \cup {None}]
  BY <1>1, <1>2, <1>4 DEF PastesTypeOK
<1>7. \A q \in Paste : paste[q] = None <=> paste'[q] = None
  BY <1>1, <1>2, <1>4, <1>5
<1>8. \A q \in Paste : paste'[q].state = paste[q].state
  BY <1>4, <1>5
<1> QED BY <1>1, <1>6, <1>7, <1>8, RowsWritten

\* The verdict is the new state, and every deletion that has looked before is late.
LEMMA ModeratePasteStep ==
    ASSUME PastesInvariant, NEW p \in Paste, NEW to \in ItemStates, ModeratePaste(p, to)
    PROVE  PastesInvariant'
<1> DEFINE row == [paste[p] EXCEPT !.state = to]
<1>1. /\ paste[p] # None /\ paste' = [paste EXCEPT ![p] = row]
      /\ verdict' = [verdict EXCEPT ![p] = to]
      /\ request' = [r \in Request |-> IF request[r] # None /\ request[r].paste = p
                                       THEN [request[r] EXCEPT !.late = TRUE] ELSE request[r]]
      /\ UNCHANGED <<revisions, texts, had, blind>>
  BY DEF ModeratePaste
<1>2. PastesTypeOK /\ VerdictsStand /\ VerdictsOnRows /\ None \notin PasteRow
  BY DEF PastesInvariant
<1>3. paste[p] \in PasteRow
  BY <1>1, <1>2, PasteTyped
<1>4. row \in PasteRow /\ row.state = to
  BY <1>3, PasteWritten DEF PasteRow
<1> HIDE DEF row
<1>5. \A q \in Paste : IF q = p THEN paste'[q] = row ELSE paste'[q] = paste[q]
  BY <1>1, <1>2 DEF PastesTypeOK
<1>6. \A q \in Paste : IF q = p THEN verdict'[q] = to ELSE verdict'[q] = verdict[q]
  BY <1>1, <1>2 DEF PastesTypeOK
<1>7. PastesTypeOK'
  <2>1. ASSUME NEW r \in Request, request[r] # None
        PROVE  [request[r] EXCEPT !.late = TRUE] \in RequestRow
    BY <2>1, <1>2, PasteRequestTyped, PasteRequestWritten
  <2>2. request' \in [Request -> RequestRow \cup {None}]
    BY <1>1, <1>2, <2>1 DEF PastesTypeOK
  <2> QED BY <1>1, <1>2, <1>4, <2>2 DEF PastesTypeOK
<1>8. VerdictsStand'
  BY <1>2, <1>4, <1>5, <1>6 DEF VerdictsStand
<1>9. ASSUME NEW r \in Request PROVE RequestReady(r)'
  <2> SUFFICES ASSUME request[r] # None PROVE RequestReady(r)'
    BY <1>1 DEF RequestReady
  <2>1. RequestReady(r) /\ request[r] \in RequestRow /\ request[r].paste \in Paste
    BY <1>2, PasteRequestTyped DEF PastesInvariant
  <2>2. CASE request[r].paste = p
    <3>1. request'[r] = [request[r] EXCEPT !.late = TRUE]
      BY <1>1, <2>2
    <3>2. /\ request'[r].paste = p /\ request'[r].late
          /\ request'[r].step = request[r].step /\ request'[r].text = request[r].text
          /\ request'[r].base = request[r].base
      BY <2>1, <2>2, <3>1 DEF RequestRow
    <3>3. paste'[p] # None
      BY <1>2, <1>4, <1>5
    <3> QED BY <1>1, <2>1, <2>2, <3>2, <3>3 DEF RequestReady
  <2>3. CASE request[r].paste # p
    <3>1. request'[r] = request[r] /\ paste'[request[r].paste] = paste[request[r].paste]
          /\ verdict'[request[r].paste] = verdict[request[r].paste]
      BY <1>1, <1>5, <1>6, <2>1, <2>3
    <3> QED BY <1>1, <2>1, <3>1 DEF RequestReady
  <2> QED BY <2>2, <2>3
<1>10. VerdictsOnRows'
  BY <1>2, <1>4, <1>5, <1>6 DEF VerdictsOnRows
<1> QED BY <1>7, <1>8, <1>9, <1>10, PastesParts

\* Every step leaves the types, the verdicts and what requests rely on as they should be.
LEMMA PastesStepInvariant ==
    ASSUME PastesInvariant, [PastesNext]_pasteVars
    PROVE  PastesInvariant'
<1>1. ASSUME NEW p \in Paste, NEW o \in Owner, FormCreate(o, p) \/ ApiCreate(o, p)
      PROVE  PastesInvariant'
  BY <1>1, CreatePasteStep DEF FormCreate, ApiCreate
<1>2. ASSUME NEW p \in Paste, NEW u \in Author, FormClaim(u, p) \/ ApiClaim(u, p)
      PROVE  PastesInvariant'
  BY <1>2, ClaimPasteStep DEF FormClaim, ApiClaim
<1>3. ASSUME NEW p \in Paste, FallDue(p) PROVE PastesInvariant'
  BY <1>3, FallDueStep
<1>4. ASSUME NEW p \in Paste, NEW to \in ItemStates \ {"expired"}, ModeratePaste(p, to)
      PROVE  PastesInvariant'
  BY <1>4, ModeratePasteStep
<1>5. ASSUME NEW r \in Request, NEW u \in Author, NEW p \in Paste, EditStart(r, u, p)
      PROVE  PastesInvariant'
  BY <1>5, EditStartStep
<1>6. ASSUME NEW r \in Request, NEW u \in Owner, NEW p \in Paste,
             DeleteStart(r, u, p) \/ ApiDeleteStart(r, u, p)
      PROVE  PastesInvariant'
  BY <1>6, DeleteStartStep DEF ApiDeleteStart
<1>7. ASSUME NEW r \in Request, EditRead(r) PROVE PastesInvariant'
  BY <1>7, EditReadStep
<1>8. ASSUME NEW r \in Request, EditInsert(r) PROVE PastesInvariant'
  BY <1>8, EditInsertStep
<1>9. ASSUME NEW r \in Request, EditWrite(r) PROVE PastesInvariant'
  BY <1>9, EditWriteStep
<1>10. ASSUME NEW r \in Request, DeleteWrite(r) PROVE PastesInvariant'
  BY <1>10, DeleteWriteStep
<1>11. ASSUME NEW r \in Request, DropRequest(r) PROVE PastesInvariant'
  BY <1>11, DropRequestStep
<1>12. ASSUME NEW u \in Author, NEW S \in SUBSET Paste, BulkDelete(u, S)
       PROVE  PastesInvariant'
  BY <1>12, BulkDeleteStep
<1>13. ASSUME NEW u \in Author, NEW S \in SUBSET Paste, SetExpiry(u, S)
       PROVE  PastesInvariant'
  BY <1>13, SetExpiryStep
<1>14. CASE ExpireDuePastes
  BY <1>14, ExpireDuePastesStep
<1>15. CASE UNCHANGED pasteVars
  BY <1>15 DEF pasteVars, historyVars, PastesInvariant, PastesTypeOK, VerdictsStand, RequestReady,
               VerdictsOnRows
<1> QED BY <1>1, <1>2, <1>3, <1>4, <1>5, <1>6, <1>7, <1>8, <1>9, <1>10, <1>11, <1>12, <1>13,
           <1>14, <1>15 DEF PastesNext

\* Neither the job nor a bulk deletion nor a deletion that starts later undoes what a
\* moderator has made of a paste (apply_item_moderation), for any number of requests.
THEOREM VerdictsAreKept == PastesSpec => []PastesInvariant
<1>1. PastesInit => PastesInvariant
  BY PastesInitInvariant
<1>2. PastesInvariant /\ [PastesNext]_pasteVars => PastesInvariant'
  BY PastesStepInvariant
<1> QED BY <1>1, <1>2, PTL DEF PastesSpec

\* Only the last statement of an edit takes a text away, and it had put the one it read
\* among the revisions.
LEMMA TextsKept ==
    ASSUME PastesInvariant, HistoryKept, [PastesNext]_pasteVars
    PROVE  HistoryKept'
<1>1. CASE UNCHANGED <<had, blind>> /\ revisions \subseteq revisions'
  BY <1>1 DEF HistoryKept
<1>2. ASSUME NEW r \in Request, EditWrite(r) PROVE HistoryKept'
  <2>1. RequestReady(r) /\ request[r] # None /\ request[r].step = "update"
    BY <1>2 DEF EditWrite, PastesInvariant
  <2>2. <<request[r].paste, request[r].base>> \in revisions
    BY <2>1 DEF RequestReady
  <2> QED BY <1>2, <2>2 DEF EditWrite, HistoryKept
<1>3. ASSUME NEW r \in Request, EditInsert(r)
      PROVE  UNCHANGED <<had, blind>> /\ revisions \subseteq revisions'
  BY <1>3 DEF EditInsert, historyVars
<1> QED BY <1>1, <1>2, <1>3
        DEF PastesNext, pasteVars, historyVars, FormCreate, ApiCreate, CreatePaste, FormClaim,
            ApiClaim, ClaimPaste, FallDue, ModeratePaste, EditStart, DeleteStart, ApiDeleteStart,
            EditRead, DeleteWrite, DropRequest, BulkDelete, SetExpiry, ExpireDuePastes

\* "Each edit creates a revision record": no text is lost but by an edit that had read an
\* older one (update_paste), however edits interleave.
THEOREM EditsKeepHistory == PastesSpec => []HistoryKept
<1>1. PastesInit => PastesInvariant /\ HistoryKept
  BY PastesInitInvariant
<1>2. PastesInvariant /\ HistoryKept /\ [PastesNext]_pasteVars
          => (PastesInvariant /\ HistoryKept)'
  BY PastesStepInvariant, TextsKept
<1>3. PastesInvariant /\ HistoryKept => HistoryKept
  OBVIOUS
<1> QED BY <1>1, <1>2, <1>3, PTL DEF PastesSpec

\* Only a claim writes the owner, of a paste that nobody owns (claim_paste_by_public_id).
THEOREM OwnersStay == PastesSpec => OwnerStays
<1> DEFINE Stays(p) == paste[p] # None =>
                           paste'[p].owner = paste[p].owner \/ paste[p].owner = Nobody
<1>1. ASSUME PastesInvariant, [PastesNext]_pasteVars, NEW p \in Paste PROVE Stays(p)
  <2> SUFFICES ASSUME paste[p] # None PROVE Stays(p)
    OBVIOUS
  <2>1. paste[p] \in PasteRow /\ paste \in [Paste -> PasteRow \cup {None}]
    BY <1>1, PasteTyped DEF PastesInvariant, PastesTypeOK
  <2>2. CASE UNCHANGED paste
    BY <2>2
  <2>3. CASE \E o \in Owner, q \in Paste : CreatePaste(o, q)
    BY <2>1, <2>3 DEF CreatePaste
  <2>4. CASE \E u \in Author, q \in Paste : ClaimPaste(u, q)
    BY <2>1, <2>4 DEF ClaimPaste, Claimable
  <2>5. CASE \E q \in Paste : FallDue(q) \/ \E to \in ItemStates : ModeratePaste(q, to)
    BY <2>1, <2>5 DEF FallDue, ModeratePaste, PasteRow
  <2>6. CASE \E r \in Request : EditWrite(r) \/ DeleteWrite(r)
    BY <2>1, <2>6 DEF EditWrite, DeleteWrite, PasteRow
  <2>7. CASE \E u \in Author, S \in SUBSET Paste : BulkDelete(u, S) \/ SetExpiry(u, S)
    <3>1. PICK u \in Author, S \in SUBSET Paste : BulkDelete(u, S) \/ SetExpiry(u, S)
      BY <2>7
    <3>2. CASE BulkDelete(u, S)
      BY <2>1, <3>2 DEF BulkDelete, PasteRow
    <3>3. CASE SetExpiry(u, S)
      BY <2>1, <3>3 DEF SetExpiry, PasteRow
    <3> QED BY <3>1, <3>2, <3>3
  <2>8. CASE ExpireDuePastes
    BY <2>1, <2>8 DEF ExpireDuePastes, PasteRow
  <2> HIDE DEF Stays
  <2> QED BY <1>1, <2>2, <2>3, <2>4, <2>5, <2>6, <2>7, <2>8
          DEF PastesNext, pasteVars, FormCreate, ApiCreate, FormClaim, ApiClaim, EditStart,
              DeleteStart, ApiDeleteStart, EditRead, EditInsert, DropRequest
<1>2. PastesInvariant /\ [PastesNext]_pasteVars => [\A p \in Paste : Stays(p)]_pasteVars
  BY <1>1
<1> QED BY <1>2, VerdictsAreKept, PTL DEF PastesSpec, OwnerStays
=============================================================================
