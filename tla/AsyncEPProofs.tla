---------------------------- MODULE AsyncEPProofs ----------------------------
(***************************************************************************)
(* MinimalAsyncEP for every number of ranks, experts, tokens, picks and    *)
(* layers, any number of buffers from two on, every routing and every      *)
(* interleaving of the ranks: what the exchanges deliver is what one rank  *)
(* with all experts would compute, and what the forward saved is still     *)
(* there when the backward reads it.                                       *)
(*                                                                         *)
(* First the arithmetic.  The places that a sender computes for its rows   *)
(* and the ones a receiver computes for the way back are prefix sums of    *)
(* the same counts; they are inverse to one another, and fit the buffers.  *)
(* So are the blocks and permutations of the all-to-all dispatchers, which *)
(* compute the same sums.                                                  *)
(* Then the protocol.  The barriers keep two ranks within one operation of *)
(* each other (GateInv), and what was written for an operation stays until *)
(* somebody starts to write the buffer a round later (DataInv); together   *)
(* they say that what a rank reads is what its peers meant for it.         *)
(***************************************************************************)
EXTENDS AsyncEP, FiniteSetTheorems, SequenceTheorems, WellFoundedInduction, TLAPS

-----------------------------------------------------------------------------
(* Prefix sums.                                                            *)

\* Induction on a set of numbers.
LEMMA NatInductionSet ==
    ASSUME NEW T, 0 \in T, \A n \in Nat : n \in T => n + 1 \in T
    PROVE  Nat \subseteq T
<1> DEFINE rest == {n \in Nat : n \notin T}
<1> SUFFICES ASSUME rest # {} PROVE FALSE
  OBVIOUS
<1>1. PICK m \in rest : \A t \in rest : <<t, m>> \notin OpToRel(<, Nat)
  BY WFMin, NatLessThanWellFounded, Zenon
<1>2. m \in Nat /\ m # 0 /\ m \notin T
  BY <1>1
<1>3. m - 1 \in Nat /\ (m - 1) + 1 = m
  BY <1>2
<1>4. m - 1 \in rest
  BY <1>2, <1>3
<1>5. <<m - 1, m>> \in Nat \X Nat /\ <<m - 1, m>>[1] = m - 1 /\ <<m - 1, m>>[2] = m
  BY <1>2, <1>3
<1>6. <<m - 1, m>> \notin OpToRel(<, Nat)
  BY <1>1, <1>4
<1> QED
  BY <1>2, <1>5, <1>6, SMT DEF OpToRel

\* A function with the sums of f up to k.
SumsUpto(f, k, sum) == sum = [j \in 0..k |-> IF j = 0 THEN 0 ELSE sum[j - 1] + f[j - 1]]

\* The recursion of PrefixSum has a solution ...
LEMMA SumsExist ==
    ASSUME NEW f, NEW k \in Nat
    PROVE  \E sum : SumsUpto(f, k, sum)
<1> DEFINE T == {n \in Nat : \E sum : SumsUpto(f, n, sum)}
<1>1. 0 \in T
  <2>1. SumsUpto(f, 0, [j \in 0..0 |-> 0])
    BY DEF SumsUpto
  <2> QED  BY <2>1
<1>2. ASSUME NEW n \in Nat, n \in T PROVE n + 1 \in T
  <2>1. PICK sum : SumsUpto(f, n, sum)
    BY <1>2
  <2> DEFINE more == [j \in 0..(n + 1) |-> IF j = n + 1 THEN sum[n] + f[n] ELSE sum[j]]
  <2>2. \A j \in 0..n : sum[j] = IF j = 0 THEN 0 ELSE sum[j - 1] + f[j - 1]
    BY <2>1 DEF SumsUpto
  <2>3. ASSUME NEW j \in 0..(n + 1)
        PROVE  more[j] = IF j = 0 THEN 0 ELSE more[j - 1] + f[j - 1]
    <3>1. CASE j = 0
      BY <2>2, <3>1
    <3>2. CASE j # 0 /\ j # n + 1
      <4>1. j \in 0..n /\ j - 1 \in 0..(n + 1) /\ j - 1 # n + 1
        BY <3>2
      <4> QED  BY <2>2, <3>2, <4>1
    <3>3. CASE j = n + 1
      <4>1. j - 1 = n /\ n \in 0..(n + 1) /\ n # n + 1 /\ j # 0
        BY <3>3
      <4> QED  BY <3>3, <4>1
    <3> QED  BY <3>1, <3>2, <3>3
  <2>4. more = [j \in 0..(n + 1) |-> more[j]]
    OBVIOUS
  <2> HIDE DEF more
  <2>5. SumsUpto(f, n + 1, more)
    BY <2>3, <2>4 DEF SumsUpto
  <2> QED  BY <2>5
<1> HIDE DEF T
<1>3. k \in T
  BY <1>1, <1>2, NatInductionSet
<1> QED  BY <1>3 DEF T

\* ... and only one.
LEMMA SumsUnique ==
    ASSUME NEW f, NEW k \in Nat, NEW n \in 0..k, NEW s1, NEW s2,
           SumsUpto(f, k, s1), SumsUpto(f, n, s2)
    PROVE  \A j \in 0..n : s1[j] = s2[j]
<1> DEFINE T == {j \in Nat : j <= n => s1[j] = s2[j]}
<1>1. /\ \A j \in 0..k : s1[j] = IF j = 0 THEN 0 ELSE s1[j - 1] + f[j - 1]
      /\ \A j \in 0..n : s2[j] = IF j = 0 THEN 0 ELSE s2[j - 1] + f[j - 1]
  BY DEF SumsUpto
<1>2. 0 \in T
  BY <1>1
<1>3. ASSUME NEW j \in Nat, j \in T PROVE j + 1 \in T
  <2> SUFFICES ASSUME j + 1 <= n PROVE s1[j + 1] = s2[j + 1]
    OBVIOUS
  <2>1. j + 1 \in 0..k /\ j + 1 \in 0..n /\ j + 1 # 0 /\ (j + 1) - 1 = j /\ j <= n
    OBVIOUS
  <2> QED  BY <1>1, <1>3, <2>1
<1> HIDE DEF T
<1>4. Nat \subseteq T
  BY <1>2, <1>3, NatInductionSet
<1> QED  BY <1>4 DEF T

\* What PrefixSum computes.
LEMMA SumStep ==
    ASSUME NEW f, NEW k \in Nat
    PROVE  /\ PrefixSum(f, 0) = 0
           /\ PrefixSum(f, k + 1) = PrefixSum(f, k) + f[k]
<1> DEFINE sums(n) == CHOOSE sum : SumsUpto(f, n, sum)
<1>1. \A n : PrefixSum(f, n) = sums(n)[n]
  BY DEF PrefixSum, SumsUpto
<1>2. \A n \in Nat : SumsUpto(f, n, sums(n))
  BY SumsExist
<1> HIDE DEF sums
<1>3. PrefixSum(f, 0) = 0
  BY <1>1, <1>2 DEF SumsUpto
<1>4. k + 1 \in Nat /\ k \in 0..(k + 1) /\ k + 1 \in 0..(k + 1) /\ k + 1 # 0 /\ (k + 1) - 1 = k /\ k \in 0..k
  OBVIOUS
<1>5. sums(k + 1)[k + 1] = sums(k + 1)[k] + f[k]
  BY <1>2, <1>4 DEF SumsUpto
<1>6. sums(k + 1)[k] = sums(k)[k]
  BY <1>2, <1>4, SumsUnique
<1> QED  BY <1>1, <1>3, <1>5, <1>6

\* The sums of natural numbers grow.
LEMMA SumsGrow ==
    ASSUME NEW n \in Nat, NEW f, \A k \in 0..(n - 1) : f[k] \in Nat
    PROVE  /\ \A k \in 0..n : PrefixSum(f, k) \in Nat
           /\ \A i, k \in 0..n : i < k => PrefixSum(f, i) + f[i] <= PrefixSum(f, k)
<1> DEFINE T == {k \in Nat : k <= n => PrefixSum(f, k) \in Nat}
<1>1. 0 \in T
  BY SumStep
<1>2. ASSUME NEW k \in Nat, k \in T PROVE k + 1 \in T
  <2> SUFFICES ASSUME k + 1 <= n PROVE PrefixSum(f, k + 1) \in Nat
    OBVIOUS
  <2>1. PrefixSum(f, k) \in Nat /\ f[k] \in Nat
    BY <1>2
  <2> QED  BY <2>1, SumStep
<1> HIDE DEF T
<1>3. \A k \in 0..n : PrefixSum(f, k) \in Nat
  <2>1. Nat \subseteq T
    BY <1>1, <1>2, NatInductionSet
  <2> QED  BY <2>1 DEF T
<1>4. ASSUME NEW i \in 0..n PROVE \A k \in 0..n : i < k => PrefixSum(f, i) + f[i] <= PrefixSum(f, k)
  <2> DEFINE U == {k \in Nat : k <= n /\ i < k => PrefixSum(f, i) + f[i] <= PrefixSum(f, k)}
  <2>1. 0 \in U
    OBVIOUS
  <2>2. ASSUME NEW k \in Nat, k \in U PROVE k + 1 \in U
    <3> SUFFICES ASSUME k + 1 <= n, i < k + 1
                 PROVE  PrefixSum(f, i) + f[i] <= PrefixSum(f, k + 1)
      OBVIOUS
    <3>1. PrefixSum(f, k + 1) = PrefixSum(f, k) + f[k]
      BY SumStep
    <3>2. k \in 0..n /\ f[k] \in Nat /\ PrefixSum(f, k) \in Nat /\ PrefixSum(f, i) \in Nat
          /\ i \in 0..(n - 1) /\ f[i] \in Nat
      BY <1>3
    <3>3. CASE i = k
      BY <3>1, <3>2, <3>3
    <3>4. CASE i < k
      <4>1. PrefixSum(f, i) + f[i] <= PrefixSum(f, k)
        BY <2>2, <3>2, <3>4
      <4> QED  BY <3>1, <3>2, <4>1
    <3> QED  BY <3>2, <3>3, <3>4
  <2> HIDE DEF U
  <2>3. Nat \subseteq U
    BY <2>1, <2>2, NatInductionSet
  <2> QED  BY <2>3 DEF U
<1> QED  BY <1>3, <1>4

\* A number below the whole sum falls to one summand ...
LEMMA Located ==
    ASSUME NEW n \in Nat, NEW f, \A k \in 0..(n - 1) : f[k] \in Nat,
           NEW p \in Nat, p < PrefixSum(f, n)
    PROVE  \E k \in 0..(n - 1) : PrefixSum(f, k) <= p /\ p < PrefixSum(f, k) + f[k]
<1> DEFINE Falls == \E k \in 0..(n - 1) : PrefixSum(f, k) <= p /\ p < PrefixSum(f, k) + f[k]
           T == {m \in Nat : m <= n /\ p < PrefixSum(f, m) => Falls}
<1>1. 0 \in T
  BY SumStep
<1>2. ASSUME NEW m \in Nat, m \in T PROVE m + 1 \in T
  <2> SUFFICES ASSUME m + 1 <= n, p < PrefixSum(f, m + 1) PROVE Falls
    OBVIOUS
  <2>1. PrefixSum(f, m + 1) = PrefixSum(f, m) + f[m] /\ PrefixSum(f, m) \in Nat /\ m \in 0..(n - 1)
    BY SumStep, SumsGrow
  <2>2. CASE p < PrefixSum(f, m)
    BY <1>2, <2>2
  <2>3. CASE ~(p < PrefixSum(f, m))
    BY <2>1, <2>3
  <2> QED  BY <2>2, <2>3
<1> HIDE DEF T
<1>3. n \in T
  BY <1>1, <1>2, NatInductionSet
<1> QED  BY <1>3 DEF T

\* ... and to no other.
LEMMA LocatedOnce ==
    ASSUME NEW n \in Nat, NEW f, \A k \in 0..(n - 1) : f[k] \in Nat, NEW p \in Int,
           NEW i \in 0..(n - 1), PrefixSum(f, i) <= p, p < PrefixSum(f, i) + f[i],
           NEW k \in 0..(n - 1), PrefixSum(f, k) <= p, p < PrefixSum(f, k) + f[k]
    PROVE  i = k
<1>1. \A m \in 0..(n - 1) : m \in 0..n /\ PrefixSum(f, m) \in Nat /\ f[m] \in Nat
  BY SumsGrow
<1>2. i < k => PrefixSum(f, i) + f[i] <= PrefixSum(f, k)
  BY <1>1, SumsGrow
<1>3. k < i => PrefixSum(f, k) + f[k] <= PrefixSum(f, i)
  BY <1>1, SumsGrow
<1> QED  BY <1>1, <1>2, <1>3

\* A summand's part lies below the whole sum.
LEMMA LocatedBelow ==
    ASSUME NEW n \in Nat, NEW f, \A k \in 0..(n - 1) : f[k] \in Nat, NEW i \in 0..(n - 1)
    PROVE  /\ PrefixSum(f, i) \in Nat /\ PrefixSum(f, n) \in Nat
           /\ PrefixSum(f, i) + f[i] <= PrefixSum(f, n)
<1>1. i \in 0..n /\ n \in 0..n /\ i < n
  OBVIOUS
<1> QED  BY <1>1, SumsGrow

-----------------------------------------------------------------------------
(* The slots of a rank, sorted by expert.                                  *)

NumExperts == EpSize * LocalExperts
NumRows == Tokens * TopK

LEMMA Sizes ==
    /\ EpSize \in Nat \ {0} /\ LocalExperts \in Nat \ {0} /\ Tokens \in Nat \ {0} /\ TopK \in Nat \ {0}
    /\ NumExperts \in Nat \ {0} /\ TopK <= NumExperts /\ Experts = 0..(NumExperts - 1)
    /\ NumRows \in Nat \ {0} /\ Rows = 0..(NumRows - 1)
    /\ IsFiniteSet(Rows) /\ Cardinality(Rows) = NumRows
<1>1. /\ EpSize \in Nat \ {0} /\ LocalExperts \in Nat \ {0} /\ Tokens \in Nat \ {0}
      /\ TopK \in 1..NumExperts
  BY DispatchAssumption DEF NumExperts
<1>2. NumExperts \in Nat \ {0}
  BY <1>1 DEF NumExperts
<1>3. TopK \in Nat \ {0} /\ TopK <= NumExperts
  BY <1>1, <1>2
<1>4. NumRows \in Nat \ {0}
  BY <1>1, <1>3 DEF NumRows
<1>5. Experts = 0..(NumExperts - 1) /\ Rows = 0..(NumRows - 1)
  BY DEF Experts, Rows, NumExperts, NumRows
<1>6. IsFiniteSet(Rows) /\ Cardinality(Rows) = NumRows
  BY <1>4, <1>5, FS_Interval
<1> QED  BY <1>1, <1>2, <1>3, <1>4, <1>5, <1>6

Below(w, x) == {n \in Rows : w[n] < x}
SlotsFor(w, x) == {n \in Rows : w[n] = x}

\* The start of an expert among the sorted rows: the slots for the experts before it.
LEMMA StartIs ==
    ASSUME NEW w \in Routings
    PROVE  /\ \A x \in Experts : CountsOf(w)[x] = Cardinality(SlotsFor(w, x))
           /\ \A x \in Experts : CountsOf(w)[x] \in Nat
           /\ \A x \in 0..NumExperts : StartOf(CountsOf(w), x) = Cardinality(Below(w, x))
           /\ \A x \in 0..NumExperts : StartOf(CountsOf(w), x) \in Nat
<1> DEFINE c == CountsOf(w)
           T == {x \in Nat : x <= NumExperts => PrefixSum(c, x) = Cardinality(Below(w, x))}
<1>1. w \in [Rows -> Experts]
  BY DEF Routings
<1>2. \A S : S \subseteq Rows => IsFiniteSet(S) /\ Cardinality(S) \in Nat
  BY Sizes, FS_Subset, FS_CardinalityType
<1>3. \A x \in Experts : c[x] = Cardinality(SlotsFor(w, x)) /\ c[x] \in Nat
  BY <1>2 DEF CountsOf, SlotsFor
<1>4. 0 \in T
  <2>1. Below(w, 0) = {}
    BY <1>1, Sizes DEF Below
  <2> QED  BY <2>1, SumStep, FS_EmptySet
<1>5. ASSUME NEW x \in Nat, x \in T PROVE x + 1 \in T
  <2> SUFFICES ASSUME x + 1 <= NumExperts
               PROVE  PrefixSum(c, x + 1) = Cardinality(Below(w, x + 1))
    OBVIOUS
  <2> DEFINE here == SlotsFor(w, x)
  <2>1. x \in Experts /\ x <= NumExperts
    BY Sizes
  <2>2. Below(w, x + 1) = Below(w, x) \cup here /\ Below(w, x) \cap here = {}
    BY <1>1, Sizes DEF Below, SlotsFor
  <2>3. IsFiniteSet(Below(w, x)) /\ IsFiniteSet(here)
        /\ Cardinality(Below(w, x)) \in Nat /\ Cardinality(here) \in Nat
    BY <1>2 DEF Below, SlotsFor
  <2>4. Cardinality(Below(w, x + 1)) = Cardinality(Below(w, x)) + Cardinality(here)
    BY <2>2, <2>3, FS_Union, FS_EmptySet
  <2>5. PrefixSum(c, x + 1) = PrefixSum(c, x) + c[x]
    BY SumStep
  <2>6. c[x] = Cardinality(here)
    BY <1>3, <2>1
  <2>7. PrefixSum(c, x) = Cardinality(Below(w, x))
    BY <1>5, <2>1
  <2> QED  BY <2>4, <2>5, <2>6, <2>7
<1> HIDE DEF T
<1>6. Nat \subseteq T
  BY <1>4, <1>5, NatInductionSet
<1>7. \A x \in 0..NumExperts : PrefixSum(c, x) = Cardinality(Below(w, x))
  BY <1>6, Sizes DEF T
<1> QED  BY <1>2, <1>3, <1>7 DEF StartOf, Below

\* The place of slot n in the sorted order.
Before(w, n) == {m \in Rows : \/ w[m] < w[n]
                              \/ w[m] = w[n] /\ m < n}
Place(w, n) == Cardinality(Before(w, n))

\* Sorting gives every slot a place of its own.
LEMMA PlacesApart ==
    ASSUME NEW w \in Routings, NEW n \in Rows
    PROVE  /\ Place(w, n) \in Rows
           /\ \A m \in Rows : Place(w, m) = Place(w, n) => m = n
<1>1. \A i \in Rows : w[i] \in Int /\ i \in Int
  BY Sizes DEF Routings
<1>2. \A S : S \subseteq Rows => IsFiniteSet(S) /\ Cardinality(S) \in Nat
  BY Sizes, FS_Subset, FS_CardinalityType
<1>3. ASSUME NEW i \in Rows, NEW j \in Rows, i \in Before(w, j)
      PROVE  Place(w, i) < Place(w, j)
  <2>1. Before(w, i) \subseteq Before(w, j) /\ i \notin Before(w, i)
    BY <1>1, <1>3 DEF Before
  <2>2. IsFiniteSet(Before(w, i)) /\ IsFiniteSet(Before(w, j))
        /\ Place(w, i) \in Nat /\ Place(w, j) \in Nat
    BY <1>2 DEF Before, Place
  <2>3. Place(w, i) <= Place(w, j) /\ (Place(w, j) = Place(w, i) => Before(w, j) = Before(w, i))
    BY <2>1, <2>2, FS_Subset DEF Place
  <2> QED  BY <1>3, <2>1, <2>2, <2>3
<1>4. Place(w, n) \in Rows
  <2>1. Before(w, n) \subseteq Rows /\ n \notin Before(w, n)
    BY <1>1 DEF Before
  <2>2. Place(w, n) \in Nat /\ Place(w, n) <= NumRows /\ (NumRows = Place(w, n) => Rows = Before(w, n))
    BY <1>2, <2>1, Sizes, FS_Subset DEF Place
  <2>3. Place(w, n) # NumRows
    BY <2>1, <2>2
  <2> QED  BY <2>2, <2>3, Sizes
<1>5. ASSUME NEW m \in Rows, Place(w, m) = Place(w, n) PROVE m = n
  <2>1. m # n => m \in Before(w, n) \/ n \in Before(w, m)
    BY <1>1 DEF Before
  <2>2. Place(w, m) \in Nat /\ Place(w, n) \in Nat
    BY <1>2 DEF Before, Place
  <2> QED  BY <1>3, <1>5, <2>1, <2>2
<1> QED  BY <1>4, <1>5

\* The sort is a permutation: each row holds the slot whose place it is.
LEMMA OrderIs ==
    ASSUME NEW w \in Routings
    PROVE  /\ ExpertOrder(w) \in [Rows -> Rows]
           /\ \A row \in Rows : Place(w, ExpertOrder(w)[row]) = row
           /\ \A n \in Rows : Place(w, n) \in Rows /\ ExpertOrder(w)[Place(w, n)] = n
           /\ \A n \in Rows : Inverted(ExpertOrder(w))[n] = Place(w, n)
<1> DEFINE place == [n \in Rows |-> Place(w, n)]
           order == ExpertOrder(w)
<1>1. place \in Injection(Rows, Rows)
  BY PlacesApart DEF Injection, IsInjective
<1>2. place \in Surjection(Rows, Rows)
  BY <1>1, Sizes, FS_Injection
<1>3. \A row \in Rows : \E n \in Rows : Place(w, n) = row
  BY <1>2 DEF Surjection
<1>4. order = [row \in Rows |-> CHOOSE n \in Rows : Place(w, n) = row]
  BY DEF ExpertOrder, Place, Before
<1>5. \A row \in Rows : order[row] \in Rows /\ Place(w, order[row]) = row
  BY <1>3, <1>4
<1>6. order \in [Rows -> Rows]
  BY <1>4, <1>5
<1>7. \A n \in Rows : Place(w, n) \in Rows /\ order[Place(w, n)] = n
  BY <1>5, PlacesApart
<1> HIDE DEF order
<1>8. ASSUME NEW n \in Rows PROVE Inverted(order)[n] = Place(w, n)
  <2>1. \A row \in Rows : order[row] = n => row = Place(w, n)
    BY <1>5
  <2>2. Inverted(order)[n] = CHOOSE row \in Rows : order[row] = n
    BY DEF Inverted
  <2> QED  BY <1>7, <2>1, <2>2
<1> QED  BY <1>5, <1>6, <1>7, <1>8 DEF order

\* The rows of an expert stand together, from its start on.
LEMMA OrderSorts ==
    ASSUME NEW w \in Routings, NEW row \in Rows
    PROVE  LET x == w[ExpertOrder(w)[row]]
               c == CountsOf(w)
           IN  /\ x \in Experts
               /\ StartOf(c, x) <= row /\ row < StartOf(c, x) + c[x]
               /\ \A y \in Experts : StartOf(c, y) <= row /\ row < StartOf(c, y) + c[y] => y = x
<1> DEFINE n == ExpertOrder(w)[row]
           x == w[n]
           c == CountsOf(w)
           same == {m \in Rows : w[m] = x /\ m < n}
           here == SlotsFor(w, x)
<1>1. n \in Rows /\ Place(w, n) = row
  BY OrderIs
<1> HIDE DEF n
<1>2. w \in [Rows -> Experts] /\ x \in Experts
  BY <1>1 DEF Routings
<1>3. x \in 0..NumExperts /\ Cardinality(Below(w, x)) = StartOf(c, x) /\ c[x] = Cardinality(here)
      /\ StartOf(c, x) \in Nat /\ c[x] \in Nat
  BY <1>2, StartIs, Sizes
<1>4. Before(w, n) = Below(w, x) \cup same /\ Below(w, x) \cap same = {}
  <2>1. \A m \in Rows : w[m] \in Int
    BY <1>2, Sizes
  <2> QED  BY <1>1, <2>1 DEF Before, Below
<1>5. IsFiniteSet(Below(w, x)) /\ IsFiniteSet(same) /\ IsFiniteSet(here)
  <2>1. \A S : S \subseteq Rows => IsFiniteSet(S)
    BY Sizes, FS_Subset
  <2>2. Below(w, x) \subseteq Rows /\ same \subseteq Rows /\ here \subseteq Rows
    BY DEF Below, SlotsFor
  <2> QED  BY <2>1, <2>2
<1>6. Cardinality(same) \in Nat /\ Cardinality(Below(w, x)) \in Nat
  BY <1>5, FS_CardinalityType
<1>7. row = StartOf(c, x) + Cardinality(same)
  <2> HIDE DEF same
  <2>1. Cardinality(Before(w, n)) = Cardinality(Below(w, x)) + Cardinality(same)
    BY <1>4, <1>5, <1>6, FS_Union, FS_EmptySet
  <2> QED  BY <1>1, <1>3, <2>1 DEF Place
<1>8. Cardinality(same) < c[x]
  <2>1. same \subseteq here /\ n \in here /\ n \notin same
    BY <1>1, Sizes DEF SlotsFor
  <2> HIDE DEF same
  <2>2. Cardinality(same) <= Cardinality(here) /\ (Cardinality(here) = Cardinality(same) => here = same)
    BY <1>5, <2>1, FS_Subset
  <2> QED  BY <1>3, <1>6, <2>1, <2>2
<1>9. StartOf(c, x) <= row /\ row < StartOf(c, x) + c[x]
  BY <1>3, <1>6, <1>7, <1>8
<1>10. ASSUME NEW y \in Experts, StartOf(c, y) <= row, row < StartOf(c, y) + c[y] PROVE y = x
  <2>1. \A k \in 0..(NumExperts - 1) : c[k] \in Nat
    BY StartIs, Sizes
  <2>2. NumExperts \in Nat /\ row \in Int /\ x \in 0..(NumExperts - 1) /\ y \in 0..(NumExperts - 1)
    BY <1>2, Sizes
  <2> QED  BY <1>9, <1>10, <2>1, <2>2, LocatedOnce DEF StartOf
<1> QED  BY <1>2, <1>9, <1>10 DEF n

-----------------------------------------------------------------------------
(* Who owns an expert.                                                     *)

\* Division with remainder.
LEMMA QuotientIs ==
    ASSUME NEW n \in Int, NEW d \in Int, d > 0
    PROVE  /\ n \div d \in Int /\ n % d \in 0..(d - 1)
           /\ n = d * (n \div d) + (n % d)
<1>1. n \div d \in Int /\ n % d \in 0..(d - 1)
  OBVIOUS
<1>2. n = d * (n \div d) + (n % d)
  OBVIOUS
<1> QED  BY <1>1, <1>2

\* A larger multiple is larger by one factor at least.
LEMMA MultipleGrows ==
    ASSUME NEW d \in Nat, NEW a \in Int, NEW b \in Int, a < b
    PROVE  d * a + d <= d * b
<1>1. d * b = d * a + d + d * (b - a - 1)
  OBVIOUS
<1>2. d * (b - a - 1) >= 0
  OBVIOUS
<1>3. d * a \in Int /\ d * b \in Int /\ d * (b - a - 1) \in Int
  OBVIOUS
<1> QED  BY <1>1, <1>2, <1>3

\* There is one way to divide with a remainder.
LEMMA QuotientUnique ==
    ASSUME NEW d \in Nat, d > 0, NEW a \in Int, NEW i \in 0..(d - 1)
    PROVE  (d * a + i) \div d = a /\ (d * a + i) % d = i
<1> DEFINE n == d * a + i
           q == n \div d
           m == n % d
<1>1. d * a \in Int /\ n \in Int
  OBVIOUS
<1>2. q \in Int /\ m \in 0..(d - 1) /\ n = d * q + m
  BY <1>1, QuotientIs
<1> HIDE DEF q, m
<1>3. d * q \in Int
  BY <1>2
<1>4. ~(a < q)
  <2>1. a < q => d * a + d <= d * q
    BY <1>2, MultipleGrows
  <2> HIDE DEF n
  <2>2. n = d * a + i
    BY DEF n
  <2> QED  BY <1>1, <1>2, <1>3, <2>1, <2>2
<1>5. ~(q < a)
  <2>1. q < a => d * q + d <= d * a
    BY <1>2, MultipleGrows
  <2> HIDE DEF n
  <2>2. n = d * a + i
    BY DEF n
  <2> QED  BY <1>1, <1>2, <1>3, <2>1, <2>2
<1>6. q = a
  BY <1>2, <1>4, <1>5
<1>7. m = i
  BY <1>1, <1>2, <1>6
<1> QED  BY <1>6, <1>7 DEF q, m

\* Every expert has an owner and a number among its experts, ...
LEMMA OwnerIs ==
    ASSUME NEW x \in Experts
    PROVE  /\ Owner(x) \in Ranks /\ x % LocalExperts \in Locals
           /\ x = Owner(x) * LocalExperts + (x % LocalExperts)
           /\ x \in OwnedBy(Owner(x))
<1> DEFINE L == LocalExperts
           q == x \div L
           m == x % L
<1>1. L \in Nat /\ L > 0 /\ x \in Int /\ EpSize \in Nat /\ EpSize > 0
  BY Sizes
<1>2. q \in Int /\ m \in 0..(L - 1) /\ x = L * q + m
  BY <1>1, QuotientIs
<1>3. x >= 0 /\ x < L * EpSize
  <2>1. x \in 0..(EpSize * L - 1)
    BY DEF Experts
  <2>2. EpSize * L = L * EpSize /\ EpSize * L \in Int
    BY <1>1
  <2> QED  BY <1>1, <2>1, <2>2
<1> HIDE DEF q, m, L
<1>4. L * q \in Int /\ L * EpSize \in Int /\ L * q = q * L
  BY <1>1, <1>2
<1>5. q >= 0
  <2>1. q < 0 => L * q + L <= L * 0
    BY <1>1, <1>2, MultipleGrows
  <2>2. L * 0 = 0
    BY <1>1
  <2> QED  BY <1>1, <1>2, <1>3, <1>4, <2>1, <2>2
<1>6. q < EpSize
  <2>1. EpSize < q => L * EpSize + L <= L * q
    BY <1>1, <1>2, MultipleGrows
  <2>2. EpSize = q => L * EpSize = L * q
    OBVIOUS
  <2> QED  BY <1>1, <1>2, <1>3, <1>4, <2>1, <2>2
<1>7. q \in Ranks /\ m \in Locals
  BY <1>1, <1>2, <1>5, <1>6 DEF Ranks, Locals, L
<1>8. x = q * L + m
  BY <1>2, <1>4
<1> QED  BY <1>7, <1>8 DEF Owner, OwnedBy, q, m, L

\* ... and every owner and number an expert.
LEMMA ExpertIs ==
    ASSUME NEW r \in Ranks, NEW e \in Locals
    PROVE  LET x == r * LocalExperts + e
           IN  x \in Experts /\ Owner(x) = r /\ x % LocalExperts = e
<1> DEFINE L == LocalExperts
           x == r * L + e
<1>1. /\ L \in Nat /\ L > 0 /\ EpSize \in Nat /\ EpSize > 0
      /\ r \in Int /\ 0 <= r /\ r < EpSize /\ e \in 0..(L - 1)
  BY Sizes DEF Ranks, Locals
<1>2. r * L = L * r /\ L * r \in Int /\ L * EpSize \in Int /\ EpSize * L = L * EpSize
  BY <1>1
<1>3. x \div L = r /\ x % L = e
  BY <1>1, <1>2, QuotientUnique
<1>4. L * r + L <= L * EpSize
  BY <1>1, MultipleGrows
<1>5. L * r >= 0
  BY <1>1
<1>6. x \in 0..(EpSize * L - 1)
  BY <1>1, <1>2, <1>4, <1>5
<1> QED  BY <1>3, <1>6 DEF Owner, Experts

-----------------------------------------------------------------------------
(* The rows a rank receives, by expert and source rank.                    *)

Counted(all) == \A s \in Ranks : \A x \in Experts : all[s][x] \in Nat

InSegment(all, p, x, s) ==
    SegmentStart(all, x, s) <= p /\ p < SegmentStart(all, x, s) + all[s][x]

GroupStart(all, x) == PrefixSum(GroupLens(all, Owner(x)), x % LocalExperts)
SourceStart(all, x, s) == PrefixSum(RowsFor(all, x), s)

\* The segments of an expert, by source ...
LEMMA Sources ==
    ASSUME NEW all, Counted(all), NEW x \in Experts
    PROVE  /\ EpSize \in Nat
           /\ \A s \in 0..(EpSize - 1) : RowsFor(all, x)[s] = all[s][x] /\ RowsFor(all, x)[s] \in Nat
           /\ GroupLen(all, x) \in Nat
           /\ \A s \in Ranks : /\ SourceStart(all, x, s) \in Nat
                               /\ SourceStart(all, x, s) + all[s][x] <= GroupLen(all, x)
<1>1. EpSize \in Nat /\ Ranks = 0..(EpSize - 1) /\ 0 \in Ranks
  BY Sizes DEF Ranks
<1>2. \A s \in 0..(EpSize - 1) : RowsFor(all, x)[s] = all[s][x] /\ RowsFor(all, x)[s] \in Nat
  BY <1>1 DEF RowsFor, Counted
<1>3. \A s \in Ranks : /\ PrefixSum(RowsFor(all, x), s) \in Nat
                       /\ PrefixSum(RowsFor(all, x), EpSize) \in Nat
                       /\ PrefixSum(RowsFor(all, x), s) + RowsFor(all, x)[s] <= PrefixSum(RowsFor(all, x), EpSize)
  BY <1>1, <1>2, LocatedBelow
<1> QED  BY <1>1, <1>2, <1>3 DEF GroupLen, SourceStart

\* ... and the groups of a rank, by expert.
LEMMA Groups ==
    ASSUME NEW all, Counted(all), NEW r \in Ranks
    PROVE  /\ LocalExperts \in Nat
           /\ \A e \in 0..(LocalExperts - 1) : GroupLens(all, r)[e] \in Nat
           /\ \A x \in OwnedBy(r) : /\ x \in Experts /\ x % LocalExperts \in 0..(LocalExperts - 1)
                                    /\ GroupLens(all, r)[x % LocalExperts] = GroupLen(all, x)
           /\ ActiveRows(all, r) \in Nat
           /\ \A x \in OwnedBy(r) : /\ GroupStart(all, x) \in Nat
                                    /\ GroupStart(all, x) + GroupLen(all, x) <= ActiveRows(all, r)
<1>1. LocalExperts \in Nat /\ Locals = 0..(LocalExperts - 1) /\ 0 \in Locals
  BY Sizes DEF Locals
<1>2. \A e \in 0..(LocalExperts - 1) : /\ GroupLens(all, r)[e] = GroupLen(all, r * LocalExperts + e)
                                       /\ GroupLens(all, r)[e] \in Nat
  BY <1>1, ExpertIs, Sources DEF GroupLens
<1>3. \A x \in OwnedBy(r) : /\ x \in Experts /\ Owner(x) = r /\ x % LocalExperts \in 0..(LocalExperts - 1)
                            /\ GroupLens(all, r)[x % LocalExperts] = GroupLen(all, x)
  <2> SUFFICES ASSUME NEW x \in OwnedBy(r)
               PROVE  /\ x \in Experts /\ Owner(x) = r /\ x % LocalExperts \in 0..(LocalExperts - 1)
                      /\ GroupLens(all, r)[x % LocalExperts] = GroupLen(all, x)
    OBVIOUS
  <2>1. x \in Experts /\ Owner(x) = r
    BY DEF OwnedBy
  <2> HIDE DEF GroupLen
  <2>2. x % LocalExperts \in Locals /\ r * LocalExperts + (x % LocalExperts) = x
    BY <2>1, OwnerIs
  <2> DEFINE e == x % LocalExperts
  <2> HIDE DEF e
  <2>3. GroupLens(all, r)[e] = GroupLen(all, r * LocalExperts + e)
    BY <1>1, <1>2, <2>2 DEF e
  <2> QED  BY <1>1, <2>1, <2>2, <2>3 DEF e
<1>4. \A e \in 0..(LocalExperts - 1) :
        /\ PrefixSum(GroupLens(all, r), e) \in Nat /\ PrefixSum(GroupLens(all, r), LocalExperts) \in Nat
        /\ PrefixSum(GroupLens(all, r), e) + GroupLens(all, r)[e] <= PrefixSum(GroupLens(all, r), LocalExperts)
  BY <1>1, <1>2, LocatedBelow
<1>5. ActiveRows(all, r) \in Nat
  BY <1>1, <1>4 DEF ActiveRows
<1>6. \A x \in OwnedBy(r) : /\ GroupStart(all, x) \in Nat
                            /\ GroupStart(all, x) + GroupLen(all, x) <= ActiveRows(all, r)
  BY <1>3, <1>4 DEF ActiveRows, GroupStart
<1> QED  BY <1>1, <1>2, <1>3, <1>5, <1>6

\* A segment lies among the active rows of the owner.
LEMMA SegmentIn ==
    ASSUME NEW all, Counted(all), NEW x \in Experts, NEW s \in Ranks
    PROVE  /\ SegmentStart(all, x, s) = GroupStart(all, x) + SourceStart(all, x, s)
           /\ SegmentStart(all, x, s) \in Nat /\ all[s][x] \in Nat /\ ActiveRows(all, Owner(x)) \in Nat
           /\ SegmentStart(all, x, s) + all[s][x] <= ActiveRows(all, Owner(x))
<1>1. SegmentStart(all, x, s) = GroupStart(all, x) + SourceStart(all, x, s)
  BY DEF SegmentStart, GroupStart, SourceStart
<1>2. Owner(x) \in Ranks /\ x \in OwnedBy(Owner(x))
  BY OwnerIs
<1>3. /\ GroupStart(all, x) \in Nat /\ ActiveRows(all, Owner(x)) \in Nat
      /\ GroupStart(all, x) + GroupLen(all, x) <= ActiveRows(all, Owner(x))
  BY <1>2, Groups
<1>4. /\ SourceStart(all, x, s) \in Nat /\ GroupLen(all, x) \in Nat /\ all[s][x] \in Nat
      /\ SourceStart(all, x, s) + all[s][x] <= GroupLen(all, x)
  BY Sources DEF Counted
<1> QED  BY <1>1, <1>3, <1>4

\* A row of a segment is a row of its expert's group, at the source's place.
LEMMA InGroup ==
    ASSUME NEW all, Counted(all), NEW x \in Experts, NEW s \in Ranks, NEW p \in Int, InSegment(all, p, x, s)
    PROVE  /\ GroupStart(all, x) <= p /\ p < GroupStart(all, x) + GroupLen(all, x)
           /\ SourceStart(all, x, s) <= p - GroupStart(all, x)
           /\ p - GroupStart(all, x) < SourceStart(all, x, s) + all[s][x]
<1>1. SegmentStart(all, x, s) = GroupStart(all, x) + SourceStart(all, x, s) /\ all[s][x] \in Nat
  BY SegmentIn
<1>2. Owner(x) \in Ranks /\ x \in OwnedBy(Owner(x))
  BY OwnerIs
<1>3. GroupStart(all, x) \in Nat
  BY <1>2, Groups
<1>4. /\ SourceStart(all, x, s) \in Nat /\ GroupLen(all, x) \in Nat
      /\ SourceStart(all, x, s) + all[s][x] <= GroupLen(all, x)
  BY Sources
<1> QED  BY <1>1, <1>3, <1>4 DEF InSegment

\* Every active row lies in a segment ...
LEMMA SegmentOf ==
    ASSUME NEW all, Counted(all), NEW r \in Ranks, NEW p \in 0..(ActiveRows(all, r) - 1)
    PROVE  \E x \in OwnedBy(r), s \in Ranks : InSegment(all, p, x, s)
<1>1. p \in Nat /\ p < ActiveRows(all, r) /\ ActiveRows(all, r) = PrefixSum(GroupLens(all, r), LocalExperts)
  BY Groups DEF ActiveRows
<1>2. PICK e \in 0..(LocalExperts - 1) : /\ PrefixSum(GroupLens(all, r), e) <= p
                                         /\ p < PrefixSum(GroupLens(all, r), e) + GroupLens(all, r)[e]
  BY <1>1, Groups, Located
<1> DEFINE x == r * LocalExperts + e
<1>3. x \in Experts /\ Owner(x) = r /\ x % LocalExperts = e /\ x \in OwnedBy(r)
  <2>1. e \in Locals
    BY DEF Locals
  <2> QED  BY <2>1, ExpertIs DEF OwnedBy
<1> HIDE DEF x
<1>4. /\ GroupStart(all, x) <= p /\ p < GroupStart(all, x) + GroupLen(all, x)
      /\ GroupStart(all, x) \in Nat
  BY <1>2, <1>3, Groups DEF GroupStart
<1> DEFINE q == p - GroupStart(all, x)
<1>5. q \in Nat /\ q < PrefixSum(RowsFor(all, x), EpSize)
  BY <1>1, <1>3, <1>4, Sources DEF GroupLen
<1>6. PICK s \in 0..(EpSize - 1) : /\ PrefixSum(RowsFor(all, x), s) <= q
                                   /\ q < PrefixSum(RowsFor(all, x), s) + RowsFor(all, x)[s]
  <2> HIDE DEF q
  <2> QED  BY <1>3, <1>5, Sources, Located
<1>7. s \in Ranks
  BY DEF Ranks
<1>8. RowsFor(all, x)[s] = all[s][x] /\ SourceStart(all, x, s) \in Nat /\ all[s][x] \in Nat
  BY <1>3, <1>7, Sources DEF Counted
<1>9. InSegment(all, p, x, s)
  <2>1. SegmentStart(all, x, s) = GroupStart(all, x) + SourceStart(all, x, s)
    BY <1>3, <1>7, SegmentIn
  <2> QED  BY <1>1, <1>4, <1>6, <1>8, <2>1 DEF InSegment, SourceStart
<1> QED  BY <1>3, <1>7, <1>9

\* ... and in one only.
LEMMA GroupOnce ==
    ASSUME NEW all, Counted(all), NEW r \in Ranks, NEW p \in Int,
           NEW x \in OwnedBy(r), GroupStart(all, x) <= p, p < GroupStart(all, x) + GroupLen(all, x),
           NEW y \in OwnedBy(r), GroupStart(all, y) <= p, p < GroupStart(all, y) + GroupLen(all, y)
    PROVE  x = y
<1> DEFINE d == x % LocalExperts
           e == y % LocalExperts
<1>1. /\ x \in Experts /\ Owner(x) = r /\ y \in Experts /\ Owner(y) = r
  BY DEF OwnedBy
<1>2. d \in 0..(LocalExperts - 1) /\ e \in 0..(LocalExperts - 1)
      /\ GroupLens(all, r)[d] = GroupLen(all, x) /\ GroupLens(all, r)[e] = GroupLen(all, y)
  BY Groups
<1>3. x = r * LocalExperts + d /\ y = r * LocalExperts + e
  BY <1>1, OwnerIs
<1>4. GroupStart(all, x) = PrefixSum(GroupLens(all, r), d) /\ GroupStart(all, y) = PrefixSum(GroupLens(all, r), e)
  BY <1>1 DEF GroupStart
<1> HIDE DEF d, e
<1>5. /\ PrefixSum(GroupLens(all, r), d) <= p /\ p < PrefixSum(GroupLens(all, r), d) + GroupLens(all, r)[d]
      /\ PrefixSum(GroupLens(all, r), e) <= p /\ p < PrefixSum(GroupLens(all, r), e) + GroupLens(all, r)[e]
  BY <1>2, <1>4
<1>6. LocalExperts \in Nat /\ \A k \in 0..(LocalExperts - 1) : GroupLens(all, r)[k] \in Nat
  BY Groups
<1>7. d = e
  BY <1>2, <1>5, <1>6, LocatedOnce
<1> QED  BY <1>3, <1>7

\* A received row lies in one segment only.
LEMMA SegmentOnce ==
    ASSUME NEW all, Counted(all), NEW r \in Ranks, NEW p \in Int,
           NEW x \in OwnedBy(r), NEW s \in Ranks, InSegment(all, p, x, s),
           NEW y \in OwnedBy(r), NEW t \in Ranks, InSegment(all, p, y, t)
    PROVE  x = y /\ s = t
<1>1. x \in Experts /\ y \in Experts
  BY DEF OwnedBy
<1>2. x = y
  BY <1>1, InGroup, GroupOnce
<1>3. SourceStart(all, x, s) <= p - GroupStart(all, x) /\ p - GroupStart(all, x) < SourceStart(all, x, s) + all[s][x]
  BY <1>1, InGroup
<1>4. SourceStart(all, x, t) <= p - GroupStart(all, x) /\ p - GroupStart(all, x) < SourceStart(all, x, t) + all[t][x]
  BY <1>1, <1>2, InGroup
<1>5. p - GroupStart(all, x) \in Int
  <2>1. GroupStart(all, x) \in Nat
    BY Groups
  <2> QED  BY <2>1
<1>6. s \in 0..(EpSize - 1) /\ t \in 0..(EpSize - 1)
  BY DEF Ranks
<1> DEFINE q == p - GroupStart(all, x)
<1>7. /\ PrefixSum(RowsFor(all, x), s) <= q /\ q < PrefixSum(RowsFor(all, x), s) + RowsFor(all, x)[s]
      /\ PrefixSum(RowsFor(all, x), t) <= q /\ q < PrefixSum(RowsFor(all, x), t) + RowsFor(all, x)[t]
      /\ q \in Int
  BY <1>1, <1>3, <1>4, <1>5, <1>6, Sources DEF SourceStart
<1> HIDE DEF q
<1>8. s = t
  BY <1>1, <1>6, <1>7, Sources, LocatedOnce
<1> QED  BY <1>2, <1>8

\* tokens_per_expert assigns a received row to the expert of its segment.
LEMMA ExpertOfRowIs ==
    ASSUME NEW all, Counted(all), NEW r \in Ranks, NEW p \in Int,
           NEW x \in OwnedBy(r), NEW s \in Ranks, InSegment(all, p, x, s)
    PROVE  ExpertOfRow(all, r, p) = x
<1>1. \A y \in OwnedBy(r) : y \in Experts /\ SegmentStart(all, y, 0) = GroupStart(all, y)
  <2> SUFFICES ASSUME NEW y \in OwnedBy(r) PROVE y \in Experts /\ SegmentStart(all, y, 0) = GroupStart(all, y)
    OBVIOUS
  <2>1. PrefixSum(RowsFor(all, y), 0) = 0
    BY SumStep
  <2>2. GroupStart(all, y) \in Nat /\ y \in Experts
    BY Groups
  <2> QED  BY <2>1, <2>2 DEF SegmentStart, GroupStart
<1>2. GroupStart(all, x) <= p /\ p < GroupStart(all, x) + GroupLen(all, x)
  BY <1>1, InGroup
<1>3. \A y \in OwnedBy(r) : GroupStart(all, y) <= p /\ p < GroupStart(all, y) + GroupLen(all, y) => y = x
  BY <1>2, GroupOnce
<1>4. ExpertOfRow(all, r, p) = CHOOSE y \in OwnedBy(r) : /\ SegmentStart(all, y, 0) <= p
                                                        /\ p < SegmentStart(all, y, 0) + GroupLen(all, y)
  BY DEF ExpertOfRow
<1> HIDE DEF GroupStart, GroupLen
<1> QED  BY <1>1, <1>2, <1>3, <1>4

-----------------------------------------------------------------------------
(* Where the rows go.  W is a routing of every rank.                       *)

Routing == [Ranks -> Routings]
Table(W) == [s \in Ranks |-> CountsOf(W[s])]
SlotAt(W, s, row) == ExpertOrder(W[s])[row]
ExpertAt(W, s, row) == W[s][SlotAt(W, s, row)]

\* The counts of a routing are counts.
LEMMA TableCounts ==
    ASSUME NEW W \in Routing
    PROVE  /\ Counted(Table(W))
           /\ \A s \in Ranks : W[s] \in Routings /\ Table(W)[s] = CountsOf(W[s])
<1>1. \A s \in Ranks : W[s] \in Routings /\ Table(W)[s] = CountsOf(W[s])
  BY DEF Routing, Table
<1> QED  BY <1>1, StartIs DEF Counted

\* A sorted row of s stands among those of its expert.
LEMMA RowOfExpert ==
    ASSUME NEW W \in Routing, NEW s \in Ranks, NEW row \in Rows
    PROVE  LET x == ExpertAt(W, s, row)
           IN  /\ SlotAt(W, s, row) \in Rows
               /\ x \in Experts /\ StartOf(Table(W)[s], x) \in Nat /\ Table(W)[s][x] \in Nat
               /\ StartOf(Table(W)[s], x) <= row /\ row < StartOf(Table(W)[s], x) + Table(W)[s][x]
               /\ \A y \in Experts : /\ StartOf(Table(W)[s], y) <= row
                                     /\ row < StartOf(Table(W)[s], y) + Table(W)[s][y]
                                     => y = x
<1> DEFINE c == Table(W)[s]
           x == ExpertAt(W, s, row)
<1>1. W[s] \in Routings /\ c = CountsOf(W[s])
  BY TableCounts
<1>2. SlotAt(W, s, row) \in Rows
  BY <1>1, OrderIs DEF SlotAt
<1>3. x \in Experts
  BY <1>1, <1>2 DEF ExpertAt, Routings
<1>4. StartOf(c, x) \in Nat /\ c[x] \in Nat
  BY <1>1, <1>3, StartIs, Sizes
<1>5. /\ StartOf(c, x) <= row /\ row < StartOf(c, x) + c[x]
      /\ \A y \in Experts : StartOf(c, y) <= row /\ row < StartOf(c, y) + c[y] => y = x
  BY <1>1, OrderSorts DEF ExpertAt, SlotAt
<1> QED  BY <1>2, <1>3, <1>4, <1>5

\* The way back of a received row: to its source, at the place of its segment.
LEMMA BackIs ==
    ASSUME NEW W \in Routing, NEW r \in Ranks, NEW p \in 0..(ActiveRows(Table(W), r) - 1),
           NEW x \in OwnedBy(r), NEW s \in Ranks, InSegment(Table(W), p, x, s)
    PROVE  CombineTarget(Table(W), r)[p] =
             [rank |-> s, row |-> StartOf(Table(W)[s], x) + p - SegmentStart(Table(W), x, s)]
<1> DEFINE all == Table(W)
           Fits(g) == InSegment(all, p, g[1], g[2])
           seg == CHOOSE g \in OwnedBy(r) \X Ranks : Fits(g)
<1>1. <<x, s>> \in OwnedBy(r) \X Ranks /\ Fits(<<x, s>>)
  OBVIOUS
<1>2. ASSUME NEW g \in OwnedBy(r) \X Ranks, Fits(g) PROVE g = <<x, s>>
  <2>1. g[1] \in OwnedBy(r) /\ g[2] \in Ranks /\ g = <<g[1], g[2]>> /\ InSegment(all, p, g[1], g[2])
    BY <1>2
  <2>2. Counted(all) /\ p \in Int
    BY TableCounts
  <2>3. g[1] = x /\ g[2] = s
    BY <2>1, <2>2, SegmentOnce
  <2> QED  BY <2>1, <2>3
<1> HIDE DEF Fits, all
<1>3. seg = <<x, s>>
  BY <1>1, <1>2
<1>4. CombineTarget(all, r)[p] =
        [rank |-> seg[2], row |-> StartOf(all[seg[2]], seg[1]) + p - SegmentStart(all, seg[1], seg[2])]
  BY DEF CombineTarget, Fits, InSegment, all
<1> HIDE DEF seg
<1>5. seg[1] = x /\ seg[2] = s
  BY <1>3
<1> QED  BY <1>4, <1>5 DEF all

\* The way there of a sorted row, and that the way back undoes it.
LEMMA ThereAndBack ==
    ASSUME NEW W \in Routing, NEW s \in Ranks, NEW row \in Rows
    PROVE  LET x == ExpertAt(W, s, row)
               t == DispatchTarget(Table(W), s)[row]
           IN  /\ t = [rank |-> t.rank, row |-> t.row]
               /\ t.rank = Owner(x) /\ t.rank \in Ranks
               /\ t.row \in 0..(ActiveRows(Table(W), t.rank) - 1)
               /\ CombineTarget(Table(W), t.rank)[t.row] = [rank |-> s, row |-> row]
               /\ ExpertOfRow(Table(W), t.rank, t.row) = x
<1> DEFINE all == Table(W)
           x == ExpertAt(W, s, row)
           t == DispatchTarget(all, s)[row]
           Fits(y) == StartOf(all[s], y) <= row /\ row < StartOf(all[s], y) + all[s][y]
           found == CHOOSE y \in Experts : Fits(y)
           p == SegmentStart(all, x, s) + row - StartOf(all[s], x)
<1>1. /\ x \in Experts /\ StartOf(all[s], x) \in Nat /\ all[s][x] \in Nat
      /\ Fits(x) /\ \A y \in Experts : Fits(y) => y = x
  BY RowOfExpert
<1> HIDE DEF Fits, x, all
<1>2. found = x
  BY <1>1
<1>3. t = [rank |-> Owner(found), row |-> SegmentStart(all, found, s) + row - StartOf(all[s], found)]
  BY DEF DispatchTarget, Fits
<1> HIDE DEF found, t
<1>4. t = [rank |-> Owner(x), row |-> p]
  BY <1>2, <1>3
<1>5. Counted(all)
  BY TableCounts DEF all
<1>6. /\ SegmentStart(all, x, s) \in Nat /\ ActiveRows(all, Owner(x)) \in Nat
      /\ SegmentStart(all, x, s) + all[s][x] <= ActiveRows(all, Owner(x))
  BY <1>1, <1>5, SegmentIn
<1>7. row \in Int
  BY Sizes
<1>8. p \in 0..(ActiveRows(all, Owner(x)) - 1) /\ InSegment(all, p, x, s)
  BY <1>1, <1>6, <1>7 DEF Fits, InSegment
<1>9. Owner(x) \in Ranks /\ x \in OwnedBy(Owner(x))
  BY <1>1, OwnerIs
<1>10. StartOf(all[s], x) + p - SegmentStart(all, x, s) = row
  BY <1>1, <1>6, <1>7
<1> HIDE DEF p
<1>11. CombineTarget(all, Owner(x))[p] = [rank |-> s, row |-> row]
  <2>1. CombineTarget(all, Owner(x))[p] =
          [rank |-> s, row |-> StartOf(all[s], x) + p - SegmentStart(all, x, s)]
    BY <1>8, <1>9, BackIs DEF all
  <2> QED  BY <1>10, <2>1
<1>12. ExpertOfRow(all, Owner(x), p) = x
  BY <1>5, <1>8, <1>9, ExpertOfRowIs
<1>13. t.rank = Owner(x) /\ t.row = p
  BY <1>4
<1> QED  BY <1>4, <1>8, <1>9, <1>11, <1>12, <1>13 DEF t, x, all

\* The other way round: the way there undoes the way back.
LEMMA BackAndThere ==
    ASSUME NEW W \in Routing, NEW r \in Ranks, NEW p \in 0..(ActiveRows(Table(W), r) - 1)
    PROVE  LET b == CombineTarget(Table(W), r)[p]
           IN  /\ b = [rank |-> b.rank, row |-> b.row]
               /\ b.rank \in Ranks /\ b.row \in Rows
               /\ DispatchTarget(Table(W), b.rank)[b.row] = [rank |-> r, row |-> p]
<1> DEFINE all == Table(W)
<1>1. Counted(all)
  BY TableCounts
<1>2. PICK x \in OwnedBy(r), s \in Ranks : InSegment(all, p, x, s)
  BY <1>1, SegmentOf
<1>3. x \in Experts /\ Owner(x) = r
  BY DEF OwnedBy
<1> DEFINE c == all[s]
           start == StartOf(c, x)
           seg == SegmentStart(all, x, s)
           row == start + p - seg
           b == CombineTarget(all, r)[p]
<1>4. W[s] \in Routings /\ c = CountsOf(W[s])
  BY TableCounts
<1>5. b = [rank |-> s, row |-> row]
  BY <1>2, BackIs
<1>6. seg \in Nat /\ c[x] \in Nat /\ seg <= p /\ p < seg + c[x]
  BY <1>1, <1>2, <1>3, SegmentIn DEF InSegment
<1>7. start \in Nat /\ start + c[x] <= NumRows
  <2>1. NumExperts \in Nat /\ x \in 0..(NumExperts - 1) /\ \A y \in 0..(NumExperts - 1) : c[y] \in Nat
    BY <1>3, <1>4, StartIs, Sizes
  <2>2. start \in Nat /\ start + c[x] <= PrefixSum(c, NumExperts)
    <3> HIDE DEF c
    <3> QED  BY <2>1, LocatedBelow DEF StartOf
  <2>3. PrefixSum(c, NumExperts) = Cardinality(Below(W[s], NumExperts))
    BY <1>4, <2>1, StartIs DEF StartOf
  <2>4. Below(W[s], NumExperts) = Rows
    BY <1>4, Sizes DEF Below, Routings
  <2> QED  BY <2>2, <2>3, <2>4, Sizes
<1> HIDE DEF c, start, seg
<1>8. row \in Rows /\ start <= row /\ row < start + c[x] /\ seg + row - start = p
  BY <1>6, <1>7, Sizes
<1> HIDE DEF row
<1>9. ExpertAt(W, s, row) = x
  BY <1>3, <1>8, RowOfExpert DEF start, c
<1> DEFINE t == DispatchTarget(all, s)[row]
<1>10. t = [rank |-> t.rank, row |-> t.row] /\ t.rank = r
  BY <1>3, <1>8, <1>9, ThereAndBack
<1>11. t.row = p
  <2> DEFINE Fits(y) == StartOf(c, y) <= row /\ row < StartOf(c, y) + c[y]
             found == CHOOSE y \in Experts : Fits(y)
  <2>1. Fits(x) /\ \A y \in Experts : Fits(y) => y = x
    BY <1>8, <1>9, RowOfExpert DEF start, c
  <2> HIDE DEF Fits
  <2>2. found = x
    BY <1>3, <2>1
  <2>3. t = [rank |-> Owner(found), row |-> SegmentStart(all, found, s) + row - StartOf(c, found)]
    BY <1>8 DEF DispatchTarget, Fits, c
  <2> HIDE DEF found
  <2>4. t.row = SegmentStart(all, x, s) + row - StartOf(c, x)
    BY <2>2, <2>3
  <2> QED  BY <1>8, <2>4 DEF seg, start
<1>12. b.rank = s /\ b.row = row
  BY <1>5
<1> QED  BY <1>5, <1>8, <1>10, <1>11, <1>12

-----------------------------------------------------------------------------
(* The buffers are large enough.                                           *)

\* The first n numbers.
LEMMA UpTo ==
    ASSUME NEW n \in Nat
    PROVE  IsFiniteSet(0..(n - 1)) /\ Cardinality(0..(n - 1)) = n
<1>1. 0 \in Int /\ n - 1 \in Int
  OBVIOUS
<1>2. IsFiniteSet(0..(n - 1)) /\ Cardinality(0..(n - 1)) = IF 0 > n - 1 THEN 0 ELSE (n - 1) - 0 + 1
  BY <1>1, FS_Interval
<1> QED  BY <1>2

\* The smaller of two.
LEMMA MinOfTwo ==
    ASSUME NEW a \in Int, NEW b \in Int
    PROVE  Min({a, b}) = IF a <= b THEN a ELSE b
BY DEF Min

\* A product grows with its factor.
LEMMA ProductGrows ==
    ASSUME NEW a \in Nat, NEW b \in Nat, NEW d \in Nat, a <= b
    PROVE  d * a <= d * b /\ d * a \in Nat
<1>1. d * b = d * a + d * (b - a)
  OBVIOUS
<1>2. d * (b - a) >= 0
  OBVIOUS
<1>3. d * a \in Nat /\ d * b \in Int /\ d * (b - a) \in Int
  OBVIOUS
<1> QED  BY <1>1, <1>2, <1>3

\* The two cases of the capacity, and that a shard fits.
LEMMA CapacityIs ==
    /\ Capacity \in Nat /\ NumRows <= Capacity
    /\ TopK <= LocalExperts => Capacity = EpSize * NumRows
    /\ TopK > LocalExperts => Capacity = EpSize * (Tokens * LocalExperts)
<1> DEFINE E == EpSize  L == LocalExperts  T == Tokens  K == TopK
<1>1. E \in Nat /\ E >= 1 /\ L \in Nat /\ L >= 1 /\ T \in Nat /\ T >= 1 /\ K \in Nat /\ K >= 1
      /\ K <= E * L /\ E * L \in Nat
  BY Sizes DEF NumExperts
<1>2. Capacity = E * T * (IF K <= L THEN K ELSE L)
  BY <1>1, MinOfTwo DEF Capacity
<1> HIDE DEF E, L, T, K
<1>3. T * K \in Nat /\ T * L \in Nat
  BY <1>1
<1>4. E * T * K = E * (T * K) /\ E * T * L = E * (T * L)
  BY <1>1
<1>5. E * (T * K) >= T * K /\ E * (T * K) \in Nat
  <2> DEFINE m == T * K
  <2> HIDE DEF m
  <2>1. m * 1 <= m * E /\ m * 1 = m /\ m * E = E * m /\ m * E \in Nat
    BY <1>1, <1>3, ProductGrows DEF m
  <2> QED  BY <1>3, <2>1 DEF m
<1>6. E * (T * L) = T * (E * L)
  BY <1>1
<1>7. T * K <= T * (E * L) /\ T * (E * L) \in Nat
  BY <1>1, ProductGrows
<1>8. NumRows = T * K
  BY DEF NumRows, T, K
<1> QED  BY <1>1, <1>2, <1>3, <1>4, <1>5, <1>6, <1>7, <1>8 DEF E, L, T, K

\* A token sends an expert one row at most.
LEMMA OneRowOfToken ==
    ASSUME NEW w \in Routings, NEW m \in Rows, NEW n \in Rows, TokenOf(m) = TokenOf(n), w[m] = w[n]
    PROVE  m = n
BY DEF Routings

\* The token of a slot is one of the shard.
LEMMA TokenIs ==
    ASSUME NEW n \in Rows
    PROVE  TokenOf(n) \in 0..(Tokens - 1)
<1> DEFINE K == TopK
           q == n \div K
<1>1. K \in Nat /\ K > 0 /\ Tokens \in Nat /\ n \in Nat /\ n < Tokens * K
  BY Sizes DEF NumRows
<1>2. q \in Int /\ n % K \in 0..(K - 1) /\ n = K * q + (n % K)
  BY <1>1, QuotientIs
<1> DEFINE m == n % K
<1> HIDE DEF q, m, K
<1>3. K * q \in Int /\ K * Tokens \in Int /\ Tokens * K = K * Tokens /\ K * 0 = 0
  BY <1>1, <1>2
<1>4. q >= 0
  <2>1. q < 0 => K * q + K <= K * 0
    BY <1>1, <1>2, MultipleGrows
  <2> QED  BY <1>1, <1>2, <1>3, <2>1 DEF m
<1>5. q < Tokens
  <2>1. Tokens < q => K * Tokens + K <= K * q
    BY <1>1, <1>2, MultipleGrows
  <2>2. Tokens = q => K * Tokens = K * q
    OBVIOUS
  <2> QED  BY <1>1, <1>2, <1>3, <2>1, <2>2 DEF m
<1> QED  BY <1>1, <1>2, <1>4, <1>5 DEF TokenOf, q, K

\* Every row there is, and every row sent, has a place in a receive buffer.
LEMMA Fits ==
    ASSUME NEW W \in Routing, NEW r \in Ranks
    PROVE  /\ \A row \in Rows : row \in 0..(Capacity - 1)
           /\ \A p \in 0..(ActiveRows(Table(W), r) - 1) : p \in 0..(Capacity - 1)
<1> DEFINE A == ActiveRows(Table(W), r)
           D == 0..(A - 1)
           b(p) == CombineTarget(Table(W), r)[p]
           slot(p) == SlotAt(W, b(p).rank, b(p).row)
<1>1. \A row \in Rows : row \in 0..(Capacity - 1)
  BY CapacityIs, Sizes
<1>2. A \in Nat
  BY TableCounts, Groups
<1>3. IsFiniteSet(D) /\ Cardinality(D) = A
  BY <1>2, FS_Interval
<1>4. \A p \in D : /\ b(p) = [rank |-> b(p).rank, row |-> b(p).row]
                   /\ b(p).rank \in Ranks /\ b(p).row \in Rows
                   /\ DispatchTarget(Table(W), b(p).rank)[b(p).row] = [rank |-> r, row |-> p]
  BY BackAndThere
<1> HIDE DEF b
<1>5. \A p, q \in D : b(p).rank = b(q).rank /\ b(p).row = b(q).row => p = q
  <2> SUFFICES ASSUME NEW p \in D, NEW q \in D, b(p).rank = b(q).rank, b(p).row = b(q).row PROVE p = q
    OBVIOUS
  <2>1. [rank |-> r, row |-> p] = [rank |-> r, row |-> q]
    BY <1>4
  <2> QED  BY <2>1
<1>6. IsFiniteSet(Ranks) /\ Cardinality(Ranks) = EpSize
  <2>1. EpSize \in Nat /\ Ranks = 0..(EpSize - 1)
    BY Sizes DEF Ranks
  <2> QED  BY <2>1, UpTo
<1>7. CASE TopK <= LocalExperts
  <2> DEFINE f == [p \in D |-> <<b(p).rank, b(p).row>>]
  <2>1. f \in Injection(D, Ranks \X Rows)
    BY <1>4, <1>5 DEF Injection, IsInjective
  <2>2. IsFiniteSet(Ranks \X Rows) /\ Cardinality(Ranks \X Rows) = EpSize * NumRows
    BY <1>6, Sizes, FS_Product
  <2>3. A <= EpSize * NumRows
    BY <1>3, <2>1, <2>2, FS_Injection
  <2>4. A <= Capacity
    BY <1>7, <2>3, CapacityIs
  <2> QED  BY <1>1, <1>2, <2>4, CapacityIs
<1>8. CASE TopK > LocalExperts
  <2> DEFINE Tok == 0..(Tokens - 1)
             x(p) == ExpertAt(W, b(p).rank, b(p).row)
             f == [p \in D |-> <<b(p).rank, <<TokenOf(slot(p)), x(p) % LocalExperts>>>>]
  <2>1. \A p \in D : /\ slot(p) \in Rows /\ x(p) \in Experts /\ W[b(p).rank] \in Routings
                     /\ x(p) = W[b(p).rank][slot(p)]
    BY <1>4, RowOfExpert, TableCounts DEF ExpertAt
  <2>2. \A p \in D : x(p) = r * LocalExperts + (x(p) % LocalExperts) /\ x(p) % LocalExperts \in Locals
    <3> SUFFICES ASSUME NEW p \in D
                 PROVE  x(p) = r * LocalExperts + (x(p) % LocalExperts) /\ x(p) % LocalExperts \in Locals
      OBVIOUS
    <3>1. DispatchTarget(Table(W), b(p).rank)[b(p).row].rank = Owner(x(p))
      <4>1. ASSUME NEW s \in Ranks, NEW row \in Rows
            PROVE  DispatchTarget(Table(W), s)[row].rank = Owner(ExpertAt(W, s, row))
        BY ThereAndBack
      <4>2. b(p).rank \in Ranks /\ b(p).row \in Rows
        BY <1>4
      <4> QED  BY <4>1, <4>2
    <3>2. DispatchTarget(Table(W), b(p).rank)[b(p).row].rank = r
      <4>1. DispatchTarget(Table(W), b(p).rank)[b(p).row] = [rank |-> r, row |-> p]
        BY <1>4
      <4> QED  BY <4>1
    <3>3. x(p) \in Experts
      BY <2>1
    <3> HIDE DEF x
    <3>4. Owner(x(p)) = r
      BY <3>1, <3>2
    <3> QED  BY <3>3, <3>4, OwnerIs
  <2> HIDE DEF slot, x
  <2>3. ASSUME NEW p \in D, NEW q \in D, b(p).rank = b(q).rank,
               TokenOf(slot(p)) = TokenOf(slot(q)), x(p) % LocalExperts = x(q) % LocalExperts
        PROVE  p = q
    <3>1. x(p) = x(q)
      BY <2>2, <2>3
    <3>2. slot(p) = slot(q)
      BY <2>1, <2>3, <3>1, OneRowOfToken
    <3>3. b(p).row = b(q).row
      <4>1. \A i \in D : Place(W[b(i).rank], slot(i)) = b(i).row
        BY <1>4, <2>1, OrderIs DEF slot, SlotAt
      <4> QED  BY <2>3, <3>2, <4>1
    <3> QED  BY <1>5, <2>3, <3>3
  <2>4. f \in Injection(D, Ranks \X (Tok \X Locals))
    <3>1. \A p \in D : f[p] \in Ranks \X (Tok \X Locals)
      BY <1>4, <2>1, <2>2, TokenIs
    <3>2. ASSUME NEW p \in D, NEW q \in D, f[p] = f[q] PROVE p = q
      <4>1. /\ b(p).rank = b(q).rank /\ TokenOf(slot(p)) = TokenOf(slot(q))
            /\ x(p) % LocalExperts = x(q) % LocalExperts
        BY <3>2
      <4> QED  BY <2>3, <4>1
    <3> QED  BY <3>1, <3>2 DEF Injection, IsInjective
  <2>5. IsFiniteSet(Tok) /\ Cardinality(Tok) = Tokens /\ IsFiniteSet(Locals) /\ Cardinality(Locals) = LocalExperts
    <3>1. Tokens \in Nat /\ LocalExperts \in Nat /\ Locals = 0..(LocalExperts - 1)
      BY Sizes DEF Locals
    <3> QED  BY <3>1, UpTo
  <2>6. IsFiniteSet(Tok \X Locals) /\ Cardinality(Tok \X Locals) = Tokens * LocalExperts
    BY <2>5, FS_Product
  <2>7. IsFiniteSet(Ranks \X (Tok \X Locals))
        /\ Cardinality(Ranks \X (Tok \X Locals)) = EpSize * (Tokens * LocalExperts)
    BY <1>6, <2>6, FS_Product
  <2> HIDE DEF f
  <2>8. A <= EpSize * (Tokens * LocalExperts)
    BY <1>3, <2>4, <2>7, FS_Injection
  <2>9. A <= Capacity
    BY <1>8, <2>8, CapacityIs
  <2> QED  BY <1>1, <1>2, <2>9, CapacityIs
<1> QED  BY <1>7, <1>8, Sizes

-----------------------------------------------------------------------------
(* Sequence parallelism: every rank puts its tokens where they are read.   *)

\* Division rounded up.
LEMMA CeilIs ==
    ASSUME NEW a \in Nat, NEW b \in Nat, b > 0
    PROVE  CeilDiv(a, b) \in Int /\ a <= b * CeilDiv(a, b) /\ b * CeilDiv(a, b) < a + b
<1> DEFINE n == a + b - 1
           q == n \div b
<1>1. n \in Int /\ q = CeilDiv(a, b)
  BY DEF CeilDiv
<1>2. q \in Int /\ n % b \in 0..(b - 1) /\ n = b * q + (n % b)
  BY <1>1, QuotientIs
<1>3. b * q \in Int
  BY <1>2
<1> DEFINE m == n % b
           bq == b * q
<1> HIDE DEF m, q, bq
<1>4. a <= bq /\ bq < a + b
  BY <1>2, <1>3 DEF m, bq, n
<1> QED  BY <1>1, <1>2, <1>4 DEF bq

\* The stride of a case of sequence parallelism: the shards cover the sequence,
\* and fill the padded one unless there is only one sequence.
LEMMA StrideIs ==
    ASSUME NEW c \in SpCases
    PROVE  LET S == SpStride(c.len, c.sp)
               P == PaddedSeq(c.len, c.sp)
           IN  /\ c.sp \in Nat /\ c.sp > 0 /\ c.batch \in Nat /\ c.batch > 0
               /\ S \in Nat /\ S > 0 /\ P \in Nat
               /\ S * c.sp \in Nat /\ P <= S * c.sp
               /\ c.batch = 1 \/ P = S * c.sp
<1> DEFINE sp == c.sp
           L == c.len
           S == SpStride(L, sp)
           P == PaddedSeq(L, sp)
<1>0. c \in [batch : 1..MaxBatch, len : 1..MaxSeq, sp : SpSizes] /\ (L % sp = 0 \/ c.batch = 1)
  BY Zenon DEF SpCases
<1>1. sp \in Nat /\ sp > 0 /\ c.batch \in Nat /\ c.batch > 0 /\ L \in Nat /\ L > 0
  <2>1. c.batch \in 1..MaxBatch /\ c.len \in 1..MaxSeq /\ c.sp \in SpSizes
    BY <1>0
  <2>2. /\ \A b \in 1..MaxBatch : b \in Nat /\ b > 0
        /\ \A l \in 1..MaxSeq : l \in Nat /\ l > 0
        /\ \A s \in SpSizes : s \in Nat /\ s > 0
    BY AllToAllAssumption
  <2> QED  BY <2>1, <2>2
<1>2. L % sp = 0 \/ c.batch = 1
  BY <1>0
<1> HIDE DEF sp, L
<1>3. P \in Nat /\ P > 0 /\ P >= L
  BY <1>1 DEF PaddedSeq
<1>4. S = CeilDiv(P, sp)
  BY DEF SpStride
<1> HIDE DEF P, S
<1>5. S \in Int /\ P <= sp * S /\ sp * S < P + sp
  BY <1>1, <1>3, <1>4, CeilIs
<1>6. sp * S = S * sp /\ S * sp \in Int
  BY <1>1, <1>5
<1>7. S > 0
  <2>1. ASSUME ~(S > 0) PROVE FALSE
    <3>1. sp * S <= sp * 0 /\ sp * 0 = 0
      <4>1. S < 0 => sp * S + sp <= sp * 0
        BY <1>1, <1>5, MultipleGrows
      <4>2. S = 0 => sp * S = sp * 0
        OBVIOUS
      <4>3. sp * 0 = 0 /\ sp * S \in Int
        BY <1>1, <1>5
      <4> QED  BY <1>1, <1>5, <2>1, <4>1, <4>2, <4>3
    <3>2. sp * S \in Int
      BY <1>5, <1>6
    <3> QED  BY <1>3, <1>5, <3>1, <3>2
  <2> QED  BY <2>1
<1>8. ASSUME L % sp = 0 PROVE P = S * sp
  <2> DEFINE q == L \div sp
  <2>1. q \in Int /\ L = sp * q + (L % sp)
    BY <1>1, QuotientIs
  <2> HIDE DEF q
  <2>2. sp * q \in Int
    BY <1>1, <2>1
  <2>3. L = sp * q
    BY <1>8, <2>1, <2>2
  <2>4. q > 0
    <3>1. q < 0 => sp * q + sp <= sp * 0
      BY <1>1, <2>1, MultipleGrows
    <3>2. q = 0 => sp * q = 0
      BY <1>1
    <3>3. sp * 0 = 0
      BY <1>1
    <3> QED  BY <1>1, <2>1, <2>2, <2>3, <3>1, <3>2, <3>3
  <2>5. L >= sp
    <3>1. sp * 0 + sp <= sp * q
      BY <1>1, <2>1, <2>4, MultipleGrows
    <3>2. sp * 0 = 0
      BY <1>1
    <3> QED  BY <1>1, <2>2, <2>3, <3>1, <3>2
  <2>6. P = L
    BY <1>1, <2>5 DEF P, PaddedSeq
  <2>7. sp * S \in Int
    BY <1>6
  <2>8. ~(q < S)
    <3>1. q < S => sp * q + sp <= sp * S
      BY <1>1, <1>5, <2>1, MultipleGrows
    <3> QED  BY <1>1, <1>5, <2>2, <2>3, <2>6, <2>7, <3>1
  <2>9. ~(S < q)
    <3>1. S < q => sp * S + sp <= sp * q
      BY <1>1, <1>5, <2>1, MultipleGrows
    <3> QED  BY <1>1, <1>5, <2>2, <2>3, <2>6, <2>7, <3>1
  <2>10. S = q
    BY <1>5, <2>1, <2>8, <2>9
  <2> QED  BY <1>6, <2>3, <2>6, <2>10
<1>9. S \in Nat /\ S * sp \in Nat /\ P <= S * sp
  BY <1>3, <1>5, <1>6, <1>7
<1> QED  BY <1>1, <1>2, <1>3, <1>7, <1>8, <1>9 DEF P, S, sp, L

\* What a rank holds of a sequence.
LEMMA ShardIs ==
    ASSUME NEW c \in SpCases, NEW r \in 0..(c.sp - 1)
    PROVE  LET S == SpStride(c.len, c.sp)
               P == PaddedSeq(c.len, c.sp)
               shard == ShardLen(c.len, c.sp, r)
           IN  /\ shard \in Nat /\ r * S \in Nat
               /\ \A i \in Nat : i < shard <=> i < S /\ r * S + i < P
               /\ P = S * c.sp => shard = S
<1> DEFINE sp == c.sp
           S == SpStride(c.len, sp)
           P == PaddedSeq(c.len, sp)
           left == P - r * S
           shard == ShardLen(c.len, sp, r)
<1>1. /\ sp \in Nat /\ sp > 0 /\ S \in Nat /\ S > 0 /\ P \in Nat /\ P <= S * sp /\ S * sp \in Nat
  BY StrideIs
<1>2. shard = IF left < 0 THEN 0 ELSE Min({left, S})
  BY DEF ShardLen
<1> HIDE DEF S, P, shard, sp
<1>3. r \in Nat /\ r < sp
  BY <1>1 DEF sp
<1>4. r * S = S * r /\ r * S \in Nat
  BY <1>1, <1>3
<1> DEFINE rS == r * S
<1>5. left = P - rS /\ rS \in Nat
  BY <1>4
<1> HIDE DEF left, rS
<1>6. left \in Int
  BY <1>1, <1>5
<1>7. shard = IF left < 0 THEN 0 ELSE IF left < S THEN left ELSE S
  <2>1. ASSUME ~(left < 0) PROVE Min({left, S}) = IF left < S THEN left ELSE S
    <3>1. left \in Nat
      BY <1>6, <2>1
    <3> QED  BY <1>1, <3>1, MinOfTwo
  <2> QED  BY <1>2, <2>1
<1>8. shard \in Nat /\ \A i \in Nat : i < shard <=> i < S /\ rS + i < P
  BY <1>1, <1>5, <1>6, <1>7
<1>9. ASSUME P = S * sp PROVE shard = S
  <2>1. S * r + S <= S * sp
    BY <1>1, <1>3, MultipleGrows
  <2>2. rS + S <= P
    BY <1>4, <1>9, <2>1 DEF rS
  <2> QED  BY <1>1, <1>5, <1>6, <1>7, <2>2
<1> QED  BY <1>4, <1>8, <1>9 DEF S, P, shard, rS, sp

\* The place that a rank computes for a token is where the output is read.
LEMMA PlaceIs ==
    ASSUME NEW c \in SpCases, NEW r \in 0..(c.sp - 1), NEW b \in 0..(c.batch - 1),
           NEW i \in 0..(ShardLen(c.len, c.sp, r) - 1)
    PROVE  LET S == SpStride(c.len, c.sp)
               P == PaddedSeq(c.len, c.sp)
               pos == r * S + i
           IN  /\ pos \in 0..(P - 1)
               /\ pos \div S = r
               /\ GlobalIndex(b * ShardLen(c.len, c.sp, r) + i, S, c.sp, r) = OutputPlace(b, pos, S, c.sp)
<1> DEFINE sp == c.sp
           S == SpStride(c.len, sp)
           P == PaddedSeq(c.len, sp)
           shard == ShardLen(c.len, sp, r)
           local == b * shard + i
<1>1. /\ sp \in Nat /\ sp > 0 /\ S \in Nat /\ S > 0 /\ P \in Nat /\ P <= S * sp /\ S * sp \in Nat
      /\ c.batch = 1 \/ P = S * sp
  BY StrideIs
<1>2. /\ shard \in Nat /\ r * S \in Nat
      /\ \A k \in Nat : k < shard <=> k < S /\ r * S + k < P
      /\ P = S * sp => shard = S
  BY ShardIs
<1>3. b \in Nat /\ (c.batch = 1 => b = 0) /\ i \in Nat /\ i < shard /\ r \in Nat
  BY <1>2, StrideIs
<1> HIDE DEF S, P, shard, sp
<1>4. i < S /\ r * S + i < P /\ i \in 0..(S - 1)
  BY <1>1, <1>2, <1>3
<1>5. local = S * b + i
  <2>1. CASE c.batch = 1
    <3>1. b = 0
      BY <1>3, <2>1
    <3>2. 0 * shard = 0 /\ S * 0 = 0
      BY <1>1, <1>2
    <3> QED  BY <1>3, <3>1, <3>2
  <2>2. CASE P = S * sp
    <3>1. b * shard = S * b
      BY <1>1, <1>2, <1>3, <2>2
    <3> QED  BY <3>1
  <2> QED  BY <1>1, <2>1, <2>2
<1> HIDE DEF local
<1>6. local \div S = b /\ local % S = i
  BY <1>1, <1>3, <1>4, <1>5, QuotientUnique
<1> DEFINE pos == r * S + i
<1>7. pos \div S = r
  <2>1. (S * r + i) \div S = r
    BY <1>1, <1>3, <1>4, QuotientUnique
  <2>2. S * r = r * S
    BY <1>1, <1>3
  <2> QED  BY <2>1, <2>2
<1>8. pos \in 0..(P - 1)
  BY <1>1, <1>2, <1>3, <1>4
<1>9. GlobalIndex(local, S, sp, r) = b * (S * sp) + i + r * S
  BY <1>6 DEF GlobalIndex
<1>10. OutputPlace(b, pos, S, sp) = b * S * sp + (r * S + i)
  BY DEF OutputPlace
<1>11. b * (S * sp) = b * S * sp
  BY <1>1, <1>3
<1> DEFINE big == b * (S * sp)
           rS == r * S
<1>12. big \in Int /\ rS \in Int
  BY <1>1, <1>2, <1>3
<1>13. GlobalIndex(local, S, sp, r) = big + i + rS /\ OutputPlace(b, pos, S, sp) = big + (rS + i)
  BY <1>9, <1>10, <1>11
<1> HIDE DEF big, rS, pos
<1>14. GlobalIndex(local, S, sp, r) = OutputPlace(b, pos, S, sp)
  BY <1>3, <1>12, <1>13
<1> QED  BY <1>7, <1>8, <1>14 DEF S, P, shard, sp, local, pos

\* Two tokens have two places.
LEMMA PlacesDiffer ==
    ASSUME NEW c \in SpCases, NEW b \in 0..(c.batch - 1), NEW d \in 0..(c.batch - 1),
           NEW p \in 0..(PaddedSeq(c.len, c.sp) - 1), NEW q \in 0..(PaddedSeq(c.len, c.sp) - 1),
           OutputPlace(b, p, SpStride(c.len, c.sp), c.sp) = OutputPlace(d, q, SpStride(c.len, c.sp), c.sp)
    PROVE  b = d /\ p = q
<1> DEFINE S == SpStride(c.len, c.sp)
           P == PaddedSeq(c.len, c.sp)
           row == S * c.sp
<1>1. /\ c.sp \in Nat /\ c.sp > 0 /\ S \in Nat /\ S > 0 /\ P \in Nat /\ P <= row /\ row \in Nat
      /\ c.batch \in Nat
  BY StrideIs
<1>2. b * S * c.sp + p = d * S * c.sp + q
  BY DEF OutputPlace
<1> HIDE DEF S, P
<1>3. b \in Int /\ d \in Int /\ p \in 0..(P - 1) /\ q \in 0..(P - 1)
  BY <1>1 DEF P
<1>4. b * S * c.sp = row * b /\ d * S * c.sp = row * d
  BY <1>1, <1>3
<1> HIDE DEF row
<1>5. row > 0 /\ p \in 0..(row - 1) /\ q \in 0..(row - 1)
  BY <1>1, <1>3
<1>6. (row * b + p) \div row = b /\ (row * b + p) % row = p
  BY <1>1, <1>3, <1>5, QuotientUnique
<1>7. (row * d + q) \div row = d /\ (row * d + q) % row = q
  BY <1>1, <1>3, <1>5, QuotientUnique
<1>8. row * b + p = row * d + q
  BY <1>2, <1>4
<1> QED  BY <1>6, <1>7, <1>8

\* Every row of the combined output is written once, with the token read there.
LEMMA PlacedOnce ==
    ASSUME NEW c \in SpCases
    PROVE  RowsPlacedOnce(c)
<1> DEFINE S == SpStride(c.len, c.sp)
           P == PaddedSeq(c.len, c.sp)
           shard(r) == ShardLen(c.len, c.sp, r)
           Write(b, r, i) == [batch |-> b, pos |-> r * S + i, row |-> GlobalIndex(b * shard(r) + i, S, c.sp, r)]
           Put(b, pos) == [batch |-> b, pos |-> pos, row |-> OutputPlace(b, pos, S, c.sp)]
           into == {<<r, w>> : r \in 0..(c.sp - 1), w \in UNION {SpWrites(c, q) : q \in 0..(c.sp - 1)}}
           writers(b, pos) == {g \in into : g[2] \in SpWrites(c, g[1]) /\ g[2].row = OutputPlace(b, pos, S, c.sp)}
<1>1. /\ c.sp \in Nat /\ c.sp > 0 /\ S \in Nat /\ S > 0 /\ P \in Nat /\ P <= S * c.sp
      /\ c.batch \in Nat /\ S * c.sp \in Nat
  BY StrideIs
<1>2. ASSUME NEW r \in 0..(c.sp - 1), NEW w \in SpWrites(c, r)
      PROVE  \E b \in 0..(c.batch - 1), pos \in 0..(P - 1) : pos \div S = r /\ w = Put(b, pos)
  <2>1. PICK t \in (0..(c.batch - 1)) \X (0..(shard(r) - 1)) : w = Write(t[1], r, t[2])
    BY DEF SpWrites
  <2>2. t[1] \in 0..(c.batch - 1) /\ t[2] \in 0..(shard(r) - 1)
    BY <2>1
  <2>3. /\ r * S + t[2] \in 0..(P - 1) /\ (r * S + t[2]) \div S = r
        /\ GlobalIndex(t[1] * shard(r) + t[2], S, c.sp, r) = OutputPlace(t[1], r * S + t[2], S, c.sp)
    BY <2>2, PlaceIs
  <2> QED  BY <2>1, <2>2, <2>3
<1>3. ASSUME NEW b \in 0..(c.batch - 1), NEW pos \in 0..(P - 1)
      PROVE  /\ pos \div S \in 0..(c.sp - 1)
             /\ Put(b, pos) \in SpWrites(c, pos \div S)
  <2> DEFINE r == pos \div S
             i == pos % S
  <2>1. pos \in Int /\ pos >= 0 /\ pos < P
    BY <1>1
  <2> HIDE DEF S, P
  <2>2. r \in Int /\ i \in 0..(S - 1) /\ pos = S * r + i
    <3>1. S \in Int /\ S > 0
      BY <1>1
    <3> QED  BY <2>1, <3>1, QuotientIs
  <2> HIDE DEF r, i
  <2>3. S * r \in Int
    BY <1>1, <2>2
  <2>4. r >= 0
    <3>1. r < 0 => S * r + S <= S * 0
      BY <1>1, <2>2, MultipleGrows
    <3>2. S * 0 = 0
      BY <1>1
    <3> QED  BY <1>1, <2>1, <2>2, <2>3, <3>1, <3>2
  <2>5. r < c.sp
    <3>1. c.sp < r => S * c.sp + S <= S * r
      BY <1>1, <2>2, MultipleGrows
    <3>2. c.sp = r => S * c.sp = S * r
      OBVIOUS
    <3>3. \A a, d \in Int : a < d \/ a = d \/ d < a
      OBVIOUS
    <3> QED  BY <1>1, <2>1, <2>2, <2>3, <3>1, <3>2
  <2>6. r \in 0..(c.sp - 1)
    BY <1>1, <2>2, <2>4, <2>5
  <2>7. S * r = r * S
    BY <1>1, <2>2
  <2>8. i \in 0..(shard(r) - 1)
    <3>1. shard(r) \in Nat /\ \A k \in Nat : k < shard(r) <=> k < S /\ r * S + k < P
      BY <2>6, ShardIs DEF S, P
    <3>2. i \in Nat /\ i < S /\ r * S + i < P
      BY <1>1, <2>1, <2>2, <2>7
    <3>3. i < shard(r)
      BY <3>1, <3>2
    <3> HIDE DEF shard
    <3> QED  BY <3>1, <3>2, <3>3
  <2>9. GlobalIndex(b * shard(r) + i, S, c.sp, r) = OutputPlace(b, r * S + i, S, c.sp)
    BY <2>6, <2>8, PlaceIs DEF S
  <2>10. Write(b, r, i) = Put(b, pos)
    BY <2>2, <2>7, <2>9
  <2>11. Write(b, r, i) \in SpWrites(c, r)
    <3>1. <<b, i>> \in (0..(c.batch - 1)) \X (0..(shard(r) - 1)) /\ <<b, i>>[1] = b /\ <<b, i>>[2] = i
      BY <2>8
    <3> QED  BY <3>1 DEF SpWrites, S
  <2> QED  BY <2>6, <2>10, <2>11 DEF r
<1> HIDE DEF Put, S, P
<1>4. ASSUME NEW b \in 0..(c.batch - 1), NEW pos \in 0..(P - 1)
      PROVE  writers(b, pos) = {<<pos \div S, Put(b, pos)>>}
  <2> DEFINE r == pos \div S
             w == Put(b, pos)
  <2>1. r \in 0..(c.sp - 1) /\ w \in SpWrites(c, r)
    BY <1>3
  <2>2. w.row = OutputPlace(b, pos, S, c.sp)
    BY DEF Put
  <2> HIDE DEF w, r
  <2>3. <<r, w>> \in writers(b, pos)
    <3>1. w \in UNION {SpWrites(c, q) : q \in 0..(c.sp - 1)}
      BY <2>1
    <3>2. <<r, w>> \in into /\ <<r, w>>[1] = r /\ <<r, w>>[2] = w
      BY <2>1, <3>1
    <3> HIDE DEF into
    <3> QED  BY <2>1, <2>2, <3>2
  <2>4. ASSUME NEW g \in writers(b, pos) PROVE g = <<r, w>>
    <3>1. PICK s \in 0..(c.sp - 1), v \in UNION {SpWrites(c, q) : q \in 0..(c.sp - 1)} : g = <<s, v>>
      OBVIOUS
    <3>2. v \in SpWrites(c, s) /\ v.row = OutputPlace(b, pos, S, c.sp)
      BY <2>4, <3>1
    <3>3. PICK d \in 0..(c.batch - 1), p \in 0..(P - 1) : p \div S = s /\ v = Put(d, p)
      BY <1>2, <3>2
    <3>4. OutputPlace(d, p, S, c.sp) = OutputPlace(b, pos, S, c.sp)
      BY <3>2, <3>3 DEF Put
    <3>5. d = b /\ p = pos
      BY <3>4, PlacesDiffer DEF S, P
    <3> QED  BY <3>1, <3>3, <3>5 DEF r, w
  <2> HIDE DEF writers
  <2>5. writers(b, pos) = {<<r, w>>}
    BY <2>3, <2>4
  <2> QED  BY <2>5 DEF r, w
<1>5. ASSUME NEW b \in 0..(c.batch - 1), NEW pos \in 0..(P - 1)
      PROVE  Cardinality(writers(b, pos)) = 1 /\ \A g \in writers(b, pos) : g[2].batch = b /\ g[2].pos = pos
  <2> DEFINE g0 == <<pos \div S, Put(b, pos)>>
  <2>1. writers(b, pos) = {g0}
    BY <1>4
  <2>2. g0[2].batch = b /\ g0[2].pos = pos
    BY DEF Put
  <2> HIDE DEF writers, g0
  <2>3. Cardinality({g0}) = 1
    BY FS_Singleton
  <2> QED  BY <2>1, <2>2, <2>3
<1> HIDE DEF Write, shard
<1> DEFINE Once(b, pos) == /\ Cardinality(writers(b, pos)) = 1
                           /\ \A g \in writers(b, pos) : g[2].batch = b /\ g[2].pos = pos
<1>6. RowsPlacedOnce(c) = \A b \in 0..(c.batch - 1), pos \in 0..(P - 1) : Once(b, pos)
  BY DEF RowsPlacedOnce, S, P
<1> HIDE DEF Once
<1>7. \A b \in 0..(c.batch - 1), pos \in 0..(P - 1) : Once(b, pos)
  BY <1>5 DEF Once
<1> QED  BY <1>6, <1>7

-----------------------------------------------------------------------------
(* The all-to-all dispatchers.                                             *)

\* The first n summands g are those of f from a on.
PartOf(g, n, f, a) ==
    /\ \A k \in 0..(a + n - 1) : f[k] \in Nat
    /\ \A e \in 0..(n - 1) : g[e] = f[a + e]

\* Sums of a part of the summands.
LEMMA SumOfPart ==
    ASSUME NEW f, NEW a \in Nat, NEW n \in Nat, NEW g, PartOf(g, n, f, a)
    PROVE  \A e \in 0..n : PrefixSum(f, a + e) = PrefixSum(f, a) + PrefixSum(g, e)
<1> DEFINE T == {e \in Nat : e <= n => PrefixSum(f, a + e) = PrefixSum(f, a) + PrefixSum(g, e)}
<1> USE DEF PartOf
<1>0. /\ \A k \in 0..(a + n) : PrefixSum(f, k) \in Nat
      /\ \A e \in 0..n : PrefixSum(g, e) \in Nat
  <2>1. \A e \in 0..(n - 1) : a + e \in 0..(a + n - 1) /\ g[e] \in Nat
    OBVIOUS
  <2> QED  BY <2>1, SumsGrow
<1>1. 0 \in T
  <2>1. a + 0 = a /\ PrefixSum(f, a) \in Nat /\ PrefixSum(g, 0) = 0
    BY <1>0, SumStep
  <2> QED  BY <2>1
<1>2. ASSUME NEW e \in Nat, e \in T PROVE e + 1 \in T
  <2> SUFFICES ASSUME e + 1 <= n PROVE PrefixSum(f, a + (e + 1)) = PrefixSum(f, a) + PrefixSum(g, e + 1)
    OBVIOUS
  <2>1. PrefixSum(f, a + e) = PrefixSum(f, a) + PrefixSum(g, e)
    BY <1>2
  <2>2. PrefixSum(f, (a + e) + 1) = PrefixSum(f, a + e) + f[a + e] /\ PrefixSum(g, e + 1) = PrefixSum(g, e) + g[e]
    BY SumStep
  <2>3. g[e] = f[a + e] /\ f[a + e] \in Nat /\ PrefixSum(f, a) \in Nat /\ PrefixSum(g, e) \in Nat
    BY <1>0
  <2>4. a + (e + 1) = (a + e) + 1
    OBVIOUS
  <2> QED  BY <2>1, <2>2, <2>3, <2>4
<1> HIDE DEF T
<1>3. Nat \subseteq T
  BY <1>1, <1>2, NatInductionSet
<1> QED  BY <1>3 DEF T

-----------------------------------------------------------------------------
(* The exchange in blocks.                                                 *)

\* The rows a rank has for another, by expert.
LEMMA Parts ==
    ASSUME NEW all, Counted(all), NEW s \in Ranks, NEW d \in Ranks
    PROVE  /\ LocalExperts \in Nat
           /\ \A e \in 0..(LocalExperts - 1) : CountsFor(all, s, d)[e] \in Nat
           /\ Split(all, s, d) \in Nat
           /\ \A x \in OwnedBy(d) :
                 /\ x % LocalExperts \in 0..(LocalExperts - 1)
                 /\ CountsFor(all, s, d)[x % LocalExperts] = all[s][x] /\ all[s][x] \in Nat
                 /\ PrefixSum(CountsFor(all, s, d), x % LocalExperts) \in Nat
                 /\ PrefixSum(CountsFor(all, s, d), x % LocalExperts) + all[s][x] <= Split(all, s, d)
<1> DEFINE f == CountsFor(all, s, d)
<1>1. LocalExperts \in Nat /\ Locals = 0..(LocalExperts - 1) /\ 0 \in Locals
  BY Sizes DEF Locals
<1>2. \A e \in Locals : f[e] = all[s][d * LocalExperts + e] /\ f[e] \in Nat
  <2> SUFFICES ASSUME NEW e \in Locals
               PROVE  f[e] = all[s][d * LocalExperts + e] /\ f[e] \in Nat
    OBVIOUS
  <2>1. d * LocalExperts + e \in Experts
    BY ExpertIs
  <2>2. f[e] = all[s][d * LocalExperts + e]
    BY DEF CountsFor
  <2> QED  BY <2>1, <2>2 DEF Counted
<1> HIDE DEF f
<1>3. \A e \in 0..(LocalExperts - 1) :
        PrefixSum(f, e) \in Nat /\ PrefixSum(f, LocalExperts) \in Nat /\ PrefixSum(f, e) + f[e] <= PrefixSum(f, LocalExperts)
  BY <1>1, <1>2, LocatedBelow
<1>4. Split(all, s, d) = PrefixSum(f, LocalExperts)
  BY DEF Split, f
<1>5. ASSUME NEW x \in OwnedBy(d)
      PROVE  x % LocalExperts \in Locals /\ f[x % LocalExperts] = all[s][x]
  <2> DEFINE e == x % LocalExperts
  <2>1. x \in Experts /\ Owner(x) = d
    BY DEF OwnedBy
  <2>2. e \in Locals /\ x = d * LocalExperts + e
    BY <2>1, OwnerIs
  <2> HIDE DEF e
  <2>3. f[e] = all[s][x]
    BY <1>2, <2>2
  <2> QED  BY <2>2, <2>3 DEF e
<1> QED  BY <1>1, <1>2, <1>3, <1>4, <1>5 DEF f

\* The blocks a rank receives, by source.
LEMMA Blocks ==
    ASSUME NEW all, Counted(all), NEW d \in Ranks
    PROVE  /\ EpSize \in Nat /\ ReceivedRows(all, d) \in Nat
           /\ \A s \in 0..(EpSize - 1) : OutputSplits(all, d)[s] = Split(all, s, d) /\ OutputSplits(all, d)[s] \in Nat
           /\ \A s \in Ranks : /\ BlockStart(all, s, d) \in Nat /\ Split(all, s, d) \in Nat
                               /\ BlockStart(all, s, d) + Split(all, s, d) <= ReceivedRows(all, d)
<1>1. EpSize \in Nat /\ Ranks = 0..(EpSize - 1) /\ 0 \in Ranks
  BY Sizes DEF Ranks
<1>2. \A s \in Ranks : OutputSplits(all, d)[s] = Split(all, s, d) /\ OutputSplits(all, d)[s] \in Nat
  BY Parts DEF OutputSplits
<1>3. \A s \in 0..(EpSize - 1) :
        /\ PrefixSum(OutputSplits(all, d), s) \in Nat /\ PrefixSum(OutputSplits(all, d), EpSize) \in Nat
        /\ PrefixSum(OutputSplits(all, d), s) + OutputSplits(all, d)[s] <= PrefixSum(OutputSplits(all, d), EpSize)
  BY <1>1, <1>2, LocatedBelow
<1> HIDE DEF Split
<1> QED  BY <1>1, <1>2, <1>3 DEF BlockStart, ReceivedRows

\* A received row lies in the block of one source.
LEMMA BlockOnce ==
    ASSUME NEW all, Counted(all), NEW d \in Ranks, NEW q \in Int,
           NEW s \in Ranks, BlockStart(all, s, d) <= q, q < BlockStart(all, s, d) + Split(all, s, d),
           NEW t \in Ranks, BlockStart(all, t, d) <= q, q < BlockStart(all, t, d) + Split(all, t, d)
    PROVE  s = t
<1>1. s \in 0..(EpSize - 1) /\ t \in 0..(EpSize - 1)
  BY DEF Ranks
<1> DEFINE f == OutputSplits(all, d)
<1>2. /\ EpSize \in Nat /\ \A k \in 0..(EpSize - 1) : f[k] \in Nat
      /\ f[s] = Split(all, s, d) /\ f[t] = Split(all, t, d)
  BY <1>1, Blocks
<1>3. BlockStart(all, s, d) = PrefixSum(f, s) /\ BlockStart(all, t, d) = PrefixSum(f, t)
  BY DEF BlockStart
<1> HIDE DEF f
<1> QED  BY <1>1, <1>2, <1>3, LocatedOnce

\* What lies there: the row that many into what the source has for the rank.
LEMMA ReceivedIs ==
    ASSUME NEW all, Counted(all), NEW d \in Ranks, NEW q \in Int,
           NEW s \in Ranks, BlockStart(all, s, d) <= q, q < BlockStart(all, s, d) + Split(all, s, d)
    PROVE  /\ q \in 0..(ReceivedRows(all, d) - 1)
           /\ Received(all, d)[q] = [rank |-> s, row |-> SentStart(all, s, d) + q - BlockStart(all, s, d)]
<1> DEFINE In(t) == BlockStart(all, t, d) <= q /\ q < BlockStart(all, t, d) + Split(all, t, d)
           found == CHOOSE t \in Ranks : In(t)
<1>1. q \in 0..(ReceivedRows(all, d) - 1)
  BY Blocks
<1>2. In(s) /\ \A t \in Ranks : In(t) => t = s
  BY BlockOnce
<1> HIDE DEF In
<1>3. found = s
  BY <1>2
<1>4. Received(all, d)[q] = [rank |-> found, row |-> SentStart(all, found, d) + q - BlockStart(all, found, d)]
  BY <1>1 DEF Received, In
<1> QED  BY <1>1, <1>3, <1>4

\* The rows a rank sends: those for the experts of a rank start where the first
\* of these experts does.
LEMMA SentStartIs ==
    ASSUME NEW all, Counted(all), NEW s \in Ranks
    PROVE  \A d \in Ranks :
              /\ SentStart(all, s, d) \in Nat
              /\ \A x \in OwnedBy(d) :
                    StartOf(all[s], x) = SentStart(all, s, d) + PrefixSum(CountsFor(all, s, d), x % LocalExperts)
<1> DEFINE L == LocalExperts
           E == EpSize
           f == all[s]
           g == InputSplits(all, s)
           part(d) == CountsFor(all, s, d)
<1>1. L \in Nat /\ L > 0 /\ E \in Nat /\ E > 0 /\ NumExperts \in Nat /\ NumExperts = E * L
  BY Sizes DEF NumExperts
<1>2. \A k \in 0..(NumExperts - 1) : f[k] \in Nat
  BY Sizes DEF Counted
<1>3. \A k \in 0..NumExperts : PrefixSum(f, k) \in Nat
  <2> HIDE DEF f
  <2> QED  BY <1>1, <1>2, SumsGrow
<1>4. \A d \in Ranks : g[d] = Split(all, s, d)
  BY DEF InputSplits
<1>5. Ranks = 0..(E - 1) /\ Locals = 0..(L - 1)
  BY DEF Ranks, Locals
<1> HIDE DEF L, E, f, g
<1>6. ASSUME NEW d \in Ranks
      PROVE  /\ d * L \in Nat /\ d * L + L <= NumExperts /\ (d + 1) * L = d * L + L
             /\ \A e \in 0..L : PrefixSum(f, d * L + e) = PrefixSum(f, d * L) + PrefixSum(part(d), e)
  <2> DEFINE a == d * L
  <2>1. d \in Nat /\ d < E
    BY <1>1, <1>5
  <2>2. a = L * d /\ a \in Nat /\ (d + 1) * L = a + L
    BY <1>1, <2>1
  <2>3. L * d + L <= L * E /\ L * E = NumExperts
    BY <1>1, <2>1, MultipleGrows
  <2> DEFINE h == part(d)
  <2>4. \A e \in 0..(L - 1) : h[e] = f[a + e]
    BY <1>5 DEF CountsFor, L, f
  <2> HIDE DEF part, h
  <2>5. a + L <= NumExperts
    BY <2>2, <2>3
  <2> HIDE DEF a
  <2>6. \A k \in 0..(a + L - 1) : f[k] \in Nat
    BY <1>1, <1>2, <2>2, <2>5
  <2>7. \A e \in 0..L : PrefixSum(f, a + e) = PrefixSum(f, a) + PrefixSum(h, e)
    <3>1. a \in Nat /\ L \in Nat
      BY <1>1, <2>2
    <3>2. PartOf(h, L, f, a)
      BY <2>4, <2>6 DEF PartOf
    <3> QED  BY <3>1, <3>2, SumOfPart
  <2> QED  BY <2>2, <2>5, <2>7, Zenon DEF a, h
<1> DEFINE T == {d \in Nat : d < E => PrefixSum(g, d) = PrefixSum(f, d * L)}
<1>7. 0 \in T
  <2>1. 0 * L = 0
    BY <1>1
  <2> QED  BY <2>1, SumStep
<1>8. ASSUME NEW d \in Nat, d \in T PROVE d + 1 \in T
  <2> SUFFICES ASSUME d + 1 < E PROVE PrefixSum(g, d + 1) = PrefixSum(f, (d + 1) * L)
    OBVIOUS
  <2>1. d \in Ranks /\ PrefixSum(g, d) = PrefixSum(f, d * L)
    BY <1>1, <1>5, <1>8
  <2>2. PrefixSum(g, d + 1) = PrefixSum(g, d) + g[d]
    BY SumStep
  <2>3. g[d] = PrefixSum(part(d), L)
    BY <1>4, <2>1 DEF Split, L
  <2> HIDE DEF part
  <2>4. PrefixSum(f, d * L + L) = PrefixSum(f, d * L) + PrefixSum(part(d), L)
    BY <1>1, <1>6, <2>1
  <2>5. (d + 1) * L = d * L + L
    BY <1>6, <2>1
  <2> QED  BY <2>1, <2>2, <2>3, <2>4, <2>5
<1> HIDE DEF T
<1>9. Nat \subseteq T
  BY <1>7, <1>8, NatInductionSet
<1>10. ASSUME NEW d \in Ranks
       PROVE  SentStart(all, s, d) = PrefixSum(f, d * L) /\ SentStart(all, s, d) \in Nat
  <2>1. SentStart(all, s, d) = PrefixSum(g, d)
    BY DEF SentStart, g
  <2>2. d \in Nat /\ d < E
    BY <1>1, <1>5
  <2>3. PrefixSum(g, d) = PrefixSum(f, d * L)
    BY <1>9, <2>2 DEF T
  <2>4. d * L \in 0..NumExperts
    BY <1>1, <1>6
  <2> QED  BY <1>3, <2>1, <2>3, <2>4
<1>11. ASSUME NEW d \in Ranks, NEW x \in OwnedBy(d)
       PROVE  StartOf(f, x) = SentStart(all, s, d) + PrefixSum(part(d), x % LocalExperts)
  <2> DEFINE e == x % LocalExperts
  <2>1. x \in Experts /\ Owner(x) = d
    BY DEF OwnedBy
  <2>2. e \in Locals /\ x = d * L + e
    BY <2>1, OwnerIs DEF L
  <2> HIDE DEF e, part
  <2>3. e \in 0..L
    BY <1>1, <1>5, <2>2
  <2>4. PrefixSum(f, d * L + e) = PrefixSum(f, d * L) + PrefixSum(part(d), e)
    BY <1>6, <2>3
  <2> QED  BY <1>10, <2>2, <2>4 DEF StartOf, e
<1> QED  BY <1>10, <1>11 DEF f

\* Row i of what source s has for expert x, in received order.
LEMMA InputIn ==
    ASSUME NEW all, Counted(all), NEW s \in Ranks, NEW d \in Ranks, NEW x \in OwnedBy(d),
           NEW i \in Nat, i < all[s][x]
    PROVE  LET q == InputStart(all, s, x) + i
           IN  /\ InputStart(all, s, x) \in Nat
               /\ InputStart(all, s, x) = BlockStart(all, s, d) + PrefixSum(CountsFor(all, s, d), x % LocalExperts)
               /\ BlockStart(all, s, d) \in Nat /\ Split(all, s, d) \in Nat
               /\ BlockStart(all, s, d) <= q /\ q < BlockStart(all, s, d) + Split(all, s, d)
               /\ q \in 0..(ReceivedRows(all, d) - 1)
<1> DEFINE within == PrefixSum(CountsFor(all, s, d), x % LocalExperts)
           start == BlockStart(all, s, d)
           len == Split(all, s, d)
<1>1. Owner(x) = d
  BY DEF OwnedBy
<1>2. InputStart(all, s, x) = start + within
  BY <1>1 DEF InputStart
<1>3. within \in Nat /\ all[s][x] \in Nat /\ within + all[s][x] <= len
  BY Parts
<1>4. start \in Nat /\ len \in Nat /\ start + len <= ReceivedRows(all, d) /\ ReceivedRows(all, d) \in Nat
  BY Blocks
<1> HIDE DEF within, start, len
<1> QED  BY <1>2, <1>3, <1>4 DEF within, start, len

\* Two rows have two places.
LEMMA InputOnce ==
    ASSUME NEW all, Counted(all), NEW d \in Ranks,
           NEW s \in Ranks, NEW x \in OwnedBy(d), NEW i \in Nat, i < all[s][x],
           NEW t \in Ranks, NEW y \in OwnedBy(d), NEW j \in Nat, j < all[t][y],
           InputStart(all, s, x) + i = InputStart(all, t, y) + j
    PROVE  s = t /\ x = y /\ i = j
<1> DEFINE q == InputStart(all, s, x) + i
           f == CountsFor(all, s, d)
           e == x % LocalExperts
           k == y % LocalExperts
<1>1. /\ InputStart(all, s, x) \in Nat
      /\ InputStart(all, s, x) = BlockStart(all, s, d) + PrefixSum(f, e)
      /\ BlockStart(all, s, d) <= q /\ q < BlockStart(all, s, d) + Split(all, s, d)
      /\ BlockStart(all, s, d) \in Nat
  BY InputIn
<1>2. /\ InputStart(all, t, y) \in Nat
      /\ InputStart(all, t, y) = BlockStart(all, t, d) + PrefixSum(CountsFor(all, t, d), k)
      /\ BlockStart(all, t, d) <= InputStart(all, t, y) + j
      /\ InputStart(all, t, y) + j < BlockStart(all, t, d) + Split(all, t, d)
  BY InputIn
<1>3. s = t
  <2>1. q \in Int /\ q = InputStart(all, t, y) + j
    BY <1>1
  <2> HIDE DEF q
  <2> QED  BY <1>1, <1>2, <2>1, BlockOnce
<1>4. /\ e \in 0..(LocalExperts - 1) /\ k \in 0..(LocalExperts - 1) /\ LocalExperts \in Nat
      /\ f[e] = all[s][x] /\ f[k] = all[s][y] /\ PrefixSum(f, e) \in Nat /\ PrefixSum(f, k) \in Nat
      /\ all[s][x] \in Nat /\ all[s][y] \in Nat
      /\ \A n \in 0..(LocalExperts - 1) : f[n] \in Nat
  BY Parts
<1>5. x = d * LocalExperts + e /\ y = d * LocalExperts + k
  BY OwnerIs DEF OwnedBy
<1>6. InputStart(all, t, y) = BlockStart(all, s, d) + PrefixSum(f, k) /\ j < all[s][y]
  BY <1>2, <1>3
<1> HIDE DEF q, f, e, k
<1> DEFINE w == PrefixSum(f, e) + i
<1>7. w = PrefixSum(f, k) + j
  BY <1>1, <1>4, <1>6
<1>8. /\ w \in Int /\ PrefixSum(f, e) <= w /\ w < PrefixSum(f, e) + f[e]
      /\ PrefixSum(f, k) <= w /\ w < PrefixSum(f, k) + f[k]
  BY <1>4, <1>6, <1>7
<1>9. e = k
  <2> HIDE DEF w
  <2> QED  BY <1>4, <1>8, LocatedOnce
<1>10. i = j
  BY <1>4, <1>7, <1>9
<1> QED  BY <1>3, <1>5, <1>9, <1>10

\* Where the permutation takes a row of a group from ...
LEMMA PermutedIs ==
    ASSUME NEW all, Counted(all), NEW d \in Ranks, NEW p \in 0..(ActiveRows(all, d) - 1),
           NEW x \in OwnedBy(d), NEW s \in Ranks, InSegment(all, p, x, s)
    PROVE  LET i == p - SegmentStart(all, x, s)
           IN  /\ SegmentStart(all, x, s) \in Nat /\ i \in Nat /\ i < all[s][x]
               /\ InputStart(all, s, x) \in Nat
               /\ PermutedIndices(all, d)[p] = InputStart(all, s, x) + i
               /\ PermutedIndices(all, d)[p] \in 0..(ReceivedRows(all, d) - 1)
<1> DEFINE Holds(g) == InSegment(all, p, g[1], g[2])
           seg == CHOOSE g \in OwnedBy(d) \X Ranks : Holds(g)
           i == p - SegmentStart(all, x, s)
<1>0. p \in Int
  OBVIOUS
<1>1. <<x, s>> \in OwnedBy(d) \X Ranks /\ Holds(<<x, s>>)
  OBVIOUS
<1>2. ASSUME NEW g \in OwnedBy(d) \X Ranks, Holds(g) PROVE g = <<x, s>>
  <2>1. g[1] \in OwnedBy(d) /\ g[2] \in Ranks /\ g = <<g[1], g[2]>> /\ InSegment(all, p, g[1], g[2])
    BY <1>2
  <2>2. g[1] = x /\ g[2] = s
    BY <1>0, <2>1, SegmentOnce
  <2> QED  BY <2>1, <2>2
<1> HIDE DEF Holds
<1>3. seg = <<x, s>>
  BY <1>1, <1>2
<1>4. PermutedIndices(all, d)[p] = InputStart(all, seg[2], seg[1]) + p - SegmentStart(all, seg[1], seg[2])
  BY DEF PermutedIndices, Holds, InSegment
<1> HIDE DEF seg
<1>5. PermutedIndices(all, d)[p] = InputStart(all, s, x) + p - SegmentStart(all, x, s)
  BY <1>3, <1>4
<1>6. x \in Experts
  BY DEF OwnedBy
<1>7. SegmentStart(all, x, s) \in Nat /\ all[s][x] \in Nat
  BY <1>6, SegmentIn
<1>8. i \in Nat /\ i < all[s][x]
  BY <1>0, <1>7 DEF InSegment
<1>9. InputStart(all, s, x) \in Nat /\ InputStart(all, s, x) + i \in 0..(ReceivedRows(all, d) - 1)
  <2> HIDE DEF i
  <2> QED  BY <1>8, InputIn
<1>10. PermutedIndices(all, d)[p] = InputStart(all, s, x) + i
  BY <1>0, <1>5, <1>7, <1>9
<1> QED  BY <1>7, <1>8, <1>9, <1>10

\* ... is where no other row comes from.
LEMMA PermutedOnce ==
    ASSUME NEW all, Counted(all), NEW d \in Ranks,
           NEW p \in 0..(ActiveRows(all, d) - 1), NEW o \in 0..(ActiveRows(all, d) - 1),
           PermutedIndices(all, d)[p] = PermutedIndices(all, d)[o]
    PROVE  p = o
<1>1. PICK x \in OwnedBy(d), s \in Ranks : InSegment(all, p, x, s)
  BY SegmentOf
<1>2. PICK y \in OwnedBy(d), t \in Ranks : InSegment(all, o, y, t)
  BY SegmentOf
<1> DEFINE i == p - SegmentStart(all, x, s)
           j == o - SegmentStart(all, y, t)
<1>3. /\ i \in Nat /\ i < all[s][x] /\ SegmentStart(all, x, s) \in Nat
      /\ PermutedIndices(all, d)[p] = InputStart(all, s, x) + i
  BY <1>1, PermutedIs
<1>4. /\ j \in Nat /\ j < all[t][y] /\ SegmentStart(all, y, t) \in Nat
      /\ PermutedIndices(all, d)[o] = InputStart(all, t, y) + j
  BY <1>2, PermutedIs
<1>5. s = t /\ x = y /\ i = j
  <2> HIDE DEF i, j
  <2>1. InputStart(all, s, x) + i = InputStart(all, t, y) + j
    BY <1>3, <1>4
  <2> QED  BY <1>3, <1>4, <2>1, InputOnce
<1> QED  BY <1>3, <1>4, <1>5

\* Scattering back: a row that one place only names is there.
LEMMA UnpermutedIs ==
    ASSUME NEW y, NEW indices, NEW p \in DOMAIN y,
           \A o \in DOMAIN y : indices[o] = indices[p] => o = p
    PROVE  /\ indices[p] \in DOMAIN Unpermuted(y, indices)
           /\ Unpermuted(y, indices)[indices[p]] = y[p]
<1> DEFINE q == indices[p]
           found == CHOOSE o \in DOMAIN y : indices[o] = q
<1>1. q \in {indices[o] : o \in DOMAIN y}
  OBVIOUS
<1>2. found = p
  OBVIOUS
<1>3. q \in DOMAIN Unpermuted(y, indices) /\ Unpermuted(y, indices)[q] = y[found]
  BY <1>1 DEF Unpermuted
<1> QED  BY <1>2, <1>3

-----------------------------------------------------------------------------
(* Padded groups.                                                          *)

\* A padded group holds its group.
LEMMA PaddedLenIs ==
    ASSUME NEW all, Counted(all), NEW x \in Experts
    PROVE  PaddedLen(all, x) \in Nat /\ GroupLen(all, x) \in Nat /\ GroupLen(all, x) <= PaddedLen(all, x)
<1> DEFINE n == GroupLen(all, x)
           m == PadMultiple
           blocks == CeilDiv(n, m)
<1>1. m \in Nat /\ m > 0
  BY AllToAllAssumption
<1>2. n \in Nat
  BY Sources
<1>3. PaddedLen(all, x) = m * (IF blocks = 0 THEN 1 ELSE blocks)
  BY DEF PaddedLen, CeilDiv
<1> HIDE DEF n, m
<1>4. blocks \in Int /\ n <= m * blocks
  BY <1>1, <1>2, CeilIs
<1> HIDE DEF blocks
<1>5. m * blocks \in Int /\ m * 0 = 0 /\ m * 1 = m
  BY <1>1, <1>4
<1>6. CASE blocks = 0
  BY <1>1, <1>2, <1>3, <1>4, <1>5, <1>6 DEF n
<1>7. CASE blocks # 0
  <2>1. PaddedLen(all, x) = m * blocks
    BY <1>3, <1>7
  <2> QED  BY <1>2, <1>4, <1>5, <2>1 DEF n
<1> QED  BY <1>6, <1>7

\* The padded groups of a rank, by expert.
LEMMA PaddedGroups ==
    ASSUME NEW all, Counted(all), NEW d \in Ranks
    PROVE  /\ LocalExperts \in Nat
           /\ \A e \in 0..(LocalExperts - 1) : PaddedLens(all, d)[e] \in Nat
           /\ \A x \in OwnedBy(d) :
                 /\ x \in Experts /\ x % LocalExperts \in 0..(LocalExperts - 1)
                 /\ PaddedLens(all, d)[x % LocalExperts] = PaddedLen(all, x)
                 /\ PaddedStart(all, x) = PrefixSum(PaddedLens(all, d), x % LocalExperts)
                 /\ PaddedStart(all, x) \in Nat
                 /\ PaddedStart(all, x) + PaddedLen(all, x) <= PrefixSum(PaddedLens(all, d), LocalExperts)
<1> DEFINE f == PaddedLens(all, d)
<1>1. LocalExperts \in Nat /\ Locals = 0..(LocalExperts - 1) /\ 0 \in Locals
  BY Sizes DEF Locals
<1>2. \A e \in Locals : f[e] = PaddedLen(all, d * LocalExperts + e) /\ f[e] \in Nat
  BY ExpertIs, PaddedLenIs DEF PaddedLens
<1> HIDE DEF f
<1>3. \A e \in 0..(LocalExperts - 1) :
        PrefixSum(f, e) \in Nat /\ PrefixSum(f, LocalExperts) \in Nat /\ PrefixSum(f, e) + f[e] <= PrefixSum(f, LocalExperts)
  BY <1>1, <1>2, LocatedBelow
<1>4. ASSUME NEW x \in OwnedBy(d)
      PROVE  /\ x \in Experts /\ x % LocalExperts \in Locals
             /\ f[x % LocalExperts] = PaddedLen(all, x)
             /\ PaddedStart(all, x) = PrefixSum(f, x % LocalExperts)
  <2> DEFINE e == x % LocalExperts
  <2>1. x \in Experts /\ Owner(x) = d
    BY DEF OwnedBy
  <2>2. e \in Locals /\ x = d * LocalExperts + e
    BY <2>1, OwnerIs
  <2>3. PaddedStart(all, x) = PrefixSum(f, e)
    BY <2>1 DEF PaddedStart, f
  <2> HIDE DEF e
  <2>4. f[e] = PaddedLen(all, x)
    BY <1>2, <2>2
  <2> QED  BY <2>1, <2>2, <2>3, <2>4 DEF e
<1> QED  BY <1>1, <1>2, <1>3, <1>4 DEF f

\* A row lies in one padded group only ...
LEMMA PaddedExpertIs ==
    ASSUME NEW all, Counted(all), NEW d \in Ranks, NEW p \in Int, NEW x \in OwnedBy(d),
           PaddedStart(all, x) <= p, p < PaddedStart(all, x) + PaddedLen(all, x)
    PROVE  PaddedExpert(all, d, p) = x
<1> DEFINE f == PaddedLens(all, d)
           Holds(y) == PaddedStart(all, y) <= p /\ p < PaddedStart(all, y) + PaddedLen(all, y)
<1>1. ASSUME NEW y \in OwnedBy(d), Holds(y) PROVE y = x
  <2> DEFINE e == x % LocalExperts
             k == y % LocalExperts
  <2>1. /\ e \in 0..(LocalExperts - 1) /\ k \in 0..(LocalExperts - 1) /\ LocalExperts \in Nat
        /\ f[e] = PaddedLen(all, x) /\ f[k] = PaddedLen(all, y)
        /\ PaddedStart(all, x) = PrefixSum(f, e) /\ PaddedStart(all, y) = PrefixSum(f, k)
        /\ \A n \in 0..(LocalExperts - 1) : f[n] \in Nat
    BY PaddedGroups
  <2>2. x = d * LocalExperts + e /\ y = d * LocalExperts + k
    BY OwnerIs DEF OwnedBy
  <2> HIDE DEF e, k, f
  <2>3. /\ PrefixSum(f, e) <= p /\ p < PrefixSum(f, e) + f[e]
        /\ PrefixSum(f, k) <= p /\ p < PrefixSum(f, k) + f[k]
    BY <1>1, <2>1
  <2>4. e = k
    BY <2>1, <2>3, LocatedOnce
  <2> QED  BY <2>2, <2>4
<1>2. Holds(x)
  OBVIOUS
<1>3. PaddedExpert(all, d, p) = CHOOSE y \in OwnedBy(d) : Holds(y)
  BY DEF PaddedExpert
<1> HIDE DEF Holds
<1> QED  BY <1>1, <1>2, <1>3

\* ... and in one.
LEMMA PaddedExpertOf ==
    ASSUME NEW all, Counted(all), NEW d \in Ranks,
           NEW p \in 0..(PrefixSum(PaddedLens(all, d), LocalExperts) - 1)
    PROVE  LET x == PaddedExpert(all, d, p)
           IN  /\ x \in OwnedBy(d) /\ PaddedStart(all, x) \in Nat
               /\ PaddedStart(all, x) <= p /\ p < PaddedStart(all, x) + PaddedLen(all, x)
<1> DEFINE f == PaddedLens(all, d)
<1>1. LocalExperts \in Nat /\ \A e \in 0..(LocalExperts - 1) : f[e] \in Nat
  BY PaddedGroups
<1>2. p \in Nat /\ p < PrefixSum(f, LocalExperts)
  <2>1. LocalExperts \in 0..LocalExperts
    BY <1>1
  <2> HIDE DEF f
  <2>2. PrefixSum(f, LocalExperts) \in Nat
    BY <1>1, <2>1, SumsGrow
  <2> QED  BY <2>2 DEF f
<1> HIDE DEF f
<1>3. PICK e \in 0..(LocalExperts - 1) : PrefixSum(f, e) <= p /\ p < PrefixSum(f, e) + f[e]
  BY <1>1, <1>2, Located
<1> DEFINE x == d * LocalExperts + e
<1>4. x \in Experts /\ Owner(x) = d /\ x % LocalExperts = e /\ x \in OwnedBy(d)
  <2>1. e \in Locals
    BY DEF Locals
  <2> QED  BY <2>1, ExpertIs DEF OwnedBy
<1> HIDE DEF x
<1>5. /\ PaddedStart(all, x) <= p /\ p < PaddedStart(all, x) + PaddedLen(all, x)
      /\ PaddedStart(all, x) \in Nat
  BY <1>3, <1>4, PaddedGroups DEF f
<1>6. PaddedExpert(all, d, p) = x
  BY <1>2, <1>4, <1>5, PaddedExpertIs
<1> QED  BY <1>4, <1>5, <1>6

\* The start of a group, before any padding.
LEMMA GroupStartIs ==
    ASSUME NEW all, Counted(all), NEW d \in Ranks, NEW x \in OwnedBy(d)
    PROVE  /\ SegmentStart(all, x, 0) = GroupStart(all, x) /\ GroupStart(all, x) \in Nat
           /\ GroupLen(all, x) \in Nat /\ ActiveRows(all, d) \in Nat
           /\ GroupStart(all, x) + GroupLen(all, x) <= ActiveRows(all, d)
<1>1. PrefixSum(RowsFor(all, x), 0) = 0
  BY SumStep
<1>2. GroupStart(all, x) \in Nat /\ ActiveRows(all, d) \in Nat /\ x \in Experts
      /\ GroupStart(all, x) + GroupLen(all, x) <= ActiveRows(all, d)
  BY Groups
<1>3. GroupLen(all, x) \in Nat
  BY <1>2, Sources
<1>4. SegmentStart(all, x, 0) = GroupStart(all, x)
  BY <1>1, <1>2 DEF SegmentStart, GroupStart
<1> QED  BY <1>2, <1>3, <1>4

\* The permutation, padded: a row of a group comes from where it came from
\* without padding, and any other row is a zero.
LEMMA PaddedIndexIs ==
    ASSUME NEW all, Counted(all), NEW d \in Ranks,
           NEW p \in 0..(PrefixSum(PaddedLens(all, d), LocalExperts) - 1)
    PROVE  LET x == PaddedExpert(all, d, p)
               in == p - PaddedStart(all, x)
           IN  /\ in < GroupLen(all, x) =>
                     /\ GroupStart(all, x) + in \in 0..(ActiveRows(all, d) - 1)
                     /\ PaddedIndices(all, d)[p] = PermutedIndices(all, d)[GroupStart(all, x) + in]
               /\ ~(in < GroupLen(all, x)) => PaddedIndices(all, d)[p] = Sentinel(all, d)
<1> DEFINE x == PaddedExpert(all, d, p)
           in == p - PaddedStart(all, x)
<1>1. x \in OwnedBy(d) /\ PaddedStart(all, x) \in Nat /\ PaddedStart(all, x) <= p
  BY PaddedExpertOf
<1>2. PaddedIndices(all, d)[p] =
        IF in < GroupLen(all, x) THEN PermutedIndices(all, d)[SegmentStart(all, x, 0) + in] ELSE Sentinel(all, d)
  BY DEF PaddedIndices
<1> HIDE DEF x
<1>3. in \in Nat
  BY <1>1
<1> HIDE DEF in
<1>4. /\ SegmentStart(all, x, 0) = GroupStart(all, x) /\ GroupStart(all, x) \in Nat
      /\ GroupLen(all, x) \in Nat /\ ActiveRows(all, d) \in Nat
      /\ GroupStart(all, x) + GroupLen(all, x) <= ActiveRows(all, d)
  BY <1>1, GroupStartIs
<1>5. in < GroupLen(all, x) =>
        /\ GroupStart(all, x) + in \in 0..(ActiveRows(all, d) - 1)
        /\ PaddedIndices(all, d)[p] = PermutedIndices(all, d)[GroupStart(all, x) + in]
  BY <1>2, <1>3, <1>4
<1>6. ~(in < GroupLen(all, x)) => PaddedIndices(all, d)[p] = Sentinel(all, d)
  BY <1>2
<1> QED  BY <1>5, <1>6 DEF x, in

\* Where a row of a group lies among the padded groups, and that no other row
\* names its place.
LEMMA PaddedOnce ==
    ASSUME NEW all, Counted(all), NEW d \in Ranks, NEW x \in OwnedBy(d), NEW i \in Nat, i < GroupLen(all, x)
    PROVE  LET p == PaddedStart(all, x) + i
               o == GroupStart(all, x) + i
               rows == 0..(PrefixSum(PaddedLens(all, d), LocalExperts) - 1)
           IN  /\ p \in rows /\ PaddedExpert(all, d, p) = x
               /\ o \in 0..(ActiveRows(all, d) - 1)
               /\ PaddedIndices(all, d)[p] = PermutedIndices(all, d)[o]
               /\ PermutedIndices(all, d)[o] # Sentinel(all, d)
               /\ \A q \in rows : PaddedIndices(all, d)[q] = PaddedIndices(all, d)[p] => q = p
<1> DEFINE p == PaddedStart(all, x) + i
           o == GroupStart(all, x) + i
           size == PrefixSum(PaddedLens(all, d), LocalExperts)
           padded == PaddedIndices(all, d)
           permuted == PermutedIndices(all, d)
<1>1. x \in Experts /\ PaddedStart(all, x) \in Nat /\ PaddedStart(all, x) + PaddedLen(all, x) <= size
  BY PaddedGroups
<1>2. PaddedLen(all, x) \in Nat /\ GroupLen(all, x) \in Nat /\ GroupLen(all, x) <= PaddedLen(all, x)
  BY <1>1, PaddedLenIs
<1>3. size \in Nat
  <2>1. LocalExperts \in Nat /\ LocalExperts \in 0..LocalExperts
    BY PaddedGroups
  <2> QED  BY <2>1, PaddedGroups, SumsGrow
<1> HIDE DEF size
<1>4. p \in 0..(size - 1) /\ p \in Int /\ PaddedStart(all, x) <= p /\ p < PaddedStart(all, x) + PaddedLen(all, x)
  BY <1>1, <1>2, <1>3
<1>5. PaddedExpert(all, d, p) = x
  <2> HIDE DEF p
  <2> QED  BY <1>4, PaddedExpertIs
<1>6. p - PaddedStart(all, x) = i
  BY <1>1
<1>7. /\ o \in 0..(ActiveRows(all, d) - 1) /\ padded[p] = permuted[o]
  <2> HIDE DEF p, padded, permuted
  <2>1. p \in 0..(PrefixSum(PaddedLens(all, d), LocalExperts) - 1)
    BY <1>4 DEF size
  <2> QED  BY <1>5, <1>6, <2>1, PaddedIndexIs DEF padded, permuted
<1>8. \A n \in 0..(ActiveRows(all, d) - 1) : permuted[n] # Sentinel(all, d)
  <2> SUFFICES ASSUME NEW n \in 0..(ActiveRows(all, d) - 1) PROVE permuted[n] # Sentinel(all, d)
    OBVIOUS
  <2>1. PICK y \in OwnedBy(d), s \in Ranks : InSegment(all, n, y, s)
    BY SegmentOf
  <2>2. permuted[n] \in 0..(ReceivedRows(all, d) - 1)
    BY <2>1, PermutedIs
  <2>3. ReceivedRows(all, d) \in Nat
    BY Blocks
  <2> HIDE DEF permuted
  <2> QED  BY <2>2, <2>3 DEF Sentinel
<1>9. ASSUME NEW q \in 0..(size - 1), padded[q] = padded[p] PROVE q = p
  <2> DEFINE y == PaddedExpert(all, d, q)
             j == q - PaddedStart(all, y)
             n == GroupStart(all, y) + j
  <2>1. q \in 0..(PrefixSum(PaddedLens(all, d), LocalExperts) - 1)
    BY DEF size
  <2>2. y \in OwnedBy(d) /\ PaddedStart(all, y) \in Nat /\ PaddedStart(all, y) <= q
    BY <2>1, PaddedExpertOf
  <2>3. /\ j < GroupLen(all, y) => n \in 0..(ActiveRows(all, d) - 1) /\ padded[q] = permuted[n]
        /\ ~(j < GroupLen(all, y)) => padded[q] = Sentinel(all, d)
    BY <2>1, PaddedIndexIs
  <2> HIDE DEF y, padded, permuted, p, o
  <2>4. j \in Nat /\ q = PaddedStart(all, y) + j
    BY <2>2
  <2> HIDE DEF j
  <2>5. padded[q] # Sentinel(all, d)
    BY <1>7, <1>8, <1>9
  <2>6. j < GroupLen(all, y) /\ n \in 0..(ActiveRows(all, d) - 1) /\ permuted[n] = permuted[o]
    BY <1>7, <1>9, <2>3, <2>5
  <2>7. n = o
    <3> HIDE DEF n
    <3> QED  BY <1>7, <2>6, PermutedOnce DEF permuted
  <2>8. /\ GroupStart(all, y) \in Nat /\ GroupLen(all, y) \in Nat
        /\ GroupStart(all, x) \in Nat
    BY <2>2, GroupStartIs
  <2>9. /\ o \in Int
        /\ GroupStart(all, y) <= o /\ o < GroupStart(all, y) + GroupLen(all, y)
        /\ GroupStart(all, x) <= o /\ o < GroupStart(all, x) + GroupLen(all, x)
    BY <1>2, <2>4, <2>6, <2>7, <2>8 DEF o
  <2>10. x = y
    <3> HIDE DEF n
    <3> QED  BY <2>2, <2>9, GroupOnce
  <2>11. j = i
    BY <2>4, <2>7, <2>8, <2>10 DEF o
  <2> QED  BY <2>4, <2>10, <2>11 DEF p
<1>10. permuted[o] # Sentinel(all, d)
  BY <1>7, <1>8
<1> QED  BY <1>4, <1>5, <1>7, <1>9, <1>10 DEF size

-----------------------------------------------------------------------------
(* There and back through the exchanges.                                   *)

\* The expert of a sorted row, the rank it is sent to, how many rows of the
\* sender for this expert are before it, its place there by source and by expert.
To(W, s, row) == Owner(ExpertAt(W, s, row))
Nth(W, s, row) == row - StartOf(Table(W)[s], ExpertAt(W, s, row))
Landing(W, s, row) == InputStart(Table(W), s, ExpertAt(W, s, row)) + Nth(W, s, row)
Seat(W, s, row) == SegmentStart(Table(W), ExpertAt(W, s, row), s) + Nth(W, s, row)

\* The way there.
LEMMA JourneyIs ==
    ASSUME NEW W \in Routing, NEW s \in Ranks, NEW row \in Rows
    PROVE  LET all == Table(W)
               x == ExpertAt(W, s, row)
               d == To(W, s, row)
               q == Landing(W, s, row)
               o == Seat(W, s, row)
           IN  /\ Counted(all) /\ d \in Ranks /\ x \in OwnedBy(d)
               /\ o \in 0..(ActiveRows(all, d) - 1) /\ InSegment(all, o, x, s)
               /\ PermutedIndices(all, d)[o] = q
               /\ Received(all, d)[q] = [rank |-> s, row |-> row]
               /\ q = BlockStart(all, s, d) + row - SentStart(all, s, d)
               /\ SentStart(all, s, d) <= row /\ row < SentStart(all, s, d) + Split(all, s, d)
<1> DEFINE all == Table(W)
           x == ExpertAt(W, s, row)
           d == To(W, s, row)
           i == Nth(W, s, row)
           q == Landing(W, s, row)
           o == Seat(W, s, row)
           within == PrefixSum(CountsFor(all, s, d), x % LocalExperts)
           c == all[s]
<1>1. /\ x \in Experts /\ StartOf(c, x) \in Nat /\ c[x] \in Nat
      /\ StartOf(c, x) <= row /\ row < StartOf(c, x) + c[x]
  BY RowOfExpert
<1>2. Counted(all)
  BY TableCounts
<1>3. i = row - StartOf(c, x) /\ d = Owner(x) /\ q = InputStart(all, s, x) + i /\ o = SegmentStart(all, x, s) + i
  BY DEF Nth, To, Landing, Seat
<1> HIDE DEF all, x, d, i, q, o
<1>4. row \in Int
  BY Sizes
<1>5. i \in Nat /\ i < c[x]
  BY <1>1, <1>3, <1>4
<1>6. d \in Ranks /\ x \in OwnedBy(d)
  BY <1>1, <1>3, OwnerIs
<1>7. /\ SegmentStart(all, x, s) \in Nat /\ ActiveRows(all, d) \in Nat
      /\ SegmentStart(all, x, s) + c[x] <= ActiveRows(all, d)
  BY <1>1, <1>2, <1>3, SegmentIn
<1>8. o \in 0..(ActiveRows(all, d) - 1) /\ InSegment(all, o, x, s)
  BY <1>1, <1>3, <1>5, <1>7 DEF InSegment
<1>9. PermutedIndices(all, d)[o] = q
  <2>1. PermutedIndices(all, d)[o] = InputStart(all, s, x) + (o - SegmentStart(all, x, s))
    BY <1>2, <1>6, <1>8, PermutedIs
  <2>2. o - SegmentStart(all, x, s) = i
    BY <1>3, <1>5, <1>7
  <2> QED  BY <1>3, <2>1, <2>2
<1>10. /\ InputStart(all, s, x) = BlockStart(all, s, d) + within
       /\ BlockStart(all, s, d) \in Nat /\ Split(all, s, d) \in Nat
       /\ BlockStart(all, s, d) <= q /\ q < BlockStart(all, s, d) + Split(all, s, d)
       /\ q \in 0..(ReceivedRows(all, d) - 1)
  BY <1>2, <1>3, <1>5, <1>6, InputIn
<1>11. /\ SentStart(all, s, d) \in Nat /\ StartOf(c, x) = SentStart(all, s, d) + within
  BY <1>2, <1>6, SentStartIs
<1>12. within \in Nat /\ within + c[x] <= Split(all, s, d)
  BY <1>2, <1>6, Parts
<1> HIDE DEF within
<1>13. q = BlockStart(all, s, d) + within + i
  BY <1>3, <1>10
<1>14. q = BlockStart(all, s, d) + row - SentStart(all, s, d)
  BY <1>3, <1>4, <1>5, <1>10, <1>11, <1>12, <1>13
<1>15. SentStart(all, s, d) <= row /\ row < SentStart(all, s, d) + Split(all, s, d)
  BY <1>1, <1>4, <1>10, <1>11, <1>12
<1>16. Received(all, d)[q] = [rank |-> s, row |-> row]
  <2>1. Received(all, d)[q] = [rank |-> s, row |-> SentStart(all, s, d) + q - BlockStart(all, s, d)]
    BY <1>2, <1>6, <1>10, ReceivedIs
  <2>2. SentStart(all, s, d) + q - BlockStart(all, s, d) = row
    BY <1>4, <1>10, <1>11, <1>14
  <2> QED  BY <2>1, <2>2
<1> QED  BY <1>2, <1>6, <1>8, <1>9, <1>14, <1>15, <1>16 DEF all, x, d, q, o

\* A row is sent to one rank.
LEMMA SentOnce ==
    ASSUME NEW all, Counted(all), NEW s \in Ranks, NEW row \in Int,
           NEW d \in Ranks, SentStart(all, s, d) <= row, row < SentStart(all, s, d) + Split(all, s, d),
           NEW e \in Ranks, SentStart(all, s, e) <= row, row < SentStart(all, s, e) + Split(all, s, e)
    PROVE  d = e
<1> DEFINE f == InputSplits(all, s)
<1>1. d \in 0..(EpSize - 1) /\ e \in 0..(EpSize - 1) /\ EpSize \in Nat
  BY Sizes DEF Ranks
<1>2. /\ \A k \in 0..(EpSize - 1) : f[k] \in Nat
      /\ f[d] = Split(all, s, d) /\ f[e] = Split(all, s, e)
  <2>1. \A k \in Ranks : f[k] = Split(all, s, k) /\ Split(all, s, k) \in Nat
    BY Parts DEF InputSplits
  <2> QED  BY <2>1 DEF Ranks
<1>3. SentStart(all, s, d) = PrefixSum(f, d) /\ SentStart(all, s, e) = PrefixSum(f, e)
  BY DEF SentStart
<1> HIDE DEF f
<1> QED  BY <1>1, <1>2, <1>3, LocatedOnce

\* The way back.
LEMMA ReturnedIs ==
    ASSUME NEW W \in Routing, NEW s \in Ranks, NEW row \in Rows, NEW back
    PROVE  Returned(Table(W), s, back)[row] = back[To(W, s, row)][Landing(W, s, row)]
<1> DEFINE all == Table(W)
           d == To(W, s, row)
           q == Landing(W, s, row)
           Holds(e) == SentStart(all, s, e) <= row /\ row < SentStart(all, s, e) + Split(all, s, e)
           found == CHOOSE e \in Ranks : Holds(e)
<1>1. /\ Counted(all) /\ d \in Ranks /\ q = BlockStart(all, s, d) + row - SentStart(all, s, d)
      /\ Holds(d)
  BY JourneyIs
<1> HIDE DEF all, d, q
<1>2. \A e \in Ranks : Holds(e) => e = d
  <2>1. row \in Int
    BY Sizes
  <2> QED  BY <1>1, <2>1, SentOnce
<1>3. Returned(all, s, back)[row] = back[found][BlockStart(all, s, found) + row - SentStart(all, s, found)]
  BY DEF Returned
<1> HIDE DEF Holds
<1>4. found = d
  BY <1>1, <1>2
<1> HIDE DEF found
<1> QED  BY <1>1, <1>3, <1>4 DEF all, d, q

\* What the experts make of a row; it lies where the row landed.
Result(W, value, s, row) == ExpertOut(ExpertAt(W, s, row), value[s][TokenOf(SlotAt(W, s, row))])

\* The counts all ranks exchange are the table of the routing.
LEMMA AllCountsIs == ASSUME NEW W PROVE AllCounts(W) = Table(W)
BY DEF AllCounts, Table

\* The row that landed is the token of the slot.
LEMMA InputOfRow ==
    ASSUME NEW W \in Routing, NEW value, NEW s \in Ranks, NEW row \in Rows
    PROVE  ExpertInput(W, value, Received(Table(W), To(W, s, row))[Landing(W, s, row)]) =
             value[s][TokenOf(SlotAt(W, s, row))]
<1>1. Received(Table(W), To(W, s, row))[Landing(W, s, row)] = [rank |-> s, row |-> row]
  BY JourneyIs
<1>2. ExpertInput(W, value, [rank |-> s, row |-> row]) = value[s][TokenOf(SlotAt(W, s, row))]
  BY DEF ExpertInput, SlotAt
<1> QED  BY <1>1, <1>2

\* The experts' outputs, without padding ...
LEMMA ExpertRowsIs ==
    ASSUME NEW W \in Routing, NEW value, NEW s \in Ranks, NEW row \in Rows
    PROVE  ExpertRows(W, value, To(W, s, row))[Landing(W, s, row)] = Result(W, value, s, row)
<1> DEFINE all == Table(W)
           x == ExpertAt(W, s, row)
           d == To(W, s, row)
           q == Landing(W, s, row)
           o == Seat(W, s, row)
           indices == PermutedIndices(all, d)
           Input(p) == ExpertInput(W, value, Received(all, d)[indices[p]])
           y == [p \in DOMAIN indices |-> ExpertOut(ExpertOfRow(all, d, p), Input(p))]
<1>1. /\ Counted(all) /\ d \in Ranks /\ x \in OwnedBy(d)
      /\ o \in 0..(ActiveRows(all, d) - 1) /\ InSegment(all, o, x, s) /\ indices[o] = q
  BY JourneyIs
<1>2. Input(o) = value[s][TokenOf(SlotAt(W, s, row))]
  BY <1>1, InputOfRow
<1>3. ExpertRows(W, value, d) = Unpermuted(y, indices)
  BY AllCountsIs DEF ExpertRows
<1> HIDE DEF all, x, d, q, o
<1>4. DOMAIN indices = 0..(ActiveRows(all, d) - 1)
  BY DEF PermutedIndices
<1>5. \A n \in DOMAIN indices : indices[n] = indices[o] => n = o
  BY <1>1, <1>4, PermutedOnce
<1>6. ExpertOfRow(all, d, o) = x
  <2>1. o \in Int
    BY <1>1
  <2> QED  BY <1>1, <2>1, ExpertOfRowIs
<1> HIDE DEF indices, Input
<1>7. o \in DOMAIN y /\ DOMAIN y = DOMAIN indices /\ y[o] = ExpertOut(x, Input(o))
  BY <1>1, <1>4, <1>6
<1> HIDE DEF y
<1>8. Unpermuted(y, indices)[indices[o]] = y[o]
  BY <1>5, <1>7, UnpermutedIs
<1>9. ExpertRows(W, value, d)[q] = ExpertOut(x, value[s][TokenOf(SlotAt(W, s, row))])
  BY <1>1, <1>2, <1>3, <1>7, <1>8
<1> QED  BY <1>9 DEF Result, x, d, q

\* ... and padded.
LEMMA PaddedExpertRowsIs ==
    ASSUME NEW W \in Routing, NEW value, NEW s \in Ranks, NEW row \in Rows
    PROVE  PaddedExpertRows(W, value, To(W, s, row))[Landing(W, s, row)] = Result(W, value, s, row)
<1> DEFINE all == Table(W)
           x == ExpertAt(W, s, row)
           d == To(W, s, row)
           q == Landing(W, s, row)
           o == Seat(W, s, row)
           i == o - GroupStart(all, x)
           p == PaddedStart(all, x) + i
           indices == PaddedIndices(all, d)
           Row(n) == ExpertInput(W, value, Received(all, d)[indices[n]])
           Input(n) == IF indices[n] = Sentinel(all, d) THEN "zero" ELSE Row(n)
           y == [n \in DOMAIN indices |-> ExpertOut(PaddedExpert(all, d, n), Input(n))]
<1>1. /\ Counted(all) /\ d \in Ranks /\ x \in OwnedBy(d)
      /\ o \in 0..(ActiveRows(all, d) - 1) /\ InSegment(all, o, x, s) /\ PermutedIndices(all, d)[o] = q
  BY JourneyIs
<1>2. PaddedExpertRows(W, value, d) = Unpadded(y, indices, all, d)
  BY AllCountsIs DEF PaddedExpertRows
<1>3. ExpertInput(W, value, Received(all, d)[q]) = value[s][TokenOf(SlotAt(W, s, row))]
  BY InputOfRow
<1> HIDE DEF all, x, d, q, o
<1>4. o \in Int /\ x \in Experts
  BY <1>1 DEF OwnedBy
<1>5. GroupStart(all, x) <= o /\ o < GroupStart(all, x) + GroupLen(all, x)
  BY <1>1, <1>4, InGroup
<1>6. GroupStart(all, x) \in Nat /\ GroupLen(all, x) \in Nat
  BY <1>1, GroupStartIs
<1>7. i \in Nat /\ i < GroupLen(all, x) /\ GroupStart(all, x) + i = o
  BY <1>4, <1>5, <1>6
<1> HIDE DEF i
<1>8. /\ p \in 0..(PrefixSum(PaddedLens(all, d), LocalExperts) - 1) /\ PaddedExpert(all, d, p) = x
      /\ indices[p] = PermutedIndices(all, d)[o]
      /\ PermutedIndices(all, d)[o] # Sentinel(all, d)
      /\ \A n \in 0..(PrefixSum(PaddedLens(all, d), LocalExperts) - 1) : indices[n] = indices[p] => n = p
  BY <1>1, <1>7, PaddedOnce
<1>9. DOMAIN indices = 0..(PrefixSum(PaddedLens(all, d), LocalExperts) - 1)
  BY DEF PaddedIndices
<1>10. indices[p] = q /\ q # Sentinel(all, d)
  BY <1>1, <1>8
<1> HIDE DEF p, indices
<1>11. Input(p) = value[s][TokenOf(SlotAt(W, s, row))]
  BY <1>3, <1>10
<1> HIDE DEF Input
<1>12. p \in DOMAIN y /\ DOMAIN y = DOMAIN indices /\ y[p] = ExpertOut(x, Input(p))
  BY <1>8, <1>9
<1> HIDE DEF y
<1>13. /\ indices[p] \in DOMAIN Unpermuted(y, indices)
       /\ Unpermuted(y, indices)[indices[p]] = y[p]
  <2>1. \A n \in DOMAIN y : indices[n] = indices[p] => n = p
    BY <1>8, <1>9, <1>12
  <2> QED  BY <1>12, <2>1, UnpermutedIs
<1>14. Unpadded(y, indices, all, d)[q] = Unpermuted(y, indices)[q]
  BY <1>10, <1>13 DEF Unpadded
<1>15. PaddedExpertRows(W, value, d)[q] = ExpertOut(x, value[s][TokenOf(SlotAt(W, s, row))])
  BY <1>2, <1>10, <1>11, <1>12, <1>13, <1>14
<1> QED  BY <1>15 DEF Result, x, d, q

\* On every routing the three dispatchers compute the same sums.
LEMMA SumsAgree ==
    ASSUME NEW W \in Routing
    PROVE  SameSums(W)
<1> DEFINE Value(r) == [t \in 0..(Tokens - 1) |-> <<r, t>>]
           value == [r \in Ranks |-> Value(r)]
           back(padded) == [d \in Ranks |-> IF padded THEN PaddedExpertRows(W, value, d) ELSE ExpertRows(W, value, d)]
           order == [r \in Ranks |-> ExpertOrder(W[r])]
           routed(padded) == [r \in Ranks |-> Returned(Table(W), r, back(padded))]
           OfToken(r, t) == {row \in Rows : TokenOf(order[r][row]) = t}
<1>1. ASSUME NEW padded \in BOOLEAN, NEW r \in Ranks, NEW row \in Rows
      PROVE  routed(padded)[r][row] = Result(W, value, r, row)
  <2> DEFINE d == To(W, r, row)
             q == Landing(W, r, row)
  <2>1. routed(padded)[r][row] = Returned(Table(W), r, back(padded))[row]
    OBVIOUS
  <2>2. d \in Ranks
    BY JourneyIs
  <2> HIDE DEF value
  <2>3. back(padded)[d] = IF padded THEN PaddedExpertRows(W, value, d) ELSE ExpertRows(W, value, d)
    BY <2>2
  <2> HIDE DEF back
  <2>4. Returned(Table(W), r, back(padded))[row] = back(padded)[d][q]
    BY ReturnedIs
  <2>5. PaddedExpertRows(W, value, d)[q] = Result(W, value, r, row) /\ ExpertRows(W, value, d)[q] = Result(W, value, r, row)
    BY ExpertRowsIs, PaddedExpertRowsIs
  <2> QED  BY <2>1, <2>3, <2>4, <2>5
<1> HIDE DEF routed
<1>2. ASSUME NEW padded \in BOOLEAN
      PROVE  AllToAllCombined(W, value, padded) = [r \in Ranks |-> LocalCombined(W[r], Value(r))]
  <2>1. AllToAllCombined(W, value, padded) =
          [r \in Ranks |-> [t \in 0..(Tokens - 1) |->
             {[slot |-> order[r][row], is |-> routed(padded)[r][row]] : row \in OfToken(r, t)}]]
    BY AllCountsIs DEF AllToAllCombined, routed
  <2>2. \A r \in Ranks : order[r] = ExpertOrder(W[r])
    OBVIOUS
  <2>3. \A r \in Ranks : LocalCombined(W[r], Value(r)) =
          [t \in 0..(Tokens - 1) |->
             {[slot |-> order[r][row], is |-> ExpertOut(W[r][order[r][row]], Value(r)[t])] : row \in OfToken(r, t)}]
    BY <2>2 DEF LocalCombined
  <2>4. ASSUME NEW r \in Ranks, NEW t \in 0..(Tokens - 1), NEW row \in OfToken(r, t)
        PROVE  routed(padded)[r][row] = ExpertOut(W[r][order[r][row]], Value(r)[t])
    <3>1. row \in Rows /\ order[r][row] = SlotAt(W, r, row) /\ TokenOf(SlotAt(W, r, row)) = t
      BY <2>2 DEF SlotAt
    <3>2. value[r] = Value(r)
      OBVIOUS
    <3> HIDE DEF order, value
    <3>3. routed(padded)[r][row] = Result(W, value, r, row)
      BY <1>1, <3>1
    <3> QED  BY <3>1, <3>2, <3>3 DEF Result, ExpertAt
  <2> HIDE DEF order, value, Value
  <2>5. ASSUME NEW r \in Ranks
        PROVE  LocalCombined(W[r], Value(r)) =
                 [t \in 0..(Tokens - 1) |->
                    {[slot |-> order[r][row], is |-> routed(padded)[r][row]] : row \in OfToken(r, t)}]
    <3>1. ASSUME NEW t \in 0..(Tokens - 1)
          PROVE  {[slot |-> order[r][row], is |-> ExpertOut(W[r][order[r][row]], Value(r)[t])] : row \in OfToken(r, t)}
                   = {[slot |-> order[r][row], is |-> routed(padded)[r][row]] : row \in OfToken(r, t)}
      <4> HIDE DEF OfToken
      <4> QED  BY <2>4
    <3> HIDE DEF OfToken
    <3> QED  BY <2>3, <3>1
  <2> HIDE DEF OfToken
  <2> QED  BY <2>1, <2>5
<1> HIDE DEF value, Value
<1>3. SameSums(W) = \A padded \in BOOLEAN :
        AllToAllCombined(W, value, padded) = [r \in Ranks |-> LocalCombined(W[r], Value(r))]
  BY DEF SameSums, value, Value
<1> QED  BY <1>2, <1>3

-----------------------------------------------------------------------------
(* The inductive invariant.                                                *)

Last == 6 * Layers
Kind(i) == Program[i].kind
LayerOf(i) == Program[i].layer
\* The routing of operation i, by rank.
W(i) == ids[LayerOf(i)]

\* What is moved in operation i for slot row of rank s, and from whom to
\* whom and where.
Forth(i) == Kind(i) \in {"dispatch", "combine_backward"}
There(i, s, row) == DispatchTarget(Table(W(i)), s)[row]
Writer(i, s, row) == IF Forth(i) THEN s ELSE There(i, s, row).rank
Reader(i, s, row) == IF Forth(i) THEN There(i, s, row).rank ELSE s
Spot(i, s, row) == IF Forth(i) THEN There(i, s, row).row ELSE row

TokenAt(i, s, row) == Token(LayerOf(i), s, TokenOf(SlotAt(W(i), s, row)))
GradAt(i, s, row) ==
    [slot |-> SlotAt(W(i), s, row), is |-> OutGrad(LayerOf(i), s, TokenOf(SlotAt(W(i), s, row)))]
RowValue(i, s, row) ==
    CASE Kind(i) = "dispatch" -> TokenAt(i, s, row)
      [] Kind(i) = "combine" -> ExpertOut(ExpertAt(W(i), s, row), TokenAt(i, s, row))
      [] Kind(i) = "combine_backward" -> GradAt(i, s, row)
      [] Kind(i) = "dispatch_backward" -> ExpertGrad(ExpertAt(W(i), s, row), GradAt(i, s, row))

\* How far a rank has come, in operations: those whose rows it has announced,
\* those it knows announced by all, and those whose counts it has announced.
Signalled(r) == IF phase[r] \in {"rowsWait", "use"} THEN at[r] ELSE at[r] - 1
Passed(r) == IF phase[r] = "use" THEN at[r] ELSE at[r] - 1
CountsSignalled(r) == IF phase[r] \in {"counts", "done"} THEN at[r] - 1 ELSE at[r]

\* s has written its rows, or its counts, of operation i to q.
Wrote(s, i, q) ==
    \/ at[s] > i
    \/ at[s] = i /\ phase[s] \in {"rowsWait", "use"}
    \/ at[s] = i /\ phase[s] = "rows" /\ q \notin todo[s]
WroteCounts(s, i, q) ==
    /\ Kind(i) = "dispatch"
    /\ \/ at[s] > i
       \/ at[s] = i /\ phase[s] # "counts"
       \/ at[s] = i /\ q \notin todo[s]

\* The operations that arrive at a handle.
ByBuffer(b) == [i \in Nat |-> IF i % BufferCount = b THEN 1 ELSE 0]
ByCounts == [i \in Nat |-> IF i < Last /\ Kind(i + 1) = "dispatch" THEN 1 ELSE 0]

Phases == {"counts", "countsWait", "rows", "rowsWait", "use", "done"}

IsBuffer(buf) == buf = [p \in 0..(Capacity - 1) |-> buf[p]]

ShapeInv ==
    /\ ids \in LayerRoutings
    /\ at \in [Ranks -> 1..(Last + 1)] /\ phase \in [Ranks -> Phases] /\ todo \in [Ranks -> SUBSET Ranks]
    /\ index \in [Ranks -> Buffers] /\ arrived \in [Handles -> [Ranks -> Nat]]
    /\ hidden = [r \in Ranks |-> hidden[r]]
    /\ \A r \in Ranks : /\ hidden[r] = [b \in Buffers |-> hidden[r][b]]
                        /\ \A b \in Buffers : IsBuffer(hidden[r][b])
    /\ countsBuf = [r \in Ranks |-> countsBuf[r]]
    /\ \A r \in Ranks : countsBuf[r] = [s \in Ranks |-> countsBuf[r][s]]
    /\ meta = [r \in Ranks |-> meta[r]] /\ tensor = [r \in Ranks |-> tensor[r]]
    /\ saved \in [Ranks -> [input : Buffers, routed : Buffers]]

PhaseInv ==
    \A r \in Ranks : /\ phase[r] = "done" <=> at[r] = Last + 1
                     /\ phase[r] \in {"counts", "countsWait"} => Kind(at[r]) = "dispatch"

\* The index and the handles count the operations.
CountInv ==
    \A r \in Ranks : /\ index[r] = Signalled(r) % BufferCount
                     /\ \A b \in Buffers : arrived[b][r] = PrefixSum(ByBuffer(b), Signalled(r))
                     /\ arrived[CountsHandle][r] = PrefixSum(ByCounts, CountsSignalled(r))

\* No rank passes a barrier that a peer has not come to.
GateInv == \A r, s \in Ranks : Passed(r) <= Signalled(s)

\* The latest counts a rank wrote are there.
CountsInv ==
    \A s, q \in Ranks : \A i \in 1..Last :
        /\ WroteCounts(s, i, q)
        /\ \A j \in 1..Last : WroteCounts(s, j, q) => j <= i
        => countsBuf[q][s] = Table(W(i))[s]

MetaInv ==
    \A r \in Ranks, i \in 1..Last : at[r] = i /\ phase[r] \in {"rows", "rowsWait", "use"} =>
        meta[r] = DirectMetadata(Table(W(i)), r)

\* What experts made of the rows they received is what goes home.
Back(i, r) == CombineTarget(Table(W(i)), r)
HomeRows(i, r) ==
    [p \in 0..(ActiveRows(Table(W(i)), r) - 1) |-> RowValue(i, Back(i, r)[p].rank, Back(i, r)[p].row)]
TensorInv ==
    \A r \in Ranks, i \in 1..Last :
        at[r] = i /\ phase[r] = "rows" /\ ~Forth(i) => tensor[r] = HomeRows(i, r)

SavedInv ==
    \A r \in Ranks : at[r] \in 1..Last /\ Kind(at[r]) = "combine_backward" =>
        saved[r].routed = (at[r] - 2) % BufferCount

\* What was written is there until somebody takes the buffer again.
DataInv ==
    \A i \in 1..Last : \A s \in Ranks, row \in Rows : \A w, q \in Ranks :
        /\ w = Writer(i, s, row) /\ q = Reader(i, s, row)
        /\ Wrote(w, i, q) /\ \A z \in Ranks : ~Wrote(z, i + BufferCount, q)
        => hidden[q][(i - 1) % BufferCount][Spot(i, s, row)] = RowValue(i, s, row)

IndInv ==
    /\ ShapeInv /\ PhaseInv /\ CountInv /\ GateInv /\ CountsInv
    /\ MetaInv /\ TensorInv /\ SavedInv /\ DataInv

-----------------------------------------------------------------------------
(* The program of a rank.                                                  *)

\* Two pairs make a sequence of four.
LEMMA ConcatPairs ==
    ASSUME NEW a, NEW b, NEW c, NEW d
    PROVE  <<a, b>> \o <<c, d>> = <<a, b, c, d>>
<1> DEFINE S == {a, b, c, d}
           s == <<a, b>>  t == <<c, d>>  u == <<a, b, c, d>>
<1>1. s \in Seq(S) /\ t \in Seq(S) /\ u \in Seq(S) /\ Len(s) = 2 /\ Len(t) = 2 /\ Len(u) = 4
  OBVIOUS
<1>2. s[1] = a /\ s[2] = b /\ t[1] = c /\ t[2] = d /\ u[1] = a /\ u[2] = b /\ u[3] = c /\ u[4] = d
  OBVIOUS
<1> HIDE DEF S, s, t, u
<1>3. /\ s \o t \in Seq(S) /\ Len(s \o t) = 4
      /\ \A i \in 1..4 : (s \o t)[i] = IF i <= 2 THEN s[i] ELSE t[i - 2]
  <2>1. /\ s \o t \in Seq(S) /\ Len(s \o t) = Len(s) + Len(t)
        /\ \A i \in 1..Len(s) + Len(t) : (s \o t)[i] = IF i <= Len(s) THEN s[i] ELSE t[i - Len(s)]
    BY <1>1, ConcatProperties
  <2>2. Len(s) + Len(t) = 4
    BY <1>1
  <2> QED  BY <1>1, <2>1, <2>2
<1>4. \A i \in 1..4 : (s \o t)[i] = u[i]
  <2>1. /\ (s \o t)[1] = s[1] /\ (s \o t)[2] = s[2] /\ (s \o t)[3] = t[1] /\ (s \o t)[4] = t[2]
    BY <1>3
  <2>2. \A i \in 1..4 : i = 1 \/ i = 2 \/ i = 3 \/ i = 4
    OBVIOUS
  <2>3. (s \o t)[1] = u[1] /\ (s \o t)[2] = u[2] /\ (s \o t)[3] = u[3] /\ (s \o t)[4] = u[4]
    BY <1>2, <2>1
  <2> QED  BY <2>2, <2>3
<1>5. s \o t = u
  <2>1. Len(s \o t) = Len(u) /\ \A i \in 1..Len(s \o t) : (s \o t)[i] = u[i]
    BY <1>1, <1>3, <1>4
  <2> QED  BY <1>1, <1>3, <2>1, SeqEqual
<1> QED  BY <1>5 DEF s, t, u

KindOfPhase(k) ==
    CASE k = 0 -> "dispatch" [] k = 1 -> "combine" [] k = 2 -> "combine_backward" [] OTHER -> "dispatch_backward"

\* The program, operation by operation.
LEMMA ProgramIs ==
    /\ Layers \in Nat \ {0} /\ Last \in Nat \ {0} /\ Last = 6 * Layers
    /\ Program \in Seq([kind : {"dispatch", "combine", "combine_backward", "dispatch_backward"}, layer : 1..Layers])
    /\ Len(Program) = Last
    /\ \A i \in 1..(2 * Layers) : Program[i] = Op(KindOfPhase((i - 1) % 2), (i + 1) \div 2)
    /\ \A i \in (2 * Layers + 1)..Last :
          LET j == i - 2 * Layers - 1
          IN  Program[i] = Op(KindOfPhase(j % 4), Layers - (j \div 4))
<1>1. Layers \in Nat \ {0} /\ Last \in Nat \ {0} /\ Last = 6 * Layers
  BY AsyncEPAssumption DEF Last
<1> DEFINE Forward(l) == <<Op("dispatch", l), Op("combine", l)>>
           Backward(l) == Forward(l) \o <<Op("combine_backward", l), Op("dispatch_backward", l)>>
<1>2. \A l : Backward(l) = <<Op("dispatch", l), Op("combine", l), Op("combine_backward", l), Op("dispatch_backward", l)>>
  BY ConcatPairs
<1>3. Program = [i \in 1..Last |->
                   IF i <= 2 * Layers
                     THEN Forward((i + 1) \div 2)[((i - 1) % 2) + 1]
                     ELSE LET j == i - 2 * Layers - 1
                          IN  Backward(Layers - (j \div 4))[(j % 4) + 1]]
  BY DEF Program, Last
<1> HIDE DEF Backward
<1>4. ASSUME NEW i \in 1..(2 * Layers)
      PROVE  Program[i] = Op(KindOfPhase((i - 1) % 2), (i + 1) \div 2) /\ (i + 1) \div 2 \in 1..Layers
  <2>1. i \in 1..Last /\ i <= 2 * Layers
    BY <1>1
  <2>2. Program[i] = Forward((i + 1) \div 2)[((i - 1) % 2) + 1]
    BY <1>3, <2>1
  <2>3. (i - 1) % 2 \in {0, 1} /\ (i + 1) \div 2 \in 1..Layers
    BY <1>1
  <2>4. CASE (i - 1) % 2 = 0
    BY <2>2, <2>3, <2>4 DEF KindOfPhase
  <2>5. CASE (i - 1) % 2 = 1
    BY <2>2, <2>3, <2>5 DEF KindOfPhase
  <2> QED  BY <2>3, <2>4, <2>5
<1>5. ASSUME NEW i \in (2 * Layers + 1)..Last
      PROVE  LET j == i - 2 * Layers - 1
             IN  Program[i] = Op(KindOfPhase(j % 4), Layers - (j \div 4)) /\ Layers - (j \div 4) \in 1..Layers
  <2> DEFINE j == i - 2 * Layers - 1
             l == Layers - (j \div 4)
  <2>1. i \in 1..Last /\ ~(i <= 2 * Layers)
    BY <1>1
  <2>2. Program[i] = Backward(l)[(j % 4) + 1]
    BY <1>3, <2>1
  <2>3. j % 4 \in 0..3 /\ l \in 1..Layers
    BY <1>1
  <2> HIDE DEF l
  <2>4. Backward(l) = <<Op("dispatch", l), Op("combine", l), Op("combine_backward", l), Op("dispatch_backward", l)>>
    BY <1>2
  <2> DEFINE k == j % 4
  <2> HIDE DEF k, j
  <2>5. k \in {0, 1, 2, 3} /\ Program[i] = Backward(l)[k + 1]
    BY <2>2, <2>3 DEF k
  <2>6. Program[i] = Op(KindOfPhase(k), l)
    <3>1. CASE k = 0
      BY <2>4, <2>5, <3>1 DEF KindOfPhase
    <3>2. CASE k = 1
      BY <2>4, <2>5, <3>2 DEF KindOfPhase
    <3>3. CASE k = 2
      BY <2>4, <2>5, <3>3 DEF KindOfPhase
    <3>4. CASE k = 3
      BY <2>4, <2>5, <3>4 DEF KindOfPhase
    <3> QED  BY <2>5, <3>1, <3>2, <3>3, <3>4
  <2> QED  BY <2>3, <2>6 DEF k, l, j
<1>6. \A i \in 1..Last :
        Program[i] \in [kind : {"dispatch", "combine", "combine_backward", "dispatch_backward"}, layer : 1..Layers]
  <2> SUFFICES ASSUME NEW i \in 1..Last
               PROVE  Program[i] \in [kind : {"dispatch", "combine", "combine_backward", "dispatch_backward"},
                                      layer : 1..Layers]
    OBVIOUS
  <2>1. \A k : KindOfPhase(k) \in {"dispatch", "combine", "combine_backward", "dispatch_backward"}
    BY DEF KindOfPhase
  <2>2. CASE i <= 2 * Layers
    <3>1. i \in 1..(2 * Layers)
      BY <1>1, <2>2
    <3>2. \E k : \E l \in 1..Layers : Program[i] = Op(KindOfPhase(k), l)
      BY <1>4, <3>1
    <3> QED  BY <2>1, <3>2 DEF Op
  <2>3. CASE ~(i <= 2 * Layers)
    <3>1. i \in (2 * Layers + 1)..Last
      BY <1>1, <2>3
    <3>2. \E k : \E l \in 1..Layers : Program[i] = Op(KindOfPhase(k), l)
      BY <1>5, <3>1
    <3> QED  BY <2>1, <3>2 DEF Op
  <2> QED  BY <2>2, <2>3
<1>7. DOMAIN Program = 1..Last
  BY <1>3
<1>8. Program = [i \in 1..Last |-> Program[i]]
  BY <1>3
<1> DEFINE Ops == [kind : {"dispatch", "combine", "combine_backward", "dispatch_backward"}, layer : 1..Layers]
<1>9. Program \in Seq(Ops) /\ Len(Program) = Last
  <2> HIDE DEF Ops
  <2>1. Program \in [1..Last -> Ops]
    BY <1>6, <1>8 DEF Ops
  <2>2. Program \in Seq(Ops)
    BY <1>1, <2>1
  <2> QED  BY <1>1, <1>7, <2>2
<1> QED  BY <1>1, <1>4, <1>5, <1>9

\* There is a last operation.
LEMMA LastIs == Last \in Nat /\ Last >= 1
BY ProgramIs

\* Every operation but a dispatch follows the one whose rows it is about.
LEMMA Follows ==
    /\ Kind(1) = "dispatch"
    /\ \A i \in 1..Last :
         /\ Kind(i) \in {"dispatch", "combine", "combine_backward", "dispatch_backward"}
         /\ LayerOf(i) \in 1..Layers
         /\ Kind(i) # "dispatch" => i - 1 \in 1..Last /\ LayerOf(i - 1) = LayerOf(i)
         /\ Kind(i) = "combine" => Kind(i - 1) = "dispatch"
         /\ Kind(i) = "combine_backward" => Kind(i - 1) = "combine"
         /\ Kind(i) = "dispatch_backward" => Kind(i - 1) = "combine_backward"
<1> DEFINE Ops == [kind : {"dispatch", "combine", "combine_backward", "dispatch_backward"}, layer : 1..Layers]
           Pred(i) == /\ Kind(i) # "dispatch" => i - 1 \in 1..Last /\ LayerOf(i - 1) = LayerOf(i)
                      /\ Kind(i) = "combine" => Kind(i - 1) = "dispatch"
                      /\ Kind(i) = "combine_backward" => Kind(i - 1) = "combine"
                      /\ Kind(i) = "dispatch_backward" => Kind(i - 1) = "combine_backward"
<1>1. Layers \in Nat /\ Layers >= 1 /\ Last = 6 * Layers
  BY ProgramIs
<1>2. \A i \in 1..(2 * Layers) : Kind(i) = KindOfPhase((i - 1) % 2) /\ LayerOf(i) = (i + 1) \div 2
  <2> SUFFICES ASSUME NEW i \in 1..(2 * Layers)
               PROVE  Kind(i) = KindOfPhase((i - 1) % 2) /\ LayerOf(i) = (i + 1) \div 2
    OBVIOUS
  <2>1. Program[i] = Op(KindOfPhase((i - 1) % 2), (i + 1) \div 2)
    BY ProgramIs
  <2> QED  BY <2>1 DEF Kind, LayerOf, Op
<1>3. \A i \in (2 * Layers + 1)..Last :
         /\ Kind(i) = KindOfPhase((i - 2 * Layers - 1) % 4)
         /\ LayerOf(i) = Layers - ((i - 2 * Layers - 1) \div 4)
  <2> SUFFICES ASSUME NEW i \in (2 * Layers + 1)..Last
               PROVE  /\ Kind(i) = KindOfPhase((i - 2 * Layers - 1) % 4)
                      /\ LayerOf(i) = Layers - ((i - 2 * Layers - 1) \div 4)
    OBVIOUS
  <2>1. Program[i] = Op(KindOfPhase((i - 2 * Layers - 1) % 4), Layers - ((i - 2 * Layers - 1) \div 4))
    BY ProgramIs
  <2> DEFINE k == KindOfPhase((i - 2 * Layers - 1) % 4)
             l == Layers - ((i - 2 * Layers - 1) \div 4)
  <2> HIDE DEF k, l
  <2>2. Program[i] = Op(k, l)
    BY <2>1 DEF k, l
  <2>3. Kind(i) = k /\ LayerOf(i) = l
    BY <2>2 DEF Kind, LayerOf, Op
  <2> QED  BY <2>3 DEF k, l
<1>4. \A i \in 1..Last : /\ Kind(i) \in {"dispatch", "combine", "combine_backward", "dispatch_backward"}
                         /\ LayerOf(i) \in 1..Layers
  <2>1. \A i \in 1..Last : Program[i] \in Ops
    <3>1. Program \in Seq(Ops) /\ Len(Program) = Last
      BY ProgramIs
    <3> HIDE DEF Ops
    <3> QED  BY <3>1, ElementOfSeq
  <2> QED  BY <2>1 DEF Kind, LayerOf
<1>5. Kind(1) = "dispatch"
  <2>1. 1 \in 1..(2 * Layers) /\ (1 - 1) % 2 = 0
    BY <1>1
  <2> QED  BY <1>2, <2>1 DEF KindOfPhase
<1>6. ASSUME NEW i \in 1..(2 * Layers) PROVE Pred(i)
  <2>1. CASE (i - 1) % 2 = 0
    BY <1>2, <2>1 DEF KindOfPhase
  <2>2. CASE (i - 1) % 2 = 1
    <3>1. i - 1 \in 1..(2 * Layers) /\ i - 1 \in 1..Last
          /\ ((i - 1) - 1) % 2 = 0 /\ ((i - 1) + 1) \div 2 = (i + 1) \div 2
      BY <1>1, <2>2
    <3> QED  BY <1>2, <2>2, <3>1 DEF KindOfPhase
  <2> QED  BY <1>1, <2>1, <2>2
<1>7. ASSUME NEW i \in (2 * Layers + 1)..Last PROVE Pred(i)
  <2> DEFINE j == i - 2 * Layers - 1
             k == j % 4
  <2>1. j \in Nat /\ k \in {0, 1, 2, 3} /\ Kind(i) = KindOfPhase(k) /\ LayerOf(i) = Layers - (j \div 4)
    BY <1>1, <1>3
  <2>2. CASE k = 0
    BY <2>1, <2>2 DEF KindOfPhase
  <2>3. CASE k # 0
    <3>1. /\ i - 1 \in (2 * Layers + 1)..Last /\ i - 1 \in 1..Last
          /\ (i - 1) - 2 * Layers - 1 = j - 1
          /\ (j - 1) % 4 = k - 1 /\ (j - 1) \div 4 = j \div 4
      BY <1>1, <2>1, <2>3
    <3>2. Kind(i - 1) = KindOfPhase(k - 1) /\ LayerOf(i - 1) = LayerOf(i)
      BY <1>3, <2>1, <3>1
    <3> HIDE DEF k
    <3> QED  BY <2>1, <2>3, <3>1, <3>2 DEF KindOfPhase
  <2> QED  BY <2>2, <2>3
<1>8. \A i \in 1..Last : Pred(i)
  <2> SUFFICES ASSUME NEW i \in 1..Last PROVE Pred(i)
    OBVIOUS
  <2>1. i \in 1..(2 * Layers) \/ i \in (2 * Layers + 1)..Last
    BY <1>1
  <2> HIDE DEF Pred
  <2> QED  BY <1>6, <1>7, <2>1
<1> QED  BY <1>4, <1>5, <1>8

-----------------------------------------------------------------------------
(* One operation: who writes what where.                                   *)

\* Every operation has a routing.
LEMMA RoutingOf ==
    ASSUME ShapeInv, NEW i \in 1..Last
    PROVE  W(i) \in Routing
<1>1. LayerOf(i) \in 1..Layers
  BY Follows
<1>2. ids \in [1..Layers -> [Ranks -> Routings]]
  BY AsyncEPAssumption DEF ShapeInv
<1> QED  BY <1>1, <1>2 DEF W, Routing

\* What is moved of a row, and that the way back undoes it.
LEMMA Places ==
    ASSUME ShapeInv, NEW i \in 1..Last, NEW s \in Ranks, NEW row \in Rows
    PROVE  LET t == There(i, s, row)
           IN  /\ t = [rank |-> t.rank, row |-> t.row]
               /\ t.rank = Owner(ExpertAt(W(i), s, row)) /\ t.rank \in Ranks
               /\ t.row \in 0..(ActiveRows(Table(W(i)), t.rank) - 1)
               /\ Back(i, t.rank)[t.row] = [rank |-> s, row |-> row]
               /\ ExpertOfRow(Table(W(i)), t.rank, t.row) = ExpertAt(W(i), s, row)
               /\ Writer(i, s, row) \in Ranks /\ Reader(i, s, row) \in Ranks
               /\ Spot(i, s, row) \in 0..(Capacity - 1)
<1> DEFINE t == There(i, s, row)
<1>1. W(i) \in Routing
  BY RoutingOf
<1>2. /\ t = [rank |-> t.rank, row |-> t.row]
      /\ t.rank = Owner(ExpertAt(W(i), s, row)) /\ t.rank \in Ranks
      /\ t.row \in 0..(ActiveRows(Table(W(i)), t.rank) - 1)
      /\ Back(i, t.rank)[t.row] = [rank |-> s, row |-> row]
      /\ ExpertOfRow(Table(W(i)), t.rank, t.row) = ExpertAt(W(i), s, row)
  BY <1>1, ThereAndBack DEF There, Back
<1>3. t.row \in 0..(Capacity - 1) /\ row \in 0..(Capacity - 1)
  BY <1>1, <1>2, Fits
<1> HIDE DEF t
<1>4. Writer(i, s, row) \in {s, t.rank} /\ Reader(i, s, row) \in {s, t.rank} /\ Spot(i, s, row) \in {row, t.row}
  BY DEF Writer, Reader, Spot, t
<1> QED  BY <1>2, <1>3, <1>4 DEF t

\* The same, seen from the receiver.
LEMMA BackPlaces ==
    ASSUME ShapeInv, NEW i \in 1..Last, NEW r \in Ranks, NEW p \in 0..(ActiveRows(Table(W(i)), r) - 1)
    PROVE  LET b == Back(i, r)[p]
           IN  /\ b = [rank |-> b.rank, row |-> b.row]
               /\ b.rank \in Ranks /\ b.row \in Rows
               /\ There(i, b.rank, b.row) = [rank |-> r, row |-> p]
               /\ p \in 0..(Capacity - 1)
<1>1. W(i) \in Routing
  BY RoutingOf
<1> QED  BY <1>1, BackAndThere, Fits DEF Back, There

\* A rank's operation is that of the program.
LEMMA DoingIs ==
    ASSUME NEW r \in Ranks
    PROVE  /\ Doing(r).kind = Kind(at[r]) /\ Layer(r) = LayerOf(at[r])
           /\ ToExperts(r) <=> Forth(at[r])
BY DEF Doing, Kind, Layer, LayerOf, ToExperts, Forth

\* A rank that is not through is in an operation of the program.
LEMMA InProgram ==
    ASSUME ShapeInv, PhaseInv, NEW r \in Ranks, phase[r] # "done"
    PROVE  at[r] \in 1..Last
BY ProgramIs DEF ShapeInv, PhaseInv

\* A rank's order and counts are those of its routing.
LEMMA OrderOf ==
    ASSUME ShapeInv, NEW r \in Ranks, at[r] \in 1..Last
    PROVE  /\ Order(r) \in [Rows -> Rows]
           /\ \A row \in Rows : Order(r)[row] = SlotAt(W(at[r]), r, row)
           /\ Counts(r) = Table(W(at[r]))[r]
           /\ W(at[r])[r] = ids[Layer(r)][r] /\ W(at[r])[r] \in Routings
<1>1. W(at[r]) \in Routing /\ W(at[r])[r] = ids[Layer(r)][r]
  BY RoutingOf, DoingIs DEF W
<1>2. W(at[r])[r] \in Routings
  BY <1>1 DEF Routing
<1> QED  BY <1>1, <1>2, OrderIs DEF Order, Counts, SlotAt, Table

\* What a rank sends.
LEMMA SentIs ==
    ASSUME ShapeInv, PhaseInv, TensorInv, NEW r \in Ranks, phase[r] = "rows"
    PROVE  Sent(r) = IF Forth(at[r]) THEN [row \in Rows |-> RowValue(at[r], r, row)] ELSE HomeRows(at[r], r)
<1> DEFINE i == at[r]
<1>1. i \in 1..Last
  BY InProgram
<1>2. /\ Order(r) \in [Rows -> Rows]
      /\ \A row \in Rows : Order(r)[row] = SlotAt(W(i), r, row)
  BY <1>1, OrderOf
<1>3. Doing(r).kind = Kind(i) /\ Layer(r) = LayerOf(i)
  BY DoingIs
<1>4. Kind(i) \in {"dispatch", "combine", "combine_backward", "dispatch_backward"}
  BY <1>1, Follows
<1> HIDE DEF i
<1>5. CASE Kind(i) = "dispatch"
  <2>1. Sent(r) = [row \in Rows |-> Token(Layer(r), r, TokenOf(Order(r)[row]))]
    BY <1>3, <1>5 DEF Sent
  <2>2. \A row \in Rows : Token(Layer(r), r, TokenOf(Order(r)[row])) = RowValue(i, r, row)
    BY <1>2, <1>3, <1>5 DEF RowValue, TokenAt
  <2>3. Forth(i)
    BY <1>5 DEF Forth
  <2> QED  BY <2>1, <2>2, <2>3 DEF i
<1>6. CASE Kind(i) = "combine_backward"
  <2> DEFINE grad == [t \in 0..(Tokens - 1) |-> OutGrad(Layer(r), r, t)]
  <2>1. Sent(r) = ExpandGrad(grad, Order(r))
    BY <1>3, <1>6 DEF Sent
  <2>2. ExpandGrad(grad, Order(r)) =
          [row \in Rows |-> [slot |-> Order(r)[row], is |-> grad[TokenOf(Order(r)[row])]]]
    BY DEF ExpandGrad
  <2>3. ASSUME NEW row \in Rows
        PROVE  [slot |-> Order(r)[row], is |-> grad[TokenOf(Order(r)[row])]] = RowValue(i, r, row)
    <3>1. Order(r)[row] \in Rows /\ Order(r)[row] = SlotAt(W(i), r, row)
      BY <1>2
    <3>2. grad[TokenOf(Order(r)[row])] = OutGrad(LayerOf(i), r, TokenOf(SlotAt(W(i), r, row)))
      BY <1>3, <3>1, TokenIs
    <3>3. RowValue(i, r, row) = GradAt(i, r, row)
      BY <1>6 DEF RowValue
    <3> QED  BY <3>1, <3>2, <3>3 DEF GradAt
  <2>4. Forth(i)
    BY <1>6 DEF Forth
  <2> HIDE DEF grad
  <2> QED  BY <2>1, <2>2, <2>3, <2>4 DEF i
<1>7. CASE Kind(i) \notin {"dispatch", "combine_backward"}
  <2>1. Sent(r) = tensor[r]
    BY <1>3, <1>7 DEF Sent
  <2>2. ~Forth(i)
    BY <1>7 DEF Forth
  <2> QED  BY <1>1, <2>1, <2>2 DEF TensorInv, i
<1> QED  BY <1>4, <1>5, <1>6, <1>7

\* What a rank computed from the counts it read.
LEMMA TargetIs ==
    ASSUME ShapeInv, PhaseInv, MetaInv, NEW r \in Ranks, phase[r] \in {"rows", "rowsWait", "use"}
    PROVE  /\ Target(r) = IF Forth(at[r]) THEN DispatchTarget(Table(W(at[r])), r) ELSE Back(at[r], r)
           /\ meta[r].combine = Back(at[r], r)
           /\ Active(r) = 0..(ActiveRows(Table(W(at[r])), r) - 1)
           /\ \A p \in Active(r) : meta[r].expert[p] = ExpertOfRow(Table(W(at[r])), r, p)
<1>1. meta[r] = DirectMetadata(Table(W(at[r])), r)
  BY InProgram DEF MetaInv
<1>2. /\ meta[r].dispatch = DispatchTarget(Table(W(at[r])), r)
      /\ meta[r].combine = CombineTarget(Table(W(at[r])), r)
      /\ meta[r].expert = [p \in 0..(ActiveRows(Table(W(at[r])), r) - 1) |-> ExpertOfRow(Table(W(at[r])), r, p)]
  BY <1>1 DEF DirectMetadata
<1>3. DOMAIN CombineTarget(Table(W(at[r])), r) = 0..(ActiveRows(Table(W(at[r])), r) - 1)
  BY DEF CombineTarget
<1> QED  BY <1>2, <1>3, DoingIs DEF Target, Back, Active

\* What a write leaves in a buffer of the peer: the rows of the sender for it, and
\* nothing else is touched.
LEMMA WrittenIs ==
    ASSUME ShapeInv, PhaseInv, MetaInv, TensorInv,
           NEW r \in Ranks, NEW peer \in Ranks, phase[r] = "rows",
           NEW buf, IsBuffer(buf)
    PROVE  /\ IsBuffer(Written(buf, r, peer))
           /\ \A s \in Ranks, row \in Rows : Reader(at[r], s, row) = peer =>
                Written(buf, r, peer)[Spot(at[r], s, row)] =
                  IF Writer(at[r], s, row) = r THEN RowValue(at[r], s, row) ELSE buf[Spot(at[r], s, row)]
<1> DEFINE i == at[r]
           rows == Sent(r)
           target == Target(r)
           At(p) == {q \in DOMAIN rows : target[q] = [rank |-> peer, row |-> p]}
           new == Written(buf, r, peer)
<1>1. i \in 1..Last
  BY InProgram
<1>2. rows = IF Forth(i) THEN [row \in Rows |-> RowValue(i, r, row)] ELSE HomeRows(i, r)
  BY SentIs
<1>3. target = IF Forth(i) THEN DispatchTarget(Table(W(i)), r) ELSE Back(i, r)
  BY TargetIs
<1> HIDE DEF rows, target, i
<1>4. DOMAIN buf = 0..(Capacity - 1)
  BY DEF IsBuffer
<1>5. new = [p \in 0..(Capacity - 1) |-> IF At(p) = {} THEN buf[p] ELSE rows[CHOOSE q \in At(p) : TRUE]]
  BY <1>4 DEF Written, rows, target
<1> HIDE DEF At, new
<1>6. ASSUME NEW s \in Ranks, NEW row \in Rows, Reader(i, s, row) = peer
      PROVE  new[Spot(i, s, row)] = IF Writer(i, s, row) = r THEN RowValue(i, s, row) ELSE buf[Spot(i, s, row)]
  <2> DEFINE p == Spot(i, s, row)
             t == There(i, s, row)
  <2>1. /\ t = [rank |-> t.rank, row |-> t.row]
        /\ t.rank \in Ranks /\ t.row \in 0..(ActiveRows(Table(W(i)), t.rank) - 1)
        /\ Back(i, t.rank)[t.row] = [rank |-> s, row |-> row]
        /\ p \in 0..(Capacity - 1)
    BY <1>1, Places
  <2>2. new[p] = IF At(p) = {} THEN buf[p] ELSE rows[CHOOSE q \in At(p) : TRUE]
    BY <1>5, <2>1
  <2>3. CASE Forth(i)
    <3>1. p = t.row /\ peer = t.rank /\ Writer(i, s, row) = s
      BY <1>6, <2>3 DEF Spot, Reader, Writer
    <3>2. DOMAIN rows = Rows /\ \A q \in Rows : rows[q] = RowValue(i, r, q)
      BY <1>2, <2>3
    <3>3. \A q \in Rows : target[q] = There(i, r, q)
      BY <1>3, <2>3 DEF There
    <3>4. ASSUME NEW q \in At(p) PROVE q \in Rows /\ r = s /\ q = row
      <4>1. q \in Rows /\ There(i, r, q) = [rank |-> peer, row |-> p]
        BY <3>2, <3>3 DEF At
      <4>2. Back(i, peer)[p] = [rank |-> r, row |-> q]
        BY <1>1, <4>1, Places
      <4>3. [rank |-> r, row |-> q] = [rank |-> s, row |-> row]
        BY <2>1, <3>1, <4>2
      <4> QED  BY <4>1, <4>3
    <3>5. CASE s = r
      <4>1. row \in At(p)
        BY <2>1, <3>1, <3>2, <3>3, <3>5 DEF At
      <4>2. (CHOOSE q \in At(p) : TRUE) = row
        BY <3>4, <4>1
      <4> QED  BY <2>2, <3>1, <3>2, <3>5, <4>1, <4>2
    <3>6. CASE s # r
      <4>1. At(p) = {}
        BY <3>4, <3>6
      <4> QED  BY <2>2, <3>1, <3>6, <4>1
    <3> QED  BY <3>5, <3>6
  <2>4. CASE ~Forth(i)
    <3>1. p = row /\ peer = s /\ Writer(i, s, row) = t.rank
      BY <1>6, <2>4 DEF Spot, Reader, Writer
    <3> DEFINE A == ActiveRows(Table(W(i)), r)
    <3>2. /\ DOMAIN rows = 0..(A - 1)
          /\ \A q \in 0..(A - 1) : rows[q] = RowValue(i, Back(i, r)[q].rank, Back(i, r)[q].row)
      BY <1>2, <2>4 DEF HomeRows
    <3>3. target = Back(i, r)
      BY <1>3, <2>4
    <3>4. ASSUME NEW q \in At(p) PROVE q \in 0..(A - 1) /\ t.rank = r /\ q = t.row
      <4>1. q \in 0..(A - 1) /\ Back(i, r)[q] = [rank |-> s, row |-> row]
        BY <3>1, <3>2, <3>3 DEF At
      <4>2. Back(i, r)[q].rank = s /\ Back(i, r)[q].row = row
        BY <4>1
      <4>3. t = [rank |-> r, row |-> q]
        BY <1>1, <4>1, <4>2, BackPlaces
      <4> QED  BY <4>1, <4>3
    <3>5. CASE t.rank = r
      <4>1. t.row \in 0..(A - 1) /\ Back(i, r)[t.row] = [rank |-> s, row |-> row]
        BY <2>1, <3>5
      <4>2. t.row \in At(p)
        BY <3>1, <3>2, <3>3, <4>1 DEF At
      <4>3. (CHOOSE q \in At(p) : TRUE) = t.row
        BY <3>4, <4>2
      <4>4. rows[t.row] = RowValue(i, s, row)
        BY <3>2, <4>1
      <4> QED  BY <2>2, <3>1, <3>5, <4>2, <4>3, <4>4
    <3>6. CASE t.rank # r
      <4>1. At(p) = {}
        BY <3>4, <3>6
      <4> QED  BY <2>2, <3>1, <3>6, <4>1
    <3> QED  BY <3>5, <3>6
  <2> QED  BY <2>3, <2>4
<1>7. new = [p \in 0..(Capacity - 1) |-> new[p]]
  BY <1>5
<1> QED  BY <1>6, <1>7 DEF new, i, IsBuffer

-----------------------------------------------------------------------------
(* The buffers are used in turn.                                           *)

\* There are two buffers at least.
LEMMA BufferCountIs == BufferCount \in Nat /\ BufferCount >= 2
BY AsyncEPAssumption

\* The buffer before the next one is the one of this operation.
LEMMA TurnBack ==
    ASSUME NEW n \in Int
    PROVE  ((n % BufferCount) + BufferCount - 1) % BufferCount = (n - 1) % BufferCount
<1> DEFINE B == BufferCount
           q == n \div B
           m == n % B
<1>1. B \in Nat /\ B >= 2 /\ B > 0
  BY BufferCountIs
<1> HIDE DEF B
<1>2. q \in Int /\ m \in 0..(B - 1) /\ n = B * q + m
  BY <1>1, QuotientIs
<1> HIDE DEF q, m
<1>3. CASE m >= 1
  <2>1. m - 1 \in 0..(B - 1) /\ B * q \in Int /\ B * 1 = B
    BY <1>1, <1>2, <1>3
  <2>2. (B * q + (m - 1)) % B = m - 1 /\ (B * 1 + (m - 1)) % B = m - 1
    BY <1>1, <1>2, <2>1, QuotientUnique
  <2>3. n - 1 = B * q + (m - 1) /\ m + B - 1 = B * 1 + (m - 1)
    BY <1>1, <1>2, <2>1
  <2> QED  BY <2>2, <2>3 DEF m, B
<1>4. CASE ~(m >= 1)
  <2>1. m = 0 /\ B - 1 \in 0..(B - 1) /\ B * q \in Int /\ B * (q - 1) = B * q - B /\ B * 0 = 0 /\ q - 1 \in Int
    <3>1. m = 0
      BY <1>2, <1>4
    <3>2. B - 1 \in 0..(B - 1) /\ B * q \in Int /\ B * 0 = 0 /\ q - 1 \in Int
      BY <1>1, <1>2
    <3>3. B * (q - 1) = B * q - B
      <4>1. B \in Int /\ q \in Int
        BY <1>1, <1>2
      <4> QED  BY ONLY <4>1
    <3> QED  BY <3>1, <3>2, <3>3
  <2>2. (B * (q - 1) + (B - 1)) % B = B - 1 /\ (B * 0 + (B - 1)) % B = B - 1
    <3> DEFINE k == q - 1
               i == B - 1
    <3>1. k \in Int /\ i \in 0..(B - 1) /\ 0 \in Int
      BY <2>1
    <3> HIDE DEF k, i
    <3>2. (B * k + i) % B = i /\ (B * 0 + i) % B = i
      BY <1>1, <3>1, QuotientUnique
    <3> QED  BY <3>2 DEF k, i
  <2>3. n - 1 = B * (q - 1) + (B - 1) /\ m + B - 1 = B * 0 + (B - 1)
    BY <1>1, <1>2, <2>1
  <2> QED  BY <2>2, <2>3 DEF m, B
<1> QED  BY <1>3, <1>4

\* And the one after it is that of the next.
LEMMA TurnOn ==
    ASSUME NEW n \in Int
    PROVE  ((n % BufferCount) + 1) % BufferCount = (n + 1) % BufferCount
<1> DEFINE B == BufferCount
           q == n \div B
           m == n % B
<1>1. B \in Nat /\ B >= 2 /\ B > 0
  BY BufferCountIs
<1> HIDE DEF B
<1>2. q \in Int /\ m \in 0..(B - 1) /\ n = B * q + m
  BY <1>1, QuotientIs
<1> HIDE DEF q, m
<1>3. CASE m + 1 < B
  <2>1. m + 1 \in 0..(B - 1) /\ B * q \in Int /\ B * 0 = 0
    BY <1>1, <1>2, <1>3
  <2>2. (B * q + (m + 1)) % B = m + 1 /\ (B * 0 + (m + 1)) % B = m + 1
    BY <1>1, <1>2, <2>1, QuotientUnique
  <2>3. n + 1 = B * q + (m + 1) /\ m + 1 = B * 0 + (m + 1)
    BY <1>1, <1>2, <2>1
  <2> QED  BY <2>2, <2>3 DEF m, B
<1>4. CASE ~(m + 1 < B)
  <2>1. m + 1 = B /\ 0 \in 0..(B - 1) /\ B * q \in Int /\ B * (q + 1) = B * q + B /\ B * 1 = B /\ q + 1 \in Int
    BY <1>1, <1>2, <1>4
  <2>2. (B * (q + 1) + 0) % B = 0 /\ (B * 1 + 0) % B = 0
    BY <1>1, <1>2, <2>1, QuotientUnique
  <2>3. n + 1 = B * (q + 1) + 0 /\ m + 1 = B * 1 + 0
    BY <1>1, <1>2, <2>1
  <2> QED  BY <2>2, <2>3 DEF m, B
<1> QED  BY <1>3, <1>4

\* Two operations that use one buffer are a round apart.
LEMMA RoundApart ==
    ASSUME NEW i \in Int, NEW j \in Int, i < j, i % BufferCount = j % BufferCount
    PROVE  i + BufferCount <= j
<1> DEFINE B == BufferCount
           q == i \div B
           k == j \div B
           m == i % B
<1>1. B \in Nat /\ B > 0
  BY BufferCountIs
<1> HIDE DEF B
<1>2. q \in Int /\ m \in 0..(B - 1) /\ i = B * q + m
  BY <1>1, QuotientIs
<1>3. k \in Int /\ j = B * k + m
  <2>1. j % B = m
    BY DEF B
  <2>2. k \in Int /\ j = B * k + (j % B)
    BY <1>1, QuotientIs
  <2> QED  BY <2>1, <2>2
<1> HIDE DEF q, k, m
<1>4. B * q \in Int /\ B * k \in Int
  BY <1>1, <1>2, <1>3
<1>5. q < k
  <2>1. k < q => B * k + B <= B * q
    BY <1>1, <1>2, <1>3, MultipleGrows
  <2>2. k = q => j = i
    BY <1>2, <1>3
  <2> QED  BY <1>1, <1>2, <1>3, <1>4, <2>1, <2>2
<1>6. B * q + B <= B * k
  BY <1>1, <1>2, <1>3, <1>5, MultipleGrows
<1> QED  BY <1>1, <1>2, <1>3, <1>4, <1>6 DEF B

\* Every operation's buffer is one of the buffers.
LEMMA BufferOf ==
    ASSUME NEW n \in Int
    PROVE  n % BufferCount \in Buffers
<1>1. n % BufferCount \in 0..(BufferCount - 1)
  BY BufferCountIs, QuotientIs
<1> QED  BY <1>1 DEF Buffers

-----------------------------------------------------------------------------
(* What a handle has counted.                                              *)

\* As many arrivals as after operation n means operation n is done.
LEMMA Reached ==
    ASSUME NEW f, \A k \in Nat : f[k] \in Nat, NEW m \in Nat, NEW n \in Nat, n >= 1, f[n - 1] >= 1,
           PrefixSum(f, m) >= PrefixSum(f, n)
    PROVE  m >= n
<1> SUFFICES ASSUME m < n PROVE FALSE
  OBVIOUS
<1> DEFINE k == n - 1
<1>1. k \in Nat /\ k + 1 = n /\ m <= k /\ m \in 0..n /\ k \in 0..n
  OBVIOUS
<1>2. PrefixSum(f, k + 1) = PrefixSum(f, k) + f[k]
  BY <1>1, SumStep
<1>3. \A i \in 0..n : PrefixSum(f, i) \in Nat
  BY SumsGrow
<1>4. m < k => PrefixSum(f, m) + f[m] <= PrefixSum(f, k)
  BY <1>1, SumsGrow
<1>5. PrefixSum(f, m) <= PrefixSum(f, k)
  <2>1. PrefixSum(f, m) \in Nat /\ PrefixSum(f, k) \in Nat /\ f[m] \in Nat
    BY <1>1, <1>3
  <2>2. CASE m = k
    BY <2>1, <2>2
  <2>3. CASE m < k
    BY <1>4, <2>1, <2>3
  <2> QED  BY <1>1, <2>2, <2>3
<1>6. PrefixSum(f, m) \in Nat /\ PrefixSum(f, k) \in Nat /\ f[k] \in Nat
  BY <1>1, <1>3
<1> QED  BY <1>1, <1>2, <1>5, <1>6

\* An operation arrives at its own handle, once.
LEMMA CountersAre ==
    /\ \A b : \A k \in Nat : ByBuffer(b)[k] = (IF k % BufferCount = b THEN 1 ELSE 0) /\ ByBuffer(b)[k] \in Nat
    /\ \A k \in Nat : /\ ByCounts[k] = IF k < Last /\ Kind(k + 1) = "dispatch" THEN 1 ELSE 0
                      /\ ByCounts[k] \in Nat
BY DEF ByBuffer, ByCounts

-----------------------------------------------------------------------------
(* What a rank reads.                                                      *)

\* How far a rank is, and what it has written by then.
LEMMA ProgressIs ==
    ASSUME ShapeInv, NEW r \in Ranks
    PROVE  /\ at[r] \in Nat /\ at[r] >= 1
           /\ Signalled(r) \in Nat /\ Passed(r) \in Nat /\ CountsSignalled(r) \in Nat
           /\ at[r] - 1 <= Passed(r) /\ Passed(r) <= Signalled(r) /\ Signalled(r) <= at[r]
           /\ \A i \in Nat, q \in Ranks : Wrote(r, i, q) => i - 1 <= Passed(r)
           /\ \A i \in Nat, q \in Ranks : i >= 1 /\ i <= Signalled(r) => Wrote(r, i, q)
<1>1. at[r] \in 1..(Last + 1) /\ Last \in Nat
  BY ProgramIs DEF ShapeInv
<1>2. at[r] \in Nat /\ at[r] >= 1
  BY <1>1
<1>3. /\ Signalled(r) \in {at[r], at[r] - 1} /\ Passed(r) \in {at[r], at[r] - 1}
      /\ CountsSignalled(r) \in {at[r], at[r] - 1}
      /\ Signalled(r) = at[r] <=> phase[r] \in {"rowsWait", "use"}
      /\ Passed(r) = at[r] <=> phase[r] = "use"
  BY <1>2 DEF Signalled, Passed, CountsSignalled
<1>4. /\ Signalled(r) \in Nat /\ Passed(r) \in Nat /\ CountsSignalled(r) \in Nat
      /\ at[r] - 1 <= Passed(r) /\ Passed(r) <= Signalled(r) /\ Signalled(r) <= at[r]
  BY <1>2, <1>3
<1>5. \A i \in Nat, q \in Ranks : Wrote(r, i, q) => i <= at[r]
  BY <1>2 DEF Wrote
<1>6. \A i \in Nat, q \in Ranks : i >= 1 /\ i <= Signalled(r) => Wrote(r, i, q)
  BY <1>2, <1>3 DEF Wrote
<1> QED  BY <1>2, <1>4, <1>5, <1>6

\* What everybody has announced stays for a round.
LEMMA Intact ==
    ASSUME ShapeInv, GateInv, DataInv, NEW i \in 1..Last, NEW r \in Ranks,
           i <= Passed(r), Signalled(r) <= i + BufferCount - 2,
           NEW s \in Ranks, NEW row \in Rows, Reader(i, s, row) = r
    PROVE  hidden[r][(i - 1) % BufferCount][Spot(i, s, row)] = RowValue(i, s, row)
<1>1. Writer(i, s, row) \in Ranks
  BY Places
<1>2. i \in Nat /\ i >= 1 /\ BufferCount \in Nat /\ i + BufferCount \in Nat
  BY ProgramIs, BufferCountIs
<1>3. \A z \in Ranks : Passed(r) <= Signalled(z) /\ Passed(z) <= Signalled(r)
  BY DEF GateInv
<1>4. Wrote(Writer(i, s, row), i, r)
  <2> DEFINE w == Writer(i, s, row)
  <2> HIDE DEF w
  <2>1. w \in Ranks /\ Signalled(w) \in Nat /\ Passed(r) \in Nat
    BY <1>1, ProgressIs DEF w
  <2>2. i <= Signalled(w)
    BY <1>2, <1>3, <2>1
  <2> QED  BY <1>2, <2>1, <2>2, ProgressIs DEF w
<1>5. ASSUME NEW z \in Ranks, Wrote(z, i + BufferCount, r) PROVE FALSE
  <2>1. i + BufferCount - 1 <= Passed(z)
    BY <1>2, <1>5, ProgressIs
  <2>2. Passed(z) \in Nat /\ Signalled(r) \in Nat /\ Passed(z) <= Signalled(r)
    BY <1>3, ProgressIs
  <2> QED  BY <1>2, <2>1, <2>2
<1> QED  BY <1>1, <1>4, <1>5 DEF DataInv

\* A rank writes, and then reads, its operation's buffer.
LEMMA BufferIs ==
    ASSUME ShapeInv, CountInv, NEW r \in Ranks
    PROVE  /\ phase[r] \in {"rowsWait", "use"} => Buffer(r) = (at[r] - 1) % BufferCount
           /\ phase[r] = "rows" => index[r] = (at[r] - 1) % BufferCount
<1>1. index[r] = Signalled(r) % BufferCount
  BY DEF CountInv
<1>2. CASE phase[r] \in {"rowsWait", "use"}
  <2>1. Signalled(r) = at[r] /\ at[r] \in Int
    BY <1>2, ProgressIs DEF Signalled
  <2> QED  BY <1>1, <1>2, <2>1, TurnBack DEF Buffer
<1>3. CASE phase[r] = "rows"
  BY <1>1, <1>3 DEF Signalled
<1> QED  BY <1>2, <1>3

\* What a copy delivered, in the operation that made it.
LEMMA DeliveredIs ==
    ASSUME ShapeInv, PhaseInv, CountInv, GateInv, DataInv, NEW r \in Ranks, phase[r] = "use",
           NEW s \in Ranks, NEW row \in Rows, Reader(at[r], s, row) = r
    PROVE  Delivered(r)[Spot(at[r], s, row)] = RowValue(at[r], s, row)
<1>1. at[r] \in 1..Last
  BY InProgram
<1>2. Buffer(r) = (at[r] - 1) % BufferCount
  BY BufferIs
<1>3. Passed(r) = at[r] /\ Signalled(r) = at[r]
  BY DEF Passed, Signalled
<1>4. at[r] <= Passed(r) /\ Signalled(r) <= at[r] + BufferCount - 2
  BY <1>1, <1>3, BufferCountIs
<1> QED  BY <1>1, <1>2, <1>4, Intact DEF Delivered

\* The experts find the rows of the slots routed to them ...
LEMMA ExpertsGet ==
    ASSUME IndInv, NEW r \in Ranks, phase[r] = "use", Forth(at[r]), NEW p \in Active(r)
    PROVE  LET b == Back(at[r], r)[p]
           IN  /\ b = [rank |-> b.rank, row |-> b.row] /\ b.rank \in Ranks /\ b.row \in Rows
               /\ There(at[r], b.rank, b.row) = [rank |-> r, row |-> p]
               /\ Delivered(r)[p] = RowValue(at[r], b.rank, b.row)
               /\ meta[r].expert[p] = ExpertAt(W(at[r]), b.rank, b.row)
<1> DEFINE i == at[r]
           b == Back(i, r)[p]
<1> USE DEF IndInv
<1>1. i \in 1..Last
  BY InProgram
<1>2. p \in 0..(ActiveRows(Table(W(i)), r) - 1) /\ meta[r].expert[p] = ExpertOfRow(Table(W(i)), r, p)
  BY TargetIs
<1>3. /\ b = [rank |-> b.rank, row |-> b.row] /\ b.rank \in Ranks /\ b.row \in Rows
      /\ There(i, b.rank, b.row) = [rank |-> r, row |-> p]
  BY <1>1, <1>2, BackPlaces
<1> HIDE DEF b
<1>4. There(i, b.rank, b.row).rank = r /\ There(i, b.rank, b.row).row = p
  BY <1>3
<1>5. Reader(i, b.rank, b.row) = r /\ Spot(i, b.rank, b.row) = p
  BY <1>4 DEF Reader, Spot
<1>6. Delivered(r)[p] = RowValue(i, b.rank, b.row)
  BY <1>3, <1>5, DeliveredIs
<1>7. meta[r].expert[p] = ExpertAt(W(i), b.rank, b.row)
  BY <1>1, <1>2, <1>3, <1>4, Places
<1> QED  BY <1>3, <1>6, <1>7 DEF b

\* ... and a rank finds the rows of its own slots.
LEMMA OwnersGet ==
    ASSUME IndInv, NEW r \in Ranks, phase[r] = "use", ~Forth(at[r]), NEW row \in Rows
    PROVE  Delivered(r)[row] = RowValue(at[r], r, row)
<1>1. Reader(at[r], r, row) = r /\ Spot(at[r], r, row) = row
  BY DEF Reader, Spot
<1> QED  BY <1>1, DeliveredIs DEF IndInv

-----------------------------------------------------------------------------
(* What the invariant says of the properties.                              *)

\* The slots routed to the experts of r are those its received rows come from.
LEMMA MineIs ==
    ASSUME IndInv, NEW r \in Ranks, at[r] \in 1..Last
    PROVE  LET i == at[r]
               A == ActiveRows(Table(W(i)), r)
               b(p) == Back(i, r)[p]
           IN  /\ \A p \in 0..(A - 1) : <<b(p).rank, SlotAt(W(i), b(p).rank, b(p).row)>> \in Mine(r)
               /\ \A g \in Mine(r) : \E p \in 0..(A - 1) :
                     b(p).rank = g[1] /\ SlotAt(W(i), b(p).rank, b(p).row) = g[2]
<1> DEFINE i == at[r]
           A == ActiveRows(Table(W(i)), r)
           b(p) == Back(i, r)[p]
<1> USE DEF IndInv
<1>1. W(i) \in Routing /\ W(i) = ids[Layer(r)]
  BY RoutingOf, DoingIs DEF W
<1>2. \A s \in Ranks : W(i)[s] \in Routings
  BY <1>1 DEF Routing
<1>3. ASSUME NEW p \in 0..(A - 1)
      PROVE  <<b(p).rank, SlotAt(W(i), b(p).rank, b(p).row)>> \in Mine(r)
  <2>1. /\ b(p).rank \in Ranks /\ b(p).row \in Rows
        /\ There(i, b(p).rank, b(p).row) = [rank |-> r, row |-> p]
    BY BackPlaces
  <2> DEFINE s == b(p).rank
             row == b(p).row
  <2> HIDE DEF b
  <2>2. There(i, s, row).rank = r
    BY <2>1
  <2>3. Owner(ExpertAt(W(i), s, row)) = r
    BY <2>1, <2>2, Places
  <2>4. SlotAt(W(i), s, row) \in Rows
    BY <1>2, <2>1, OrderIs DEF SlotAt
  <2> QED  BY <1>1, <2>1, <2>3, <2>4 DEF Mine, ExpertAt
<1>4. ASSUME NEW g \in Mine(r)
      PROVE  \E p \in 0..(A - 1) : b(p).rank = g[1] /\ SlotAt(W(i), b(p).rank, b(p).row) = g[2]
  <2>1. g[1] \in Ranks /\ g[2] \in Rows /\ Owner(W(i)[g[1]][g[2]]) = r
    BY <1>1 DEF Mine
  <2> DEFINE s == g[1]
             n == g[2]
             row == Place(W(i)[s], n)
             p == There(i, s, row).row
  <2>2. row \in Rows /\ SlotAt(W(i), s, row) = n
    BY <1>2, <2>1, OrderIs DEF SlotAt
  <2> DEFINE t == There(i, s, row)
  <2> HIDE DEF row, s, n
  <2>3. s \in Ranks /\ ExpertAt(W(i), s, row) = W(i)[g[1]][g[2]]
    BY <2>1, <2>2 DEF ExpertAt, s, n
  <2>4. /\ t.rank = r
        /\ t.row \in 0..(ActiveRows(Table(W(i)), t.rank) - 1)
        /\ Back(i, t.rank)[t.row] = [rank |-> s, row |-> row]
    BY <2>1, <2>2, <2>3, Places
  <2>5. p \in 0..(A - 1) /\ b(p) = [rank |-> s, row |-> row]
    BY <2>4
  <2> HIDE DEF p, b
  <2>6. b(p).rank = s /\ b(p).row = row
    BY <2>5
  <2> QED  BY <2>2, <2>5, <2>6 DEF s, n
<1> QED  BY <1>3, <1>4

\* What comes home, slot by slot.
LEMMA ReducedIs ==
    ASSUME IndInv, NEW r \in Ranks, phase[r] = "use", ~Forth(at[r])
    PROVE  Reduced(r) =
             [t \in 0..(Tokens - 1) |->
                {[slot |-> n, is |-> RowValue(at[r], r, Place(W(at[r])[r], n))] : n \in {q \in Rows : TokenOf(q) = t}}]
<1> DEFINE i == at[r]
           w == W(i)[r]
           routed == [row \in Rows |-> Delivered(r)[row]]
           rowOf == Inverted(Order(r))
<1> USE DEF IndInv
<1>1. i \in 1..Last
  BY InProgram
<1>2. w \in Routings /\ Order(r) = ExpertOrder(w)
  BY <1>1, OrderOf DEF Order
<1>3. \A n \in Rows : rowOf[n] = Place(w, n) /\ Place(w, n) \in Rows
  BY <1>2, OrderIs
<1>4. \A n \in Rows : routed[rowOf[n]] = RowValue(i, r, Place(w, n))
  BY <1>3, OwnersGet
<1>5. Reduced(r) = [t \in 0..(Tokens - 1) |->
                      {[slot |-> n, is |-> routed[rowOf[n]]] : n \in {q \in Rows : TokenOf(q) = t}}]
  BY DEF Reduced, ReduceSlots
<1> HIDE DEF routed, rowOf, w, i
<1>6. \A t : {[slot |-> n, is |-> routed[rowOf[n]]] : n \in {q \in Rows : TokenOf(q) = t}}
             = {[slot |-> n, is |-> RowValue(i, r, Place(w, n))] : n \in {q \in Rows : TokenOf(q) = t}}
  BY <1>4
<1> QED  BY <1>5, <1>6 DEF i, w

\* The sorted place of an own slot.
LEMMA OwnSlot ==
    ASSUME ShapeInv, NEW i \in 1..Last, NEW r \in Ranks, NEW n \in Rows
    PROVE  /\ Place(W(i)[r], n) \in Rows
           /\ SlotAt(W(i), r, Place(W(i)[r], n)) = n
           /\ ExpertAt(W(i), r, Place(W(i)[r], n)) = W(i)[r][n]
<1>1. W(i)[r] \in Routings
  BY RoutingOf DEF Routing
<1> QED  BY <1>1, OrderIs DEF SlotAt, ExpertAt

\* What is delivered gives what the layer asks for.
LEMMA ExchangesFollow ==
    ASSUME IndInv
    PROVE  ExchangesDeliver
<1> SUFFICES ASSUME NEW r \in Ranks, phase[r] = "use"
             PROVE  /\ Using(r, "dispatch") =>
                         Range(ExpertForward(r)) =
                           {ExpertOut(ids[Layer(r)][g[1]][g[2]], Token(Layer(r), g[1], TokenOf(g[2]))) : g \in Mine(r)}
                    /\ Using(r, "combine") =>
                         Reduced(r) = LocalCombined(ids[Layer(r)][r],
                                        [t \in 0..(Tokens - 1) |-> Token(Layer(r), r, t)])
                    /\ Using(r, "combine_backward") =>
                         Range(ExpertBackward(r)) =
                           {ExpertGrad(ids[Layer(r)][g[1]][g[2]],
                                       [slot |-> g[2], is |-> OutGrad(Layer(r), g[1], TokenOf(g[2]))]) : g \in Mine(r)}
                    /\ Using(r, "dispatch_backward") =>
                         Reduced(r) = [t \in 0..(Tokens - 1) |->
                           {[slot |-> n, is |-> ExpertGrad(ids[Layer(r)][r][n],
                                                           [slot |-> n, is |-> OutGrad(Layer(r), r, t)])] :
                              n \in {q \in Rows : TokenOf(q) = t}}]
  BY DEF ExchangesDeliver, Using
<1> DEFINE i == at[r]
           l == LayerOf(i)
           A == ActiveRows(Table(W(i)), r)
           b(p) == Back(i, r)[p]
<1>1. i \in 1..Last
  BY InProgram DEF IndInv
<1>2. Layer(r) = l /\ Doing(r).kind = Kind(i) /\ W(i) = ids[l]
  BY DoingIs DEF W
<1>3. Active(r) = 0..(A - 1)
  BY TargetIs DEF IndInv
<1>4. \A p \in 0..(A - 1) : /\ b(p).rank \in Ranks /\ b(p).row \in Rows
                            /\ <<b(p).rank, SlotAt(W(i), b(p).rank, b(p).row)>> \in Mine(r)
  BY <1>1, MineIs, BackPlaces DEF IndInv
<1>5. \A g \in Mine(r) : \E p \in 0..(A - 1) :
         b(p).rank = g[1] /\ SlotAt(W(i), b(p).rank, b(p).row) = g[2]
  BY <1>1, MineIs
<1> HIDE DEF b, A
<1>6. ASSUME Using(r, "dispatch")
      PROVE  Range(ExpertForward(r)) =
               {ExpertOut(ids[Layer(r)][g[1]][g[2]], Token(Layer(r), g[1], TokenOf(g[2]))) : g \in Mine(r)}
  <2> DEFINE out(g) == ExpertOut(ids[Layer(r)][g[1]][g[2]], Token(Layer(r), g[1], TokenOf(g[2])))
             slot(p) == SlotAt(W(i), b(p).rank, b(p).row)
  <2>1. Kind(i) = "dispatch" /\ Forth(i)
    BY <1>2, <1>6 DEF Using, Forth
  <2>2. ASSUME NEW p \in 0..(A - 1) PROVE ExpertForward(r)[p] = out(<<b(p).rank, slot(p)>>)
    <3>1. /\ Delivered(r)[p] = RowValue(i, b(p).rank, b(p).row)
          /\ meta[r].expert[p] = ExpertAt(W(i), b(p).rank, b(p).row)
      BY <1>3, <2>1, ExpertsGet DEF b
    <3>2. ExpertForward(r)[p] = ExpertOut(meta[r].expert[p], Delivered(r)[p])
      BY <1>3 DEF ExpertForward
    <3>3. RowValue(i, b(p).rank, b(p).row) = Token(l, b(p).rank, TokenOf(slot(p)))
      BY <2>1 DEF RowValue, TokenAt
    <3>4. ExpertAt(W(i), b(p).rank, b(p).row) = ids[l][b(p).rank][slot(p)]
      BY <1>2 DEF ExpertAt
    <3> HIDE DEF slot
    <3> QED  BY <1>2, <3>1, <3>2, <3>3, <3>4
  <2>3. DOMAIN ExpertForward(r) = 0..(A - 1)
    BY <1>3 DEF ExpertForward
  <2> HIDE DEF out
  <2>4. Range(ExpertForward(r)) = {out(g) : g \in Mine(r)}
    <3>1. Range(ExpertForward(r)) = {ExpertForward(r)[p] : p \in 0..(A - 1)}
      BY <2>3 DEF Range
    <3>2. ASSUME NEW p \in 0..(A - 1) PROVE ExpertForward(r)[p] \in {out(g) : g \in Mine(r)}
      BY <1>4, <2>2
    <3>3. ASSUME NEW g \in Mine(r) PROVE out(g) \in {ExpertForward(r)[p] : p \in 0..(A - 1)}
      <4>1. PICK p \in 0..(A - 1) : b(p).rank = g[1] /\ slot(p) = g[2]
        BY <1>5
      <4>2. g = <<g[1], g[2]>>
        BY DEF Mine
      <4>3. out(g) = ExpertForward(r)[p]
        BY <2>2, <4>1, <4>2
      <4> QED  BY <4>3
    <3> QED  BY <3>1, <3>2, <3>3
  <2> QED  BY <2>4 DEF out
<1>7. ASSUME Using(r, "combine_backward")
      PROVE  Range(ExpertBackward(r)) =
               {ExpertGrad(ids[Layer(r)][g[1]][g[2]],
                           [slot |-> g[2], is |-> OutGrad(Layer(r), g[1], TokenOf(g[2]))]) : g \in Mine(r)}
  <2> DEFINE out(g) == ExpertGrad(ids[Layer(r)][g[1]][g[2]],
                                  [slot |-> g[2], is |-> OutGrad(Layer(r), g[1], TokenOf(g[2]))])
             slot(p) == SlotAt(W(i), b(p).rank, b(p).row)
  <2>1. Kind(i) = "combine_backward" /\ Forth(i)
    BY <1>2, <1>7 DEF Using, Forth
  <2>2. ASSUME NEW p \in 0..(A - 1) PROVE ExpertBackward(r)[p] = out(<<b(p).rank, slot(p)>>)
    <3>1. /\ Delivered(r)[p] = RowValue(i, b(p).rank, b(p).row)
          /\ meta[r].expert[p] = ExpertAt(W(i), b(p).rank, b(p).row)
      BY <1>3, <2>1, ExpertsGet DEF b
    <3>2. ExpertBackward(r)[p] = ExpertGrad(meta[r].expert[p], Delivered(r)[p])
      BY <1>3 DEF ExpertBackward
    <3>3. RowValue(i, b(p).rank, b(p).row)
            = [slot |-> slot(p), is |-> OutGrad(l, b(p).rank, TokenOf(slot(p)))]
      BY <2>1 DEF RowValue, GradAt
    <3>4. ExpertAt(W(i), b(p).rank, b(p).row) = ids[l][b(p).rank][slot(p)]
      BY <1>2 DEF ExpertAt
    <3> HIDE DEF slot
    <3> QED  BY <1>2, <3>1, <3>2, <3>3, <3>4
  <2>3. DOMAIN ExpertBackward(r) = 0..(A - 1)
    BY <1>3 DEF ExpertBackward
  <2> HIDE DEF out
  <2>4. Range(ExpertBackward(r)) = {out(g) : g \in Mine(r)}
    <3>1. Range(ExpertBackward(r)) = {ExpertBackward(r)[p] : p \in 0..(A - 1)}
      BY <2>3 DEF Range
    <3>2. ASSUME NEW p \in 0..(A - 1) PROVE ExpertBackward(r)[p] \in {out(g) : g \in Mine(r)}
      BY <1>4, <2>2
    <3>3. ASSUME NEW g \in Mine(r) PROVE out(g) \in {ExpertBackward(r)[p] : p \in 0..(A - 1)}
      <4>1. PICK p \in 0..(A - 1) : b(p).rank = g[1] /\ slot(p) = g[2]
        BY <1>5
      <4>2. g = <<g[1], g[2]>>
        BY DEF Mine
      <4>3. out(g) = ExpertBackward(r)[p]
        BY <2>2, <4>1, <4>2
      <4> QED  BY <4>3
    <3> QED  BY <3>1, <3>2, <3>3
  <2> QED  BY <2>4 DEF out
<1> DEFINE w == W(i)[r]
           place(n) == Place(w, n)
<1>8. \A n \in Rows : place(n) \in Rows /\ SlotAt(W(i), r, place(n)) = n /\ ExpertAt(W(i), r, place(n)) = w[n]
  BY <1>1, OwnSlot DEF IndInv
<1>9. w = ids[Layer(r)][r] /\ w \in Routings
  BY <1>1, <1>2, OrderOf DEF IndInv
<1>10. ~Forth(i) => Reduced(r) =
         [t \in 0..(Tokens - 1) |-> {[slot |-> n, is |-> RowValue(i, r, place(n))] : n \in {q \in Rows : TokenOf(q) = t}}]
  BY ReducedIs
<1> HIDE DEF place
<1>11. ASSUME Using(r, "combine")
       PROVE  Reduced(r) = LocalCombined(ids[Layer(r)][r], [t \in 0..(Tokens - 1) |-> Token(Layer(r), r, t)])
  <2> DEFINE order == ExpertOrder(w)
             value == [t \in 0..(Tokens - 1) |-> Token(l, r, t)]
             left(t) == {[slot |-> n, is |-> RowValue(i, r, place(n))] : n \in {q \in Rows : TokenOf(q) = t}}
             right(t) == {[slot |-> order[row], is |-> ExpertOut(w[order[row]], value[t])] :
                            row \in {q \in Rows : TokenOf(order[q]) = t}}
  <2>1. Kind(i) = "combine" /\ ~Forth(i)
    BY <1>2, <1>11 DEF Using, Forth
  <2>2. \A n \in Rows : order[place(n)] = n
    BY <1>9, OrderIs DEF place
  <2>3. \A q \in Rows : order[q] \in Rows /\ place(order[q]) = q
    BY <1>9, OrderIs DEF place
  <2>4. \A n \in Rows : RowValue(i, r, place(n)) = ExpertOut(w[n], Token(l, r, TokenOf(n)))
    BY <1>8, <2>1 DEF RowValue, TokenAt
  <2>5. ASSUME NEW t \in 0..(Tokens - 1) PROVE left(t) = right(t)
    <3>1. value[t] = Token(l, r, t)
      OBVIOUS
    <3> HIDE DEF value, order
    <3>2. ASSUME NEW n \in Rows, TokenOf(n) = t
          PROVE  [slot |-> n, is |-> RowValue(i, r, place(n))] \in right(t)
      <4> DEFINE q == place(n)
      <4>1. q \in Rows /\ order[q] = n
        BY <1>8, <2>2
      <4> HIDE DEF q
      <4>2. [slot |-> order[q], is |-> ExpertOut(w[order[q]], value[t])] \in right(t)
        BY <3>2, <4>1
      <4>3. [slot |-> n, is |-> RowValue(i, r, place(n))]
              = [slot |-> order[q], is |-> ExpertOut(w[order[q]], value[t])]
        BY <2>4, <3>1, <3>2, <4>1
      <4> QED  BY <4>2, <4>3
    <3>3. ASSUME NEW q \in Rows, TokenOf(order[q]) = t
          PROVE  [slot |-> order[q], is |-> ExpertOut(w[order[q]], value[t])] \in left(t)
      <4> DEFINE n == order[q]
      <4>1. n \in Rows /\ TokenOf(n) = t
        BY <2>3, <3>3
      <4> HIDE DEF n
      <4>2. RowValue(i, r, place(n)) = ExpertOut(w[n], value[t])
        BY <2>4, <3>1, <4>1
      <4>3. [slot |-> n, is |-> ExpertOut(w[n], value[t])] \in left(t)
        BY <4>1, <4>2
      <4> QED  BY <4>3 DEF n
    <3> QED  BY <3>2, <3>3
  <2>6. LocalCombined(w, value) = [t \in 0..(Tokens - 1) |-> right(t)]
    BY DEF LocalCombined
  <2> HIDE DEF left, right, value, order
  <2>7. Reduced(r) = [t \in 0..(Tokens - 1) |-> left(t)]
    BY <1>10, <2>1 DEF left
  <2>8. Reduced(r) = LocalCombined(w, value)
    BY <2>5, <2>6, <2>7
  <2> QED  BY <1>2, <1>9, <2>8 DEF value
<1>12. ASSUME Using(r, "dispatch_backward")
       PROVE  Reduced(r) = [t \in 0..(Tokens - 1) |->
                {[slot |-> n, is |-> ExpertGrad(ids[Layer(r)][r][n], [slot |-> n, is |-> OutGrad(Layer(r), r, t)])] :
                   n \in {q \in Rows : TokenOf(q) = t}}]
  <2> DEFINE left(t) == {[slot |-> n, is |-> RowValue(i, r, place(n))] : n \in {q \in Rows : TokenOf(q) = t}}
             right(t) == {[slot |-> n, is |-> ExpertGrad(w[n], [slot |-> n, is |-> OutGrad(l, r, t)])] :
                            n \in {q \in Rows : TokenOf(q) = t}}
  <2>1. Kind(i) = "dispatch_backward" /\ ~Forth(i)
    BY <1>2, <1>12 DEF Using, Forth
  <2>2. \A n \in Rows :
          RowValue(i, r, place(n)) = ExpertGrad(w[n], [slot |-> n, is |-> OutGrad(l, r, TokenOf(n))])
    BY <1>8, <2>1 DEF RowValue, GradAt
  <2>3. \A t : left(t) = right(t)
    BY <2>2
  <2> HIDE DEF left, right
  <2>4. Reduced(r) = [t \in 0..(Tokens - 1) |-> right(t)]
    BY <1>10, <2>1, <2>3 DEF left
  <2> QED  BY <1>2, <1>9, <2>4 DEF right
<1> QED  BY <1>6, <1>7, <1>11, <1>12

\* The saved output is still that of the combine before.
LEMMA SavedFollows ==
    ASSUME IndInv
    PROVE  SavedOutputIntact
<1> USE DEF IndInv
<1> SUFFICES ASSUME NEW r \in Ranks, Doing(r).kind = "combine_backward", phase[r] = "rows"
             PROVE  ScoreGrads(r) =
                      [n \in Rows |->
                         <<ExpertOut(ids[Layer(r)][r][n], Token(Layer(r), r, TokenOf(n))),
                           OutGrad(Layer(r), r, TokenOf(n))>>]
  BY DEF SavedOutputIntact
<1> DEFINE i == at[r]
           k == i - 1
           l == LayerOf(i)
           w == W(i)[r]
           routed == [row \in Rows |-> hidden[r][saved[r].routed][row]]
           grad == [t \in 0..(Tokens - 1) |-> OutGrad(Layer(r), r, t)]
           rowOf == Inverted(Order(r))
<1>1. i \in 1..Last /\ Kind(i) = "combine_backward" /\ Layer(r) = l
  BY InProgram, DoingIs
<1>2. k \in 1..Last /\ Kind(k) = "combine" /\ LayerOf(k) = l /\ ~Forth(k) /\ W(k) = W(i)
  BY <1>1, Follows DEF W, Forth
<1>3. saved[r].routed = (k - 1) % BufferCount
  <2>1. saved[r].routed = (at[r] - 2) % BufferCount
    BY <1>1 DEF SavedInv
  <2>2. at[r] - 2 = k - 1
    BY <1>1
  <2> QED  BY <2>1, <2>2
<1>4. k <= Passed(r) /\ Signalled(r) <= k + BufferCount - 2
  <2>1. Passed(r) = i - 1 /\ Signalled(r) = i - 1
    BY DEF Passed, Signalled
  <2> QED  BY <1>1, <2>1, BufferCountIs
<1>5. \A row \in Rows : routed[row] = RowValue(k, r, row)
  <2> SUFFICES ASSUME NEW row \in Rows PROVE hidden[r][(k - 1) % BufferCount][row] = RowValue(k, r, row)
    BY <1>3
  <2>1. Reader(k, r, row) = r /\ Spot(k, r, row) = row
    BY <1>2 DEF Reader, Spot
  <2> HIDE DEF k
  <2> QED  BY <1>2, <1>4, <2>1, Intact
<1>6. w \in Routings /\ w = ids[l][r] /\ Order(r) = ExpertOrder(w)
  BY <1>1, OrderOf DEF Order
<1>7. \A n \in Rows : /\ rowOf[n] = Place(w, n) /\ Place(w, n) \in Rows
                      /\ Order(r)[Place(w, n)] = n
  BY <1>6, OrderIs
<1>8. \A n \in Rows : RowValue(k, r, Place(w, n)) = ExpertOut(w[n], Token(l, r, TokenOf(n)))
  <2>1. \A n \in Rows : SlotAt(W(k), r, Place(w, n)) = n /\ ExpertAt(W(k), r, Place(w, n)) = w[n]
    BY <1>1, <1>2, OwnSlot
  <2> HIDE DEF k
  <2> QED  BY <1>2, <2>1 DEF RowValue, TokenAt
<1>9. ScoreGrads(r) = [n \in Rows |-> <<routed[rowOf[n]], grad[TokenOf(Order(r)[rowOf[n]])]>>]
  BY DEF ScoreGrads, ScoresGrad
<1>10. \A n \in Rows : grad[TokenOf(n)] = OutGrad(l, r, TokenOf(n))
  BY <1>1, TokenIs
<1> HIDE DEF routed, grad, rowOf, w, k, l, i
<1>11. \A n \in Rows : /\ routed[rowOf[n]] = ExpertOut(w[n], Token(l, r, TokenOf(n)))
                       /\ grad[TokenOf(Order(r)[rowOf[n]])] = OutGrad(l, r, TokenOf(n))
  BY <1>5, <1>7, <1>8, <1>10
<1> QED  BY <1>1, <1>6, <1>9, <1>11

-----------------------------------------------------------------------------
(* The steps.                                                              *)

\* The moves of an operation are those of its routing, which stays.
LEMMA SameMoves ==
    ASSUME ids' = ids
    PROVE  /\ \A i : W(i)' = W(i)
           /\ \A i, s, row : /\ Writer(i, s, row)' = Writer(i, s, row)
                             /\ Reader(i, s, row)' = Reader(i, s, row)
                             /\ Spot(i, s, row)' = Spot(i, s, row)
                             /\ RowValue(i, s, row)' = RowValue(i, s, row)
           /\ \A i, r : HomeRows(i, r)' = HomeRows(i, r)
<1>1. \A i : W(i)' = W(i)
  BY DEF W
<1>2. \A i, s, row : There(i, s, row)' = There(i, s, row)
  BY <1>1 DEF There
<1>3. \A i, s, row : /\ Writer(i, s, row)' = Writer(i, s, row)
                     /\ Reader(i, s, row)' = Reader(i, s, row)
                     /\ Spot(i, s, row)' = Spot(i, s, row)
  BY <1>2 DEF Writer, Reader, Spot
<1>4. \A i, s, row : TokenAt(i, s, row)' = TokenAt(i, s, row) /\ GradAt(i, s, row)' = GradAt(i, s, row)
  BY <1>1 DEF TokenAt, GradAt
<1>5. \A i, s, row : RowValue(i, s, row)' = RowValue(i, s, row)
  BY <1>1, <1>4 DEF RowValue
<1>6. \A i, r : HomeRows(i, r)' = HomeRows(i, r)
  BY <1>1, <1>5 DEF HomeRows, Back
<1> QED  BY <1>1, <1>3, <1>5, <1>6

\* The progress of a rank is in its own variables.
LEMMA SameProgress ==
    ASSUME NEW s \in Ranks, at'[s] = at[s], phase'[s] = phase[s]
    PROVE  /\ Signalled(s)' = Signalled(s) /\ Passed(s)' = Passed(s) /\ CountsSignalled(s)' = CountsSignalled(s)
           /\ \A i, q : (q \in todo'[s] <=> q \in todo[s]) =>
                 /\ Wrote(s, i, q)' <=> Wrote(s, i, q)
                 /\ WroteCounts(s, i, q)' <=> WroteCounts(s, i, q)
BY DEF Signalled, Passed, CountsSignalled, Wrote, WroteCounts

\* The parts of the invariant, where a step leaves alone what they speak of.
LEMMA DataKept ==
    ASSUME ShapeInv, DataInv, ids' = ids, hidden' = hidden,
           \A s, q \in Ranks : \A i \in Nat : Wrote(s, i, q)' <=> Wrote(s, i, q)
    PROVE  DataInv'
<1> SUFFICES ASSUME NEW i \in 1..Last, NEW s \in Ranks, NEW row \in Rows, NEW w \in Ranks, NEW q \in Ranks,
                    w = Writer(i, s, row)', q = Reader(i, s, row)', Wrote(w, i, q)',
                    \A z \in Ranks : ~Wrote(z, i + BufferCount, q)'
             PROVE  (hidden[q][(i - 1) % BufferCount][Spot(i, s, row)] = RowValue(i, s, row))'
  BY DEF DataInv
<1>1. i \in Nat /\ i + BufferCount \in Nat
  BY ProgramIs, BufferCountIs
<1>2. w = Writer(i, s, row) /\ q = Reader(i, s, row)
  BY SameMoves
<1>3. Wrote(w, i, q) /\ \A z \in Ranks : ~Wrote(z, i + BufferCount, q)
  BY <1>1
<1>4. hidden[q][(i - 1) % BufferCount][Spot(i, s, row)] = RowValue(i, s, row)
  BY <1>2, <1>3 DEF DataInv
<1> QED  BY <1>4, SameMoves

LEMMA CountsKept ==
    ASSUME CountsInv, ids' = ids, countsBuf' = countsBuf,
           \A s, q \in Ranks : \A i \in 1..Last : WroteCounts(s, i, q)' <=> WroteCounts(s, i, q)
    PROVE  CountsInv'
<1> SUFFICES ASSUME NEW s \in Ranks, NEW q \in Ranks, NEW i \in 1..Last,
                    WroteCounts(s, i, q)', \A j \in 1..Last : WroteCounts(s, j, q)' => j <= i
             PROVE  (countsBuf[q][s] = Table(W(i))[s])'
  BY DEF CountsInv
<1>1. WroteCounts(s, i, q) /\ \A j \in 1..Last : WroteCounts(s, j, q) => j <= i
  OBVIOUS
<1>2. countsBuf[q][s] = Table(W(i))[s]
  BY <1>1 DEF CountsInv
<1> QED  BY <1>2, SameMoves

LEMMA MetaKept ==
    ASSUME MetaInv, ids' = ids, at' = at, meta' = meta,
           \A s \in Ranks : phase'[s] \in {"rows", "rowsWait", "use"} => phase[s] \in {"rows", "rowsWait", "use"}
    PROVE  MetaInv'
<1> SUFFICES ASSUME NEW s \in Ranks, NEW i \in 1..Last, at[s] = i, phase'[s] \in {"rows", "rowsWait", "use"}
             PROVE  (meta[s] = DirectMetadata(Table(W(i)), s))'
  BY DEF MetaInv
<1>1. meta[s] = DirectMetadata(Table(W(i)), s)
  BY DEF MetaInv
<1> QED  BY <1>1, SameMoves

LEMMA TensorKept ==
    ASSUME TensorInv, ids' = ids, at' = at, tensor' = tensor,
           \A s \in Ranks : phase'[s] = "rows" /\ ~Forth(at[s]) => phase[s] = "rows"
    PROVE  TensorInv'
<1> SUFFICES ASSUME NEW s \in Ranks, NEW i \in 1..Last, at[s] = i, phase'[s] = "rows", ~Forth(i)
             PROVE  (tensor[s] = HomeRows(i, s))'
  BY DEF TensorInv, Forth, Kind
<1>1. tensor[s] = HomeRows(i, s)
  BY DEF TensorInv
<1> QED  BY <1>1, SameMoves

LEMMA SavedKept ==
    ASSUME SavedInv, at' = at, saved' = saved
    PROVE  SavedInv'
BY DEF SavedInv, Kind

LEMMA PhaseKept ==
    ASSUME PhaseInv, at' = at,
           \A s \in Ranks : /\ phase'[s] = "done" <=> phase[s] = "done"
                            /\ phase'[s] \in {"counts", "countsWait"} => phase[s] \in {"counts", "countsWait"}
    PROVE  PhaseInv'
BY DEF PhaseInv, Kind, Last

LEMMA CountKept ==
    ASSUME CountInv, index' = index, arrived' = arrived,
           \A s \in Ranks : Signalled(s)' = Signalled(s) /\ CountsSignalled(s)' = CountsSignalled(s)
    PROVE  CountInv'
<1> SUFFICES ASSUME NEW s \in Ranks
             PROVE  /\ index'[s] = Signalled(s)' % BufferCount
                    /\ \A b \in Buffers : arrived'[b][s] = PrefixSum(ByBuffer(b), Signalled(s)')
                    /\ arrived'[CountsHandle][s] = PrefixSum(ByCounts, CountsSignalled(s)')
  BY DEF CountInv, PrefixSum, ByBuffer, ByCounts, Kind, Buffers, CountsHandle
<1> QED  BY DEF CountInv

\* All that a rank's own step may leave alone.
OthersSame(r) ==
    \A s \in Ranks : s # r => at'[s] = at[s] /\ phase'[s] = phase[s] /\ todo'[s] = todo[s]

\* A step of one rank leaves the progress of the others.
LEMMA Others ==
    ASSUME NEW r \in Ranks, OthersSame(r)
    PROVE  \A s \in Ranks : s # r =>
             /\ Signalled(s)' = Signalled(s) /\ Passed(s)' = Passed(s) /\ CountsSignalled(s)' = CountsSignalled(s)
             /\ \A i, q : /\ Wrote(s, i, q)' <=> Wrote(s, i, q)
                          /\ WroteCounts(s, i, q)' <=> WroteCounts(s, i, q)
BY SameProgress DEF OthersSame

\* Announcing more keeps the barriers.
LEMMA GateKept ==
    ASSUME ShapeInv, GateInv,
           \A s \in Ranks : Passed(s)' = Passed(s) /\ Signalled(s)' \in Nat /\ Signalled(s)' >= Signalled(s)
    PROVE  GateInv'
<1> SUFFICES ASSUME NEW s \in Ranks, NEW z \in Ranks PROVE Passed(s)' <= Signalled(z)'
  BY DEF GateInv
<1>1. Passed(s) <= Signalled(z) /\ Passed(s) \in Nat /\ Signalled(z) \in Nat
  BY ProgressIs DEF GateInv
<1> QED  BY <1>1

\* Counts written are the latest, and touch nothing else.
LEMMA WriteCountsKeeps ==
    ASSUME IndInv, NEW r \in Ranks, NEW peer \in Ranks, WriteCounts(r, peer)
    PROVE  IndInv'
<1> USE DEF IndInv
<1>1. /\ phase[r] = "counts" /\ peer \in todo[r]
      /\ countsBuf' = [countsBuf EXCEPT ![peer][r] = Counts(r)]
      /\ todo' = [todo EXCEPT ![r] = @ \ {peer}]
      /\ ids' = ids /\ at' = at /\ phase' = phase /\ index' = index /\ hidden' = hidden
      /\ arrived' = arrived /\ meta' = meta /\ tensor' = tensor /\ saved' = saved
  BY DEF WriteCounts
<1>2. todo' \in [Ranks -> SUBSET Ranks] /\ todo'[r] = todo[r] \ {peer} /\ OthersSame(r)
  BY <1>1 DEF ShapeInv, OthersSame
<1>3. \A q, s \in Ranks :
        countsBuf'[q][s] = IF q = peer /\ s = r THEN Counts(r) ELSE countsBuf[q][s]
  BY <1>1 DEF ShapeInv
<1>4. ShapeInv'
  <2>1. /\ countsBuf' = [q \in Ranks |-> countsBuf'[q]]
        /\ \A q \in Ranks : countsBuf'[q] = [s \in Ranks |-> countsBuf'[q][s]]
    BY <1>1 DEF ShapeInv
  <2>2. /\ ids' = ids /\ at' = at /\ phase' = phase /\ index' = index /\ hidden' = hidden
        /\ arrived' = arrived /\ meta' = meta /\ tensor' = tensor /\ saved' = saved
    BY <1>1
  <2> QED  BY <1>2, <2>1, <2>2 DEF ShapeInv, Last, Phases
<1>5. /\ \A s \in Ranks : /\ Signalled(s)' = Signalled(s) /\ Passed(s)' = Passed(s)
                          /\ CountsSignalled(s)' = CountsSignalled(s)
      /\ \A s, q \in Ranks : \A i \in Nat : Wrote(s, i, q)' <=> Wrote(s, i, q)
  <2>1. /\ Signalled(r)' = Signalled(r) /\ Passed(r)' = Passed(r) /\ CountsSignalled(r)' = CountsSignalled(r)
        /\ \A q \in Ranks : \A i \in Nat : Wrote(r, i, q)' <=> Wrote(r, i, q)
    BY <1>1 DEF Signalled, Passed, CountsSignalled, Wrote
  <2> QED  BY <1>2, <2>1, Others
<1>6. GateInv'
  BY <1>5, GateKept, ProgressIs
<1>7. CountsInv'
  <2> SUFFICES ASSUME NEW s \in Ranks, NEW q \in Ranks, NEW i \in 1..Last,
                      WroteCounts(s, i, q)', \A j \in 1..Last : WroteCounts(s, j, q)' => j <= i
               PROVE  countsBuf'[q][s] = (Table(W(i))[s])'
    BY DEF CountsInv
  <2>1. CASE s = r /\ q = peer
    <3>1. PICK k \in 1..Last : at[r] = k /\ Kind(k) = "dispatch"
      BY <1>1, InProgram DEF PhaseInv
    <3>2. WroteCounts(r, k, peer)'
      BY <1>1, <1>2, <3>1 DEF WroteCounts, Kind
    <3>3. i = k
      <4>1. k <= i
        BY <2>1, <3>1, <3>2
      <4>2. i <= k
        BY <1>1, <2>1, <3>1 DEF WroteCounts
      <4> QED  BY <3>1, <4>1, <4>2, ProgramIs
    <3>4. countsBuf'[q][s] = Table(W(i))[s]
      BY <1>3, <2>1, <3>1, <3>3, OrderOf
    <3> QED  BY <1>1, <3>4, SameMoves
  <2>2. CASE ~(s = r /\ q = peer)
    <3>1. \A j \in 1..Last : WroteCounts(s, j, q)' <=> WroteCounts(s, j, q)
      <4>1. at'[s] = at[s] /\ phase'[s] = phase[s] /\ (q \in todo'[s] <=> q \in todo[s])
        BY <1>1, <1>2, <2>2 DEF OthersSame
      <4> QED  BY <4>1, SameProgress
    <3>2. countsBuf[q][s] = Table(W(i))[s]
      BY <3>1 DEF CountsInv
    <3>3. countsBuf'[q][s] = countsBuf[q][s]
      BY <1>3, <2>2
    <3> QED  BY <1>1, <3>2, <3>3, SameMoves
  <2> QED  BY <2>1, <2>2
<1>8. PhaseInv' /\ MetaInv' /\ TensorInv' /\ SavedInv'
  BY <1>1, PhaseKept, MetaKept, TensorKept, SavedKept
<1>9. CountInv'
  BY <1>1, <1>5, CountKept
<1>10. DataInv'
  BY <1>1, <1>5, DataKept
<1> QED  BY <1>4, <1>6, <1>7, <1>8, <1>9, <1>10

\* A barrier that opens tells that every rank has announced its rows.
LEMMA RowsReadyKeeps ==
    ASSUME IndInv, NEW r \in Ranks, RowsReady(r)
    PROVE  IndInv'
<1> USE DEF IndInv
<1>1. /\ phase[r] = "rowsWait" /\ AllHere(r, Buffer(r))
      /\ phase' = [phase EXCEPT ![r] = "use"]
      /\ ids' = ids /\ at' = at /\ todo' = todo /\ index' = index /\ hidden' = hidden /\ countsBuf' = countsBuf
      /\ arrived' = arrived /\ meta' = meta /\ tensor' = tensor /\ saved' = saved
  BY DEF RowsReady
<1>2. phase' \in [Ranks -> Phases] /\ phase'[r] = "use" /\ OthersSame(r)
  BY <1>1 DEF ShapeInv, OthersSame, Phases
<1>3. ShapeInv'
  BY <1>1, <1>2 DEF ShapeInv, Last
<1>4. /\ \A s \in Ranks : Signalled(s)' = Signalled(s) /\ CountsSignalled(s)' = CountsSignalled(s)
      /\ \A s, q \in Ranks : \A i \in Nat : /\ Wrote(s, i, q)' <=> Wrote(s, i, q)
                                            /\ WroteCounts(s, i, q)' <=> WroteCounts(s, i, q)
  <2>1. /\ Signalled(r)' = Signalled(r) /\ CountsSignalled(r)' = CountsSignalled(r)
        /\ \A q \in Ranks : \A i \in Nat : /\ Wrote(r, i, q)' <=> Wrote(r, i, q)
                                           /\ WroteCounts(r, i, q)' <=> WroteCounts(r, i, q)
    BY <1>1, <1>2 DEF Signalled, CountsSignalled, Wrote, WroteCounts
  <2> QED  BY <1>2, <2>1, Others
<1> DEFINE i == at[r]
<1>5. i \in 1..Last /\ i \in Nat /\ i >= 1 /\ Signalled(r) = i
  BY <1>1, InProgram, ProgressIs DEF Signalled
<1> HIDE DEF i
<1>6. \A s \in Ranks : i <= Signalled(s)
  <2> SUFFICES ASSUME NEW s \in Ranks PROVE Signalled(s) >= i
    BY <1>5, ProgressIs
  <2> DEFINE b == (i - 1) % BufferCount
  <2>1. Buffer(r) = b
    BY <1>1, BufferIs DEF i
  <2>2. b \in Buffers
    BY <1>5, BufferOf
  <2> HIDE DEF b
  <2>3. arrived[b][s] >= arrived[b][r]
    BY <1>1, <2>1 DEF AllHere
  <2>4. arrived[b][s] = PrefixSum(ByBuffer(b), Signalled(s)) /\ arrived[b][r] = PrefixSum(ByBuffer(b), i)
    BY <1>5, <2>2 DEF CountInv
  <2>5. ByBuffer(b)[i - 1] = 1
    <3>1. i - 1 \in Nat
      BY <1>5
    <3> QED  BY <3>1, CountersAre DEF b
  <2>6. (\A k \in Nat : ByBuffer(b)[k] \in Nat) /\ Signalled(s) \in Nat
    BY CountersAre, ProgressIs
  <2> DEFINE f == ByBuffer(b)
             m == Signalled(s)
  <2>7. /\ \A k \in Nat : f[k] \in Nat
        /\ m \in Nat /\ f[i - 1] >= 1 /\ PrefixSum(f, m) >= PrefixSum(f, i)
    BY <2>3, <2>4, <2>5, <2>6
  <2> HIDE DEF f, m
  <2>8. m >= i
    BY <1>5, <2>7, Reached
  <2> QED  BY <2>8 DEF m
<1>7. GateInv'
  <2>1. Passed(r)' = i /\ \A s \in Ranks : s # r => Passed(s)' = Passed(s)
    BY <1>1, <1>2, Others DEF Passed, i
  <2> SUFFICES ASSUME NEW s \in Ranks, NEW z \in Ranks PROVE Passed(s)' <= Signalled(z)'
    BY DEF GateInv
  <2> QED  BY <1>4, <1>6, <2>1 DEF GateInv
<1>8. CountsInv'
  <2>1. \A s, q \in Ranks : \A j \in 1..Last : WroteCounts(s, j, q)' <=> WroteCounts(s, j, q)
    BY <1>4, ProgramIs
  <2> QED  BY <1>1, <2>1, CountsKept
<1>9. PhaseInv' /\ MetaInv' /\ TensorInv' /\ SavedInv'
  <2>1. \A s \in Ranks : phase'[s] = IF s = r THEN "use" ELSE phase[s]
    BY <1>1 DEF ShapeInv
  <2>2. PhaseInv'
    BY <1>1, <2>1, PhaseKept
  <2>3. MetaInv'
    BY <1>1, <2>1, MetaKept
  <2>4. TensorInv'
    BY <1>1, <2>1, TensorKept
  <2> QED  BY <1>1, <2>2, <2>3, <2>4, SavedKept
<1>10. CountInv'
  BY <1>1, <1>4, CountKept
<1>11. DataInv'
  BY <1>1, <1>4, DataKept
<1> QED  BY <1>3, <1>7, <1>8, <1>9, <1>10, <1>11

\* Announcing the counts moves the counts handle on by one.
LEMMA SignalCountsKeeps ==
    ASSUME IndInv, NEW r \in Ranks, SignalCounts(r)
    PROVE  IndInv'
<1> USE DEF IndInv
<1>1. /\ phase[r] = "counts" /\ todo[r] = {}
      /\ arrived' = [arrived EXCEPT ![CountsHandle][r] = @ + 1]
      /\ phase' = [phase EXCEPT ![r] = "countsWait"]
      /\ ids' = ids /\ at' = at /\ todo' = todo /\ index' = index /\ hidden' = hidden /\ countsBuf' = countsBuf
      /\ meta' = meta /\ tensor' = tensor /\ saved' = saved
  BY DEF SignalCounts, Arrive
<1>2. phase' \in [Ranks -> Phases] /\ phase'[r] = "countsWait" /\ OthersSame(r)
  BY <1>1 DEF ShapeInv, OthersSame, Phases
<1>3. /\ CountsHandle \in Handles /\ CountsHandle \notin Buffers /\ Buffers \subseteq Handles
      /\ arrived' \in [Handles -> [Ranks -> Nat]]
      /\ \A b \in Buffers : arrived'[b] = arrived[b]
      /\ \A s \in Ranks : arrived'[CountsHandle][s] =
                            IF s = r THEN arrived[CountsHandle][r] + 1 ELSE arrived[CountsHandle][s]
  <2>1. CountsHandle \in Handles /\ CountsHandle \notin Buffers /\ Buffers \subseteq Handles
    BY BufferCountIs DEF CountsHandle, Handles, Buffers
  <2>2. arrived \in [Handles -> [Ranks -> Nat]]
    BY DEF ShapeInv
  <2> QED  BY <1>1, <2>1, <2>2
<1>4. ShapeInv'
  <2>1. /\ ids' = ids /\ at' = at /\ todo' = todo /\ index' = index /\ hidden' = hidden
        /\ countsBuf' = countsBuf /\ meta' = meta /\ tensor' = tensor /\ saved' = saved
    BY <1>1
  <2> QED  BY <1>2, <1>3, <2>1 DEF ShapeInv, Last
<1>5. /\ \A s \in Ranks : Signalled(s)' = Signalled(s) /\ Passed(s)' = Passed(s)
      /\ \A s \in Ranks : s # r => CountsSignalled(s)' = CountsSignalled(s)
      /\ \A s, q \in Ranks : \A i \in Nat : /\ Wrote(s, i, q)' <=> Wrote(s, i, q)
                                            /\ WroteCounts(s, i, q)' <=> WroteCounts(s, i, q)
  <2>1. /\ Signalled(r)' = Signalled(r) /\ Passed(r)' = Passed(r)
        /\ \A q \in Ranks : \A i \in Nat : /\ Wrote(r, i, q)' <=> Wrote(r, i, q)
                                           /\ WroteCounts(r, i, q)' <=> WroteCounts(r, i, q)
    BY <1>1, <1>2 DEF Signalled, Passed, Wrote, WroteCounts
  <2> QED  BY <1>2, <2>1, Others
<1>6. CountInv'
  <2> DEFINE n == at[r] - 1
  <2>1. n \in Nat /\ n + 1 = at[r] /\ at[r] \in 1..Last /\ Kind(at[r]) = "dispatch"
    BY <1>1, InProgram, ProgramIs DEF PhaseInv
  <2>2. CountsSignalled(r) = n /\ CountsSignalled(r)' = n + 1
    BY <1>1, <1>2, <2>1 DEF CountsSignalled
  <2>3. ByCounts[n] = 1
    <3> HIDE DEF n
    <3>1. n < Last
      BY <2>1, LastIs
    <3>2. ByCounts[n] = IF n < Last /\ Kind(n + 1) = "dispatch" THEN 1 ELSE 0
      BY <2>1, CountersAre
    <3> QED  BY <2>1, <3>1, <3>2
  <2> HIDE DEF n
  <2>4. PrefixSum(ByCounts, n + 1) = PrefixSum(ByCounts, n) + 1
    BY <2>1, <2>3, SumStep
  <2>5. arrived'[CountsHandle][r] = PrefixSum(ByCounts, n + 1)
    BY <1>3, <2>2, <2>4 DEF CountInv
  <2> SUFFICES ASSUME NEW s \in Ranks
               PROVE  /\ index'[s] = Signalled(s)' % BufferCount
                      /\ \A b \in Buffers : arrived'[b][s] = PrefixSum(ByBuffer(b), Signalled(s)')
                      /\ arrived'[CountsHandle][s] = PrefixSum(ByCounts, CountsSignalled(s)')
    BY DEF CountInv, PrefixSum, ByBuffer, ByCounts, Kind, Buffers, CountsHandle
  <2>6. /\ index'[s] = Signalled(s)' % BufferCount
        /\ \A b \in Buffers : arrived'[b][s] = PrefixSum(ByBuffer(b), Signalled(s)')
    BY <1>1, <1>3, <1>5 DEF CountInv
  <2>7. CASE s = r
    BY <2>2, <2>5, <2>6, <2>7
  <2>8. CASE s # r
    BY <1>3, <1>5, <2>6, <2>8 DEF CountInv
  <2> QED  BY <2>7, <2>8
<1>7. GateInv'
  BY <1>5, GateKept, ProgressIs
<1>8. CountsInv'
  <2>1. \A s, q \in Ranks : \A j \in 1..Last : WroteCounts(s, j, q)' <=> WroteCounts(s, j, q)
    BY <1>5, ProgramIs
  <2> QED  BY <1>1, <2>1, CountsKept
<1>9. PhaseInv' /\ MetaInv' /\ TensorInv' /\ SavedInv'
  <2>1. \A s \in Ranks : phase'[s] = IF s = r THEN "countsWait" ELSE phase[s]
    BY <1>1 DEF ShapeInv
  <2>2. PhaseInv'
    BY <1>1, <2>1, PhaseKept
  <2>3. MetaInv'
    BY <1>1, <2>1, MetaKept
  <2>4. TensorInv'
    BY <1>1, <2>1, TensorKept
  <2> QED  BY <1>1, <2>2, <2>3, <2>4, SavedKept
<1>10. DataInv'
  BY <1>1, <1>5, DataKept
<1> QED  BY <1>4, <1>6, <1>7, <1>8, <1>9, <1>10

\* Counts that all ranks have announced are there to read, and are not yet
\* overwritten by those of a later operation.
LEMMA CountsArrived ==
    ASSUME IndInv, NEW r \in Ranks, phase[r] = "countsWait", AllHere(r, CountsHandle)
    PROVE  countsBuf[r] = Table(W(at[r]))
<1> USE DEF IndInv
<1> DEFINE i == at[r]
<1>1. i \in 1..Last /\ i \in Nat /\ i >= 1 /\ Kind(i) = "dispatch"
  BY InProgram, ProgressIs DEF PhaseInv
<1>2. Signalled(r) = i - 1 /\ CountsSignalled(r) = i
  BY DEF Signalled, CountsSignalled
<1> HIDE DEF i
<1>3. ASSUME NEW s \in Ranks PROVE CountsSignalled(s) >= i
  <2> DEFINE m == CountsSignalled(s)
  <2>1. m \in Nat
    BY ProgressIs
  <2>2. arrived[CountsHandle][s] >= arrived[CountsHandle][r]
    BY DEF AllHere
  <2>3. PrefixSum(ByCounts, m) >= PrefixSum(ByCounts, i)
    BY <1>2, <2>2 DEF CountInv
  <2>4. (\A k \in Nat : ByCounts[k] \in Nat) /\ ByCounts[i - 1] >= 1
    <3>1. i - 1 \in Nat /\ i - 1 < Last /\ (i - 1) + 1 = i
      BY <1>1, ProgramIs
    <3> QED  BY <1>1, <3>1, CountersAre
  <2> HIDE DEF m
  <2>5. m >= i
    BY <1>1, <2>1, <2>3, <2>4, Reached
  <2> QED  BY <2>5 DEF m
<1>4. ASSUME NEW s \in Ranks PROVE countsBuf[r][s] = Table(W(i))[s]
  <2>1. WroteCounts(s, i, r)
    BY <1>1, <1>3, ProgressIs DEF CountsSignalled, WroteCounts
  <2>2. ASSUME NEW j \in 1..Last, WroteCounts(s, j, r) PROVE j <= i
    <3>1. Passed(s) <= i - 1 /\ at[s] - 1 <= Passed(s) /\ Passed(s) \in Nat /\ at[s] \in Nat
      BY <1>2, ProgressIs DEF GateInv
    <3>2. j \in Nat
      BY LastIs
    <3>3. j <= at[s]
      BY <2>2, <3>1, <3>2 DEF WroteCounts
    <3>4. at[s] - 1 <= i - 1
      BY <1>1, <3>1
    <3> QED  BY <1>1, <3>1, <3>2, <3>3, <3>4
  <2> QED  BY <1>1, <2>1, <2>2 DEF CountsInv
<1>5. countsBuf[r] = [s \in Ranks |-> countsBuf[r][s]]
  BY DEF ShapeInv
<1>6. Table(W(i)) = [s \in Ranks |-> Table(W(i))[s]]
  BY DEF Table
<1>7. countsBuf[r] = Table(W(i))
  BY <1>4, <1>5, <1>6
<1> QED  BY <1>7 DEF i

\* So a rank computes its targets from the counts of its operation.
LEMMA ReadCountsKeeps ==
    ASSUME IndInv, NEW r \in Ranks, ReadCounts(r)
    PROVE  IndInv'
<1> USE DEF IndInv
<1>1. /\ phase[r] = "countsWait" /\ AllHere(r, CountsHandle)
      /\ meta' = [meta EXCEPT ![r] = DirectMetadata(countsBuf[r], r)]
      /\ phase' = [phase EXCEPT ![r] = "rows"]
      /\ todo' = [todo EXCEPT ![r] = Ranks]
      /\ ids' = ids /\ at' = at /\ index' = index /\ hidden' = hidden /\ countsBuf' = countsBuf
      /\ arrived' = arrived /\ tensor' = tensor /\ saved' = saved
  BY DEF ReadCounts
<1>2. /\ phase' \in [Ranks -> Phases] /\ phase'[r] = "rows"
      /\ todo' \in [Ranks -> SUBSET Ranks] /\ todo'[r] = Ranks /\ OthersSame(r)
      /\ meta' = [s \in Ranks |-> meta'[s]]
      /\ \A s \in Ranks : meta'[s] = IF s = r THEN DirectMetadata(countsBuf[r], r) ELSE meta[s]
  BY <1>1 DEF ShapeInv, OthersSame, Phases
<1>3. ShapeInv'
  <2>1. /\ ids' = ids /\ at' = at /\ index' = index /\ hidden' = hidden /\ countsBuf' = countsBuf
        /\ arrived' = arrived /\ tensor' = tensor /\ saved' = saved
    BY <1>1
  <2> QED  BY <1>2, <2>1 DEF ShapeInv, Last
<1>4. at[r] \in 1..Last /\ Kind(at[r]) = "dispatch"
  BY <1>1, InProgram DEF PhaseInv
<1>5. /\ \A s \in Ranks : /\ Signalled(s)' = Signalled(s) /\ Passed(s)' = Passed(s)
                          /\ CountsSignalled(s)' = CountsSignalled(s)
      /\ \A s, q \in Ranks : \A i \in Nat : /\ Wrote(s, i, q)' <=> Wrote(s, i, q)
                                            /\ WroteCounts(s, i, q)' <=> WroteCounts(s, i, q)
  <2>1. /\ Signalled(r)' = Signalled(r) /\ Passed(r)' = Passed(r) /\ CountsSignalled(r)' = CountsSignalled(r)
        /\ \A q \in Ranks : \A i \in Nat : /\ Wrote(r, i, q)' <=> Wrote(r, i, q)
                                           /\ WroteCounts(r, i, q)' <=> WroteCounts(r, i, q)
    BY <1>1, <1>2 DEF Signalled, Passed, CountsSignalled, Wrote, WroteCounts
  <2> QED  BY <1>2, <2>1, Others
<1>6. MetaInv'
  <2> SUFFICES ASSUME NEW s \in Ranks, NEW i \in 1..Last, at[s] = i, phase'[s] \in {"rows", "rowsWait", "use"}
               PROVE  meta'[s] = DirectMetadata(Table(W(i)'), s)
    BY <1>1 DEF MetaInv
  <2>1. W(i)' = W(i)
    BY <1>1, SameMoves
  <2>2. CASE s = r
    BY <1>1, <1>2, <2>1, <2>2, CountsArrived
  <2>3. CASE s # r
    BY <1>2, <2>1, <2>3 DEF MetaInv, OthersSame
  <2> QED  BY <2>2, <2>3
<1>7. GateInv'
  BY <1>5, GateKept, ProgressIs
<1>8. CountsInv'
  <2>1. \A s, q \in Ranks : \A j \in 1..Last : WroteCounts(s, j, q)' <=> WroteCounts(s, j, q)
    BY <1>5, ProgramIs
  <2> QED  BY <1>1, <2>1, CountsKept
<1>9. PhaseInv' /\ TensorInv' /\ SavedInv'
  <2>1. \A s \in Ranks : phase'[s] = IF s = r THEN "rows" ELSE phase[s]
    BY <1>1 DEF ShapeInv
  <2>2. PhaseInv'
    BY <1>1, <2>1, PhaseKept
  <2>3. TensorInv'
    <3>1. Forth(at[r])
      BY <1>4 DEF Forth
    <3> QED  BY <1>1, <2>1, <3>1, TensorKept
  <2> QED  BY <1>1, <2>2, <2>3, SavedKept
<1>10. CountInv'
  BY <1>1, <1>5, CountKept
<1>11. DataInv'
  BY <1>1, <1>5, DataKept
<1> QED  BY <1>3, <1>6, <1>7, <1>8, <1>9, <1>10, <1>11

\* Rows go where they are read, and into a buffer nobody reads any more: a rank
\* that still needed it would hold up the barriers of the round.
LEMMA WriteRowsKeeps ==
    ASSUME IndInv, NEW r \in Ranks, NEW peer \in Ranks, WriteRows(r, peer)
    PROVE  IndInv'
<1> USE DEF IndInv
<1>1. /\ phase[r] = "rows" /\ peer \in todo[r]
      /\ hidden' = [hidden EXCEPT ![peer][index[r]] = Written(@, r, peer)]
      /\ todo' = [todo EXCEPT ![r] = @ \ {peer}]
      /\ ids' = ids /\ at' = at /\ phase' = phase /\ index' = index /\ countsBuf' = countsBuf
      /\ arrived' = arrived /\ meta' = meta /\ tensor' = tensor /\ saved' = saved
  BY DEF WriteRows
<1> DEFINE i == at[r]
           b == index[r]
           buf == hidden[peer][b]
           new == Written(buf, r, peer)
<1>2. todo' \in [Ranks -> SUBSET Ranks] /\ todo'[r] = todo[r] \ {peer} /\ OthersSame(r)
  BY <1>1 DEF ShapeInv, OthersSame
<1>3. /\ i \in 1..Last /\ i \in Nat /\ i >= 1 /\ Last \in Nat /\ Signalled(r) = i - 1
      /\ b = (i - 1) % BufferCount /\ b \in Buffers
  BY <1>1, InProgram, ProgressIs, BufferIs, ProgramIs DEF Signalled, ShapeInv
<1>4. IsBuffer(buf)
  BY <1>3 DEF ShapeInv
<1>5. /\ IsBuffer(new)
      /\ \A s \in Ranks, row \in Rows : Reader(i, s, row) = peer =>
           new[Spot(i, s, row)] = IF Writer(i, s, row) = r THEN RowValue(i, s, row) ELSE buf[Spot(i, s, row)]
  <2> HIDE DEF buf
  <2>1. /\ IsBuffer(Written(buf, r, peer))
        /\ \A s \in Ranks, row \in Rows : Reader(at[r], s, row) = peer =>
             Written(buf, r, peer)[Spot(at[r], s, row)] =
               IF Writer(at[r], s, row) = r THEN RowValue(at[r], s, row) ELSE buf[Spot(at[r], s, row)]
    BY <1>1, <1>4, WrittenIs
  <2> QED  BY <2>1
<1> HIDE DEF i, b, new
<1>6. /\ hidden' = [q \in Ranks |-> hidden'[q]]
      /\ \A q \in Ranks : hidden'[q] = [c \in Buffers |-> hidden'[q][c]]
      /\ \A q \in Ranks, c \in Buffers : hidden'[q][c] = IF q = peer /\ c = b THEN new ELSE hidden[q][c]
  BY <1>1, <1>3 DEF ShapeInv, new, b
<1>7. ShapeInv'
  <2>1. /\ ids' = ids /\ at' = at /\ phase' = phase /\ index' = index /\ countsBuf' = countsBuf
        /\ arrived' = arrived /\ meta' = meta /\ tensor' = tensor /\ saved' = saved
    BY <1>1
  <2>2. \A q \in Ranks, c \in Buffers : IsBuffer(hidden'[q][c])
    <3> SUFFICES ASSUME NEW q \in Ranks, NEW c \in Buffers
                 PROVE  IsBuffer(hidden'[q][c])
      OBVIOUS
    <3>1. CASE q = peer /\ c = b
      BY <1>5, <1>6, <3>1
    <3>2. CASE ~(q = peer /\ c = b)
      <4>1. IsBuffer(hidden[q][c])
        BY DEF ShapeInv
      <4>2. hidden'[q][c] = hidden[q][c]
        BY <1>6, <3>2
      <4> QED  BY <4>1, <4>2
    <3> QED  BY <3>1, <3>2
  <2> QED  BY <1>2, <1>6, <2>1, <2>2 DEF ShapeInv, Last, Phases, IsBuffer
<1>8. /\ \A s \in Ranks : /\ Signalled(s)' = Signalled(s) /\ Passed(s)' = Passed(s)
                          /\ CountsSignalled(s)' = CountsSignalled(s)
      /\ \A s, q \in Ranks : \A j \in Nat : /\ Wrote(s, j, q)' <=> Wrote(s, j, q) \/ (s = r /\ j = i /\ q = peer)
                                            /\ WroteCounts(s, j, q)' <=> WroteCounts(s, j, q)
  <2>1. /\ Signalled(r)' = Signalled(r) /\ Passed(r)' = Passed(r) /\ CountsSignalled(r)' = CountsSignalled(r)
        /\ \A q \in Ranks : \A j \in Nat : WroteCounts(r, j, q)' <=> WroteCounts(r, j, q)
    BY <1>1 DEF Signalled, Passed, CountsSignalled, WroteCounts
  <2>2. \A q \in Ranks : \A j \in Nat : Wrote(r, j, q)' <=> Wrote(r, j, q) \/ (j = i /\ q = peer)
    BY <1>1, <1>2 DEF Wrote, i
  <2> QED  BY <1>2, <2>1, <2>2, Others
<1>9. DataInv'
  <2> SUFFICES ASSUME NEW j \in 1..Last, NEW s \in Ranks, NEW row \in Rows, NEW w \in Ranks, NEW q \in Ranks,
                      w = Writer(j, s, row)', q = Reader(j, s, row)', Wrote(w, j, q)',
                      \A z \in Ranks : ~Wrote(z, j + BufferCount, q)'
               PROVE  (hidden[q][(j - 1) % BufferCount][Spot(j, s, row)] = RowValue(j, s, row))'
    BY DEF DataInv
  <2> DEFINE c == (j - 1) % BufferCount
             v == RowValue(j, s, row)
             p == Spot(j, s, row)
  <2>1. /\ w = Writer(j, s, row) /\ q = Reader(j, s, row)
        /\ Spot(j, s, row)' = Spot(j, s, row) /\ RowValue(j, s, row)' = v
    BY <1>1, SameMoves
  <2>2. /\ j \in Nat /\ j >= 1 /\ j + BufferCount \in Nat /\ BufferCount \in Nat /\ BufferCount >= 2
        /\ j - 1 \in Int /\ i - 1 \in Int
    BY <1>3, ProgramIs, BufferCountIs
  <2>3. c \in Buffers
    BY <2>2, BufferOf
  <2>4. \A z \in Ranks : ~Wrote(z, j + BufferCount, q)
    BY <1>8, <2>2
  <2>5. Wrote(w, j, q) => hidden[q][c][p] = v
    BY <2>1, <2>4 DEF DataInv
  <2>6. Wrote(w, j, q) \/ (w = r /\ j = i /\ q = peer)
    BY <1>8, <2>2
  <2> HIDE DEF c, v, p
  <2> SUFFICES hidden'[q][c][p] = v
    BY <2>1 DEF c, v, p
  <2>7. CASE ~(q = peer /\ c = b)
    <3>1. hidden'[q][c] = hidden[q][c]
      BY <1>6, <2>3, <2>7
    <3>2. ~(j = i /\ q = peer)
      BY <1>3, <2>7 DEF c
    <3> QED  BY <2>5, <2>6, <3>1, <3>2
  <2>8. CASE q = peer /\ c = b
    <3>1. hidden'[q][c] = new
      BY <1>6, <2>3, <2>8
    <3>2. CASE j = i
      <4>1. new[p] = IF w = r THEN v ELSE buf[p]
        BY <1>5, <2>1, <2>8, <3>2 DEF p, v
      <4>2. CASE w = r
        BY <3>1, <4>1, <4>2
      <4>3. CASE w # r
        BY <2>5, <2>6, <2>8, <3>1, <4>1, <4>3
      <4> QED  BY <4>2, <4>3
    <3>3. CASE j < i
      <4>1. (j - 1) + BufferCount <= i - 1
        <5> DEFINE x == j - 1
                   y == i - 1
        <5>1. x \in Int /\ y \in Int /\ x < y /\ x % BufferCount = y % BufferCount
          BY <1>3, <2>2, <2>8, <3>3 DEF c
        <5> HIDE DEF x, y
        <5>2. x + BufferCount <= y
          BY <5>1, RoundApart
        <5> QED  BY <5>2 DEF x, y
      <4>2. j + BufferCount <= i
        BY <1>3, <2>2, <4>1
      <4>3. Wrote(r, j + BufferCount, q)'
        <5>1. CASE j + BufferCount = i
          BY <1>8, <2>2, <2>8, <5>1
        <5>2. CASE j + BufferCount < i
          <6>1. Wrote(r, j + BufferCount, q)
            BY <5>2 DEF Wrote, i
          <6> QED  BY <1>8, <2>2, <6>1
        <5> QED  BY <1>3, <2>2, <4>2, <5>1, <5>2
      <4> QED  BY <4>3
    <3>4. CASE i < j
      <4>1. (i - 1) + BufferCount <= j - 1
        <5> DEFINE x == i - 1
                   y == j - 1
        <5>1. x \in Int /\ y \in Int /\ x < y /\ x % BufferCount = y % BufferCount
          BY <1>3, <2>2, <2>8, <3>4 DEF c
        <5> HIDE DEF x, y
        <5>2. x + BufferCount <= y
          BY <5>1, RoundApart
        <5> QED  BY <5>2 DEF x, y
      <4>2. Wrote(w, j, q)
        BY <1>3, <2>2, <2>6, <3>4
      <4>3. j - 1 <= Passed(w) /\ Passed(w) \in Nat
        BY <2>2, <4>2, ProgressIs
      <4>4. Passed(w) <= Signalled(r)
        BY DEF GateInv
      <4> QED  BY <1>3, <2>2, <4>1, <4>3, <4>4
    <3> QED  BY <1>3, <2>2, <3>2, <3>3, <3>4
  <2> QED  BY <2>7, <2>8
<1>10. GateInv'
  BY <1>8, GateKept, ProgressIs
<1>11. CountsInv'
  <2>1. \A s, q \in Ranks : \A j \in 1..Last : WroteCounts(s, j, q)' <=> WroteCounts(s, j, q)
    BY <1>8, ProgramIs
  <2> QED  BY <1>1, <2>1, CountsKept
<1>12. PhaseInv' /\ MetaInv' /\ TensorInv' /\ SavedInv'
  BY <1>1, PhaseKept, MetaKept, TensorKept, SavedKept
<1>13. CountInv'
  BY <1>1, <1>8, CountKept
<1> QED  BY <1>7, <1>9, <1>10, <1>11, <1>12, <1>13

\* Announcing the rows moves index and handle on by one.
LEMMA SignalRowsKeeps ==
    ASSUME IndInv, NEW r \in Ranks, SignalRows(r)
    PROVE  IndInv'
<1> USE DEF IndInv
<1>1. /\ phase[r] = "rows" /\ todo[r] = {}
      /\ arrived' = [arrived EXCEPT ![index[r]][r] = @ + 1]
      /\ index' = [index EXCEPT ![r] = (@ + 1) % BufferCount]
      /\ phase' = [phase EXCEPT ![r] = "rowsWait"]
      /\ ids' = ids /\ at' = at /\ todo' = todo /\ hidden' = hidden /\ countsBuf' = countsBuf
      /\ meta' = meta /\ tensor' = tensor /\ saved' = saved
  BY DEF SignalRows, Arrive
<1> DEFINE i == at[r]
           n == i - 1
           b == index[r]
<1>2. phase' \in [Ranks -> Phases] /\ phase'[r] = "rowsWait" /\ OthersSame(r)
  BY <1>1 DEF ShapeInv, OthersSame, Phases
<1>3. /\ i \in 1..Last /\ n \in Nat /\ n + 1 = i /\ Signalled(r) = n /\ Signalled(r)' = n + 1
      /\ b = n % BufferCount /\ b \in Buffers
  <2>1. i \in 1..Last /\ n \in Nat /\ n + 1 = i
    BY <1>1, InProgram, ProgramIs
  <2> QED  BY <1>1, <1>2, <2>1, BufferIs DEF Signalled, ShapeInv
<1>4. /\ index' \in [Ranks -> Buffers]
      /\ \A s \in Ranks : index'[s] = IF s = r THEN (n + 1) % BufferCount ELSE index[s]
  <2>1. (b + 1) % BufferCount = (n + 1) % BufferCount
    BY <1>3, TurnOn
  <2>2. (b + 1) % BufferCount \in Buffers
    BY <1>3, <2>1, BufferOf
  <2> QED  BY <1>1, <2>1, <2>2 DEF ShapeInv
<1> HIDE DEF b
<1>5. /\ CountsHandle \in Handles /\ CountsHandle \notin Buffers /\ Buffers \subseteq Handles
      /\ arrived' \in [Handles -> [Ranks -> Nat]]
      /\ \A c \in Buffers, s \in Ranks : arrived'[c][s] = IF c = b /\ s = r THEN arrived[b][r] + 1 ELSE arrived[c][s]
      /\ arrived'[CountsHandle] = arrived[CountsHandle]
  <2>1. CountsHandle \in Handles /\ CountsHandle \notin Buffers /\ Buffers \subseteq Handles
    BY BufferCountIs DEF CountsHandle, Handles, Buffers
  <2>2. arrived \in [Handles -> [Ranks -> Nat]] /\ arrived' = [arrived EXCEPT ![b][r] = @ + 1]
    BY <1>1 DEF ShapeInv, b
  <2> QED  BY <1>3, <2>1, <2>2
<1>6. ShapeInv'
  <2>1. /\ ids' = ids /\ at' = at /\ todo' = todo /\ hidden' = hidden
        /\ countsBuf' = countsBuf /\ meta' = meta /\ tensor' = tensor /\ saved' = saved
    BY <1>1
  <2>2. at' \in [Ranks -> 1..(Last' + 1)]
    BY <2>1 DEF ShapeInv, Last
  <2>3. index' \in [Ranks -> Buffers] /\ arrived' \in [Handles -> [Ranks -> Nat]]
    BY <1>4, <1>5
  <2> QED  BY <1>2, <2>1, <2>2, <2>3 DEF ShapeInv, IsBuffer
<1>7. /\ \A s \in Ranks : Passed(s)' = Passed(s) /\ CountsSignalled(s)' = CountsSignalled(s)
      /\ \A s \in Ranks : s # r => Signalled(s)' = Signalled(s)
      /\ \A s, q \in Ranks : \A j \in Nat : /\ Wrote(s, j, q)' <=> Wrote(s, j, q)
                                            /\ WroteCounts(s, j, q)' <=> WroteCounts(s, j, q)
  <2>1. /\ Passed(r)' = Passed(r) /\ CountsSignalled(r)' = CountsSignalled(r)
        /\ \A q \in Ranks : \A j \in Nat : /\ Wrote(r, j, q)' <=> Wrote(r, j, q)
                                           /\ WroteCounts(r, j, q)' <=> WroteCounts(r, j, q)
    BY <1>1, <1>2 DEF Passed, CountsSignalled, Wrote, WroteCounts
  <2> QED  BY <1>2, <2>1, Others
<1> HIDE DEF n, i
<1>8. CountInv'
  <2> SUFFICES ASSUME NEW s \in Ranks
               PROVE  /\ index'[s] = Signalled(s)' % BufferCount
                      /\ \A c \in Buffers : arrived'[c][s] = PrefixSum(ByBuffer(c), Signalled(s)')
                      /\ arrived'[CountsHandle][s] = PrefixSum(ByCounts, CountsSignalled(s)')
    BY DEF CountInv, PrefixSum, ByBuffer, ByCounts, Kind, Buffers, CountsHandle
  <2>1. arrived'[CountsHandle][s] = PrefixSum(ByCounts, CountsSignalled(s)')
    BY <1>5, <1>7 DEF CountInv
  <2>2. CASE s # r
    BY <1>4, <1>5, <1>7, <2>1, <2>2 DEF CountInv
  <2>3. CASE s = r
    <3>1. index'[s] = Signalled(s)' % BufferCount
      BY <1>3, <1>4, <2>3
    <3>2. ASSUME NEW c \in Buffers PROVE arrived'[c][r] = PrefixSum(ByBuffer(c), n + 1)
      <4>1. PrefixSum(ByBuffer(c), n + 1) = PrefixSum(ByBuffer(c), n) + ByBuffer(c)[n]
        BY <1>3, SumStep
      <4>2. arrived[c][r] = PrefixSum(ByBuffer(c), n) /\ arrived[c][r] \in Nat
        BY <1>3, <1>5 DEF CountInv, ShapeInv
      <4>3. ByBuffer(c)[n] = IF c = b THEN 1 ELSE 0
        BY <1>3, CountersAre
      <4>4. CASE c = b
        BY <1>5, <4>1, <4>2, <4>3, <4>4
      <4>5. CASE c # b
        BY <1>5, <4>1, <4>2, <4>3, <4>5
      <4> QED  BY <4>4, <4>5
    <3> QED  BY <1>3, <2>1, <2>3, <3>1, <3>2
  <2> QED  BY <2>2, <2>3
<1>9. GateInv'
  <2>1. \A s \in Ranks : Signalled(s) \in Nat
    BY ProgressIs
  <2>2. \A s \in Ranks : Signalled(s)' \in Nat /\ Signalled(s)' >= Signalled(s)
    BY <1>3, <1>7, <2>1
  <2> QED  BY <1>7, <2>2, GateKept
<1>10. CountsInv'
  <2>1. \A s, q \in Ranks : \A j \in 1..Last : WroteCounts(s, j, q)' <=> WroteCounts(s, j, q)
    BY <1>7, ProgramIs
  <2> QED  BY <1>1, <2>1, CountsKept
<1>11. PhaseInv' /\ MetaInv' /\ TensorInv' /\ SavedInv'
  <2>1. \A s \in Ranks : phase'[s] = IF s = r THEN "rowsWait" ELSE phase[s]
    BY <1>1 DEF ShapeInv
  <2>2. PhaseInv'
    BY <1>1, <2>1, PhaseKept
  <2>3. MetaInv'
    BY <1>1, <2>1, MetaKept
  <2>4. TensorInv'
    BY <1>1, <2>1, TensorKept
  <2> QED  BY <1>1, <2>2, <2>3, <2>4, SavedKept
<1>12. DataInv'
  BY <1>1, <1>7, DataKept
<1> QED  BY <1>6, <1>8, <1>9, <1>10, <1>11, <1>12

\* What the experts make of the rows of one operation are those of the next.
LEMMA ExpertsGive ==
    ASSUME IndInv, NEW r \in Ranks, phase[r] = "use", NEW k \in 1..Last, k = at[r] + 1, ~Forth(k)
    PROVE  /\ Kind(at[r]) = "dispatch" => ExpertForward(r) = HomeRows(k, r)
           /\ Kind(at[r]) = "combine_backward" => ExpertBackward(r) = HomeRows(k, r)
           /\ Kind(at[r]) \in {"dispatch", "combine_backward"}
<1> USE DEF IndInv
<1> DEFINE n == at[r]
           A == ActiveRows(Table(W(n)), r)
           b(p) == Back(n, r)[p]
<1>1. n \in 1..Last /\ k - 1 = n
  <2>1. at[r] \in 1..Last /\ k = at[r] + 1
    BY InProgram
  <2>2. n \in Int
    BY <2>1, LastIs
  <2> QED  BY <2>1, <2>2
<1>2. /\ LayerOf(k) = LayerOf(n) /\ Kind(k) \in {"combine", "dispatch_backward"}
      /\ Kind(k) = "combine" => Kind(n) = "dispatch"
      /\ Kind(k) = "dispatch_backward" => Kind(n) = "combine_backward"
  <2>1. Kind(k) \in {"combine", "dispatch_backward"}
    BY Follows DEF Forth
  <2> QED  BY <1>1, <2>1, Follows
<1>3. W(k) = W(n)
  BY <1>2 DEF W
<1>4. Back(k, r) = Back(n, r) /\ HomeRows(k, r) = [p \in 0..(A - 1) |-> RowValue(k, b(p).rank, b(p).row)]
  BY <1>3 DEF HomeRows, Back
<1>5. Active(r) = 0..(A - 1)
  BY TargetIs
<1>6. Forth(n)
  BY <1>2 DEF Forth
<1>7. ASSUME NEW p \in Active(r)
      PROVE  /\ Delivered(r)[p] = RowValue(n, b(p).rank, b(p).row)
             /\ meta[r].expert[p] = ExpertAt(W(n), b(p).rank, b(p).row)
  BY <1>6, ExpertsGet
<1>8. \A s, row : TokenAt(k, s, row) = TokenAt(n, s, row) /\ GradAt(k, s, row) = GradAt(n, s, row)
  BY <1>2, <1>3 DEF TokenAt, GradAt
<1> HIDE DEF b, A, n
<1>9. ASSUME Kind(n) = "dispatch" PROVE ExpertForward(r) = HomeRows(k, r)
  <2>1. Kind(k) = "combine"
    BY <1>2, <1>9
  <2>2. ASSUME NEW p \in Active(r)
        PROVE  ExpertOut(meta[r].expert[p], Delivered(r)[p]) = RowValue(k, b(p).rank, b(p).row)
    BY <1>3, <1>7, <1>8, <1>9, <2>1 DEF RowValue
  <2>3. ExpertForward(r) = [p \in Active(r) |-> ExpertOut(meta[r].expert[p], Delivered(r)[p])]
    BY DEF ExpertForward
  <2> QED  BY <1>4, <1>5, <2>2, <2>3
<1>10. ASSUME Kind(n) = "combine_backward" PROVE ExpertBackward(r) = HomeRows(k, r)
  <2>1. Kind(k) = "dispatch_backward"
    BY <1>2, <1>10
  <2>2. ASSUME NEW p \in Active(r)
        PROVE  ExpertGrad(meta[r].expert[p], Delivered(r)[p]) = RowValue(k, b(p).rank, b(p).row)
    BY <1>3, <1>7, <1>8, <1>10, <2>1 DEF RowValue
  <2>3. ExpertBackward(r) = [p \in Active(r) |-> ExpertGrad(meta[r].expert[p], Delivered(r)[p])]
    BY DEF ExpertBackward
  <2> QED  BY <1>4, <1>5, <2>2, <2>3
<1> QED  BY <1>2, <1>9, <1>10 DEF n

\* The next operation starts with the results of this one.
LEMMA UseKeeps ==
    ASSUME IndInv, NEW r \in Ranks, Use(r)
    PROVE  IndInv'
<1> USE DEF IndInv
<1> DEFINE made == CASE Doing(r).kind = "dispatch" -> ExpertForward(r)
                     [] Doing(r).kind = "combine_backward" -> ExpertBackward(r)
                     [] OTHER -> <<>>
           kept == CASE Doing(r).kind = "dispatch" -> [saved[r] EXCEPT !.input = Buffer(r)]
                     [] Doing(r).kind = "combine" -> [saved[r] EXCEPT !.routed = Buffer(r)]
                     [] OTHER -> saved[r]
           then == IF at[r] = Len(Program) THEN "done"
                   ELSE IF Program[at[r] + 1].kind = "dispatch" THEN "counts" ELSE "rows"
<1>1. /\ phase[r] = "use"
      /\ tensor' = [tensor EXCEPT ![r] = made]
      /\ saved' = [saved EXCEPT ![r] = kept]
      /\ at' = [at EXCEPT ![r] = @ + 1]
      /\ phase' = [phase EXCEPT ![r] = then]
      /\ todo' = [todo EXCEPT ![r] = Ranks]
      /\ ids' = ids /\ index' = index /\ hidden' = hidden /\ countsBuf' = countsBuf
      /\ arrived' = arrived /\ meta' = meta
  BY DEF Use, ShapeInv
<1> DEFINE n == at[r]
           k == n + 1
<1>2. /\ n \in 1..Last /\ n \in Nat /\ n >= 1 /\ Last \in Nat /\ k \in 1..(Last + 1) /\ k - 1 = n
      /\ n # Last => k \in 1..Last
  <2>1. at[r] \in 1..Last
    BY <1>1, InProgram
  <2>2. n \in 1..Last /\ Last \in Nat
    BY <2>1, LastIs
  <2> HIDE DEF n
  <2> QED  BY <2>2
<1>3. Buffer(r) = (n - 1) % BufferCount /\ Buffer(r) \in Buffers
  <2>1. Buffer(r) = (n - 1) % BufferCount
    BY <1>1, BufferIs
  <2>2. n - 1 \in Int
    BY <1>2
  <2> QED  BY <2>1, <2>2, BufferOf
<1>4. then = IF n = Last THEN "done" ELSE IF Kind(k) = "dispatch" THEN "counts" ELSE "rows"
  BY ProgramIs DEF Kind
<1>5. /\ kept \in [input : Buffers, routed : Buffers]
      /\ Kind(n) = "combine" => kept.routed = Buffer(r)
  <2>1. saved[r] \in [input : Buffers, routed : Buffers]
    BY DEF ShapeInv
  <2>2. Doing(r).kind = Kind(n)
    BY DoingIs
  <2> HIDE DEF n, k
  <2>3. CASE Kind(n) = "dispatch"
    BY <1>3, <2>1, <2>2, <2>3
  <2>4. CASE Kind(n) = "combine"
    BY <1>3, <2>1, <2>2, <2>4
  <2>5. CASE Kind(n) \notin {"dispatch", "combine"}
    BY <2>1, <2>2, <2>5
  <2> QED  BY <2>3, <2>4, <2>5
<1> HIDE DEF made, kept, then
<1>6. /\ at' \in [Ranks -> 1..(Last + 1)] /\ at'[r] = k
      /\ phase' \in [Ranks -> Phases] /\ phase'[r] = then
      /\ todo' \in [Ranks -> SUBSET Ranks] /\ todo'[r] = Ranks
      /\ OthersSame(r)
  <2>1. then \in Phases
    BY <1>4 DEF Phases
  <2> QED  BY <1>1, <1>2, <2>1 DEF ShapeInv, OthersSame
<1>7. /\ tensor' = [s \in Ranks |-> tensor'[s]]
      /\ \A s \in Ranks : tensor'[s] = IF s = r THEN made ELSE tensor[s]
      /\ saved' \in [Ranks -> [input : Buffers, routed : Buffers]]
      /\ \A s \in Ranks : saved'[s] = IF s = r THEN kept ELSE saved[s]
  <2>1. tensor = [s \in Ranks |-> tensor[s]] /\ saved \in [Ranks -> [input : Buffers, routed : Buffers]]
    BY DEF ShapeInv
  <2> QED  BY <1>1, <1>5, <2>1
<1>8. ShapeInv'
  <2>1. /\ ids' = ids /\ index' = index /\ hidden' = hidden /\ countsBuf' = countsBuf
        /\ arrived' = arrived /\ meta' = meta
    BY <1>1
  <2>2. at' \in [Ranks -> 1..(Last' + 1)]
    BY <1>6 DEF Last
  <2> QED  BY <1>6, <1>7, <2>1, <2>2 DEF ShapeInv, IsBuffer
<1> HIDE DEF n, k
<1>9. /\ \A s \in Ranks : Signalled(s)' = Signalled(s) /\ Passed(s)' = Passed(s)
      /\ \A s \in Ranks : s # r => CountsSignalled(s)' = CountsSignalled(s)
      /\ CountsSignalled(r) = n /\ CountsSignalled(r)' = IF then = "rows" THEN n + 1 ELSE n
      /\ \A s, q \in Ranks : \A j \in Nat : Wrote(s, j, q)' <=> Wrote(s, j, q)
      /\ \A s, q \in Ranks : \A j \in 1..Last : WroteCounts(s, j, q)' <=> WroteCounts(s, j, q)
  <2>1. k = n + 1 /\ n = at[r] /\ n \in Nat
    BY <1>2 DEF k, n
  <2>2. /\ Signalled(r)' = Signalled(r) /\ Passed(r)' = Passed(r)
        /\ CountsSignalled(r) = n /\ CountsSignalled(r)' = IF then = "rows" THEN n + 1 ELSE n
    BY <1>1, <1>4, <1>6, <2>1 DEF Signalled, Passed, CountsSignalled
  <2>3. ASSUME NEW q \in Ranks, NEW j \in Nat PROVE Wrote(r, j, q)' <=> Wrote(r, j, q)
    BY <1>1, <1>4, <1>6, <2>1 DEF Wrote
  <2>4. ASSUME NEW q \in Ranks, NEW j \in 1..Last PROVE WroteCounts(r, j, q)' <=> WroteCounts(r, j, q)
    <3>1. j \in Nat /\ j <= Last
      BY <1>2
    <3>2. CASE j <= n
      BY <1>1, <1>6, <2>1, <3>1, <3>2 DEF WroteCounts, Kind
    <3>3. CASE j > n
      <4>1. ~WroteCounts(r, j, q)
        BY <2>1, <3>1, <3>3 DEF WroteCounts
      <4>2. j = k /\ Kind(j) = "dispatch" => then = "counts"
        BY <1>2, <1>4, <2>1, <3>1
      <4>3. ~WroteCounts(r, j, q)'
        BY <1>6, <2>1, <3>1, <3>3, <4>2 DEF WroteCounts, Kind
      <4> QED  BY <4>1, <4>3
    <3> QED  BY <2>1, <3>1, <3>2, <3>3
  <2> QED  BY <1>2, <1>6, <2>2, <2>3, <2>4, Others
<1>10. PhaseInv'
  <2> SUFFICES ASSUME NEW s \in Ranks
               PROVE  /\ phase'[s] = "done" <=> at'[s] = Last + 1
                      /\ phase'[s] \in {"counts", "countsWait"} => Kind(at'[s]) = "dispatch"
    BY DEF PhaseInv, Kind, Last
  <2>1. CASE s = r
    BY <1>2, <1>4, <1>6, <2>1 DEF k
  <2>2. CASE s # r
    BY <1>6, <2>2 DEF PhaseInv, OthersSame
  <2> QED  BY <2>1, <2>2
<1>11. CountInv'
  <2>1. PrefixSum(ByCounts, CountsSignalled(r)') = PrefixSum(ByCounts, n)
    <3>1. CASE then = "rows"
      <4>1. ByCounts[n] = 0
        BY <1>2, <1>4, <3>1, CountersAre DEF k
      <4>2. PrefixSum(ByCounts, n + 1) = PrefixSum(ByCounts, n) + 0
        BY <1>2, <4>1, SumStep
      <4>3. PrefixSum(ByCounts, n) \in Nat
        <5>1. arrived[CountsHandle][r] \in Nat
          BY DEF ShapeInv, Handles
        <5> QED  BY <1>9, <5>1 DEF CountInv
      <4> QED  BY <1>9, <3>1, <4>2, <4>3
    <3>2. CASE then # "rows"
      BY <1>9, <3>2
    <3> QED  BY <3>1, <3>2
  <2> SUFFICES ASSUME NEW s \in Ranks
               PROVE  /\ index'[s] = Signalled(s)' % BufferCount
                      /\ \A b \in Buffers : arrived'[b][s] = PrefixSum(ByBuffer(b), Signalled(s)')
                      /\ arrived'[CountsHandle][s] = PrefixSum(ByCounts, CountsSignalled(s)')
    BY DEF CountInv, PrefixSum, ByBuffer, ByCounts, Kind, Buffers, CountsHandle
  <2>2. /\ index'[s] = Signalled(s)' % BufferCount
        /\ \A b \in Buffers : arrived'[b][s] = PrefixSum(ByBuffer(b), Signalled(s)')
    BY <1>1, <1>9 DEF CountInv
  <2>3. CASE s = r
    BY <1>1, <1>9, <2>1, <2>2, <2>3 DEF CountInv
  <2>4. CASE s # r
    BY <1>1, <1>9, <2>2, <2>4 DEF CountInv
  <2> QED  BY <2>3, <2>4
<1>12. GateInv'
  BY <1>9, GateKept, ProgressIs
<1>13. CountsInv'
  BY <1>1, <1>9, CountsKept
<1>14. MetaInv'
  <2> SUFFICES ASSUME NEW s \in Ranks, NEW i \in 1..Last, at'[s] = i, phase'[s] \in {"rows", "rowsWait", "use"}
               PROVE  meta'[s] = DirectMetadata(Table(W(i)'), s)
    BY DEF MetaInv
  <2>1. W(i)' = W(i)
    BY <1>1, SameMoves
  <2>2. CASE s = r
    <3>1. i = k /\ Kind(k) # "dispatch" /\ n \in 1..Last
      BY <1>2, <1>4, <1>6, <2>2
    <3>2. LayerOf(k) = LayerOf(n)
      BY <1>2, <3>1, Follows
    <3>3. W(i) = W(n)
      BY <3>1, <3>2 DEF W
    <3>4. meta[r] = DirectMetadata(Table(W(n)), r)
      BY <1>1, <3>1 DEF MetaInv, n
    <3> QED  BY <1>1, <2>1, <2>2, <3>3, <3>4
  <2>3. CASE s # r
    BY <1>1, <1>6, <2>1, <2>3 DEF MetaInv, OthersSame
  <2> QED  BY <2>2, <2>3
<1>15. TensorInv'
  <2> SUFFICES ASSUME NEW s \in Ranks, NEW i \in 1..Last, at'[s] = i, phase'[s] = "rows", ~Forth(i)
               PROVE  tensor'[s] = HomeRows(i, s)'
    BY DEF TensorInv, Forth, Kind
  <2>1. HomeRows(i, s)' = HomeRows(i, s)
    BY <1>1, SameMoves
  <2>2. CASE s = r
    <3>1. i = n + 1 /\ n = at[r]
      BY <1>6, <2>2 DEF k, n
    <3>2. /\ Kind(n) = "dispatch" => ExpertForward(r) = HomeRows(i, r)
          /\ Kind(n) = "combine_backward" => ExpertBackward(r) = HomeRows(i, r)
          /\ Kind(n) \in {"dispatch", "combine_backward"}
      BY <1>1, <3>1, ExpertsGive
    <3>3. Doing(r).kind = Kind(n)
      BY <3>1, DoingIs
    <3>4. made = HomeRows(i, r)
      BY <3>2, <3>3 DEF made
    <3> QED  BY <1>7, <2>1, <2>2, <3>4
  <2>3. CASE s # r
    BY <1>6, <1>7, <2>1, <2>3 DEF TensorInv, OthersSame
  <2> QED  BY <2>2, <2>3
<1>16. SavedInv'
  <2> SUFFICES ASSUME NEW s \in Ranks, at'[s] \in 1..Last, Kind(at'[s]) = "combine_backward"
               PROVE  saved'[s].routed = (at'[s] - 2) % BufferCount
    BY DEF SavedInv, Kind, Last
  <2>1. CASE s = r
    <3>1. Kind(k) = "combine_backward" /\ k \in 1..Last
      BY <1>6, <2>1
    <3>2. Kind(n) = "combine"
      BY <1>2, <3>1, Follows
    <3>3. saved'[r].routed = (n - 1) % BufferCount
      BY <1>3, <1>5, <1>7, <3>2
    <3>4. n - 1 = at'[r] - 2
      BY <1>2, <1>6
    <3> QED  BY <2>1, <3>3, <3>4
  <2>2. CASE s # r
    BY <1>6, <1>7, <2>2 DEF SavedInv, OthersSame
  <2> QED  BY <2>1, <2>2
<1>17. DataInv'
  BY <1>1, <1>9, DataKept
<1> QED  BY <1>8, <1>10, <1>11, <1>12, <1>13, <1>14, <1>15, <1>16, <1>17

\* The invariant holds before the first operation, ...
LEMMA InitInv ==
    ASSUME Init
    PROVE  IndInv
<1> USE DEF Init
<1>1. Last \in Nat \ {0} /\ 1 \in 1..(Last + 1) /\ Kind(1) = "dispatch" /\ BufferCount \in Nat /\ BufferCount >= 2
  BY ProgramIs, Follows, BufferCountIs
<1>2. 0 \in Buffers
  BY <1>1 DEF Buffers
<1>3. \A r \in Ranks : /\ at[r] = 1 /\ phase[r] = "counts" /\ todo[r] = Ranks
                       /\ Signalled(r) = 0 /\ Passed(r) = 0 /\ CountsSignalled(r) = 0
  BY DEF Signalled, Passed, CountsSignalled
<1>4. ASSUME NEW r \in Ranks, NEW q \in Ranks, NEW i \in 1..Last
      PROVE  ~Wrote(r, i, q) /\ ~WroteCounts(r, i, q)
  BY <1>1, <1>3, <1>4 DEF Wrote, WroteCounts
<1>5. ShapeInv
  <2>1. /\ hidden = [r \in Ranks |-> hidden[r]]
        /\ \A r \in Ranks : /\ hidden[r] = [b \in Buffers |-> hidden[r][b]]
                            /\ \A b \in Buffers : IsBuffer(hidden[r][b])
    BY DEF IsBuffer
  <2>2. /\ countsBuf = [r \in Ranks |-> countsBuf[r]]
        /\ \A r \in Ranks : countsBuf[r] = [s \in Ranks |-> countsBuf[r][s]]
    OBVIOUS
  <2>3. meta = [r \in Ranks |-> meta[r]] /\ tensor = [r \in Ranks |-> tensor[r]]
    OBVIOUS
  <2>4. /\ at \in [Ranks -> 1..(Last + 1)] /\ phase \in [Ranks -> Phases] /\ todo \in [Ranks -> SUBSET Ranks]
        /\ index \in [Ranks -> Buffers] /\ saved \in [Ranks -> [input : Buffers, routed : Buffers]]
    BY <1>1, <1>2 DEF Phases
  <2>5. arrived \in [Handles -> [Ranks -> Nat]]
    OBVIOUS
  <2>6. ids \in LayerRoutings
    OBVIOUS
  <2> QED  BY <2>1, <2>2, <2>3, <2>4, <2>5, <2>6 DEF ShapeInv
<1>6. PhaseInv
  BY <1>1, <1>3 DEF PhaseInv
<1>7. CountInv
  <2>1. \A f : PrefixSum(f, 0) = 0
    BY SumStep
  <2>2. 0 % BufferCount = 0
    BY <1>1
  <2>3. Buffers \subseteq Handles /\ CountsHandle \in Handles
    BY DEF Handles
  <2> SUFFICES ASSUME NEW r \in Ranks
               PROVE  /\ index[r] = Signalled(r) % BufferCount
                      /\ \A b \in Buffers : arrived[b][r] = PrefixSum(ByBuffer(b), Signalled(r))
                      /\ arrived[CountsHandle][r] = PrefixSum(ByCounts, CountsSignalled(r))
    BY DEF CountInv
  <2>4. \A h \in Handles : arrived[h][r] = 0
    OBVIOUS
  <2> QED  BY <1>3, <2>1, <2>2, <2>3, <2>4
<1>8. GateInv
  BY <1>3 DEF GateInv
<1>9. CountsInv
  BY <1>4 DEF CountsInv
<1>10. MetaInv /\ TensorInv
  BY <1>3 DEF MetaInv, TensorInv
<1>11. SavedInv
  BY <1>1, <1>3 DEF SavedInv
<1>12. DataInv
  BY <1>4 DEF DataInv
<1> QED  BY <1>5, <1>6, <1>7, <1>8, <1>9, <1>10, <1>11, <1>12 DEF IndInv

\* ... a step of nobody keeps it, ...
LEMMA IdleKeeps ==
    ASSUME IndInv, UNCHANGED vars
    PROVE  IndInv'
<1> USE DEF IndInv
<1>1. /\ ids' = ids /\ at' = at /\ phase' = phase /\ todo' = todo /\ index' = index /\ hidden' = hidden
      /\ countsBuf' = countsBuf /\ arrived' = arrived /\ meta' = meta /\ tensor' = tensor /\ saved' = saved
  BY DEF vars
<1>2. ShapeInv'
  BY <1>1 DEF ShapeInv, Last, IsBuffer
<1>3. /\ \A s \in Ranks : /\ Signalled(s)' = Signalled(s) /\ Passed(s)' = Passed(s)
                          /\ CountsSignalled(s)' = CountsSignalled(s)
      /\ \A s, q \in Ranks : \A i : /\ Wrote(s, i, q)' <=> Wrote(s, i, q)
                                    /\ WroteCounts(s, i, q)' <=> WroteCounts(s, i, q)
  BY <1>1, SameProgress
<1>4. GateInv'
  BY <1>3, GateKept, ProgressIs
<1>5. PhaseInv' /\ MetaInv' /\ TensorInv' /\ SavedInv'
  BY <1>1, PhaseKept, MetaKept, TensorKept, SavedKept
<1>6. CountInv'
  BY <1>1, <1>3, CountKept
<1>7. CountsInv'
  BY <1>1, <1>3, CountsKept
<1>8. DataInv'
  BY <1>1, <1>3, DataKept
<1> QED  BY <1>2, <1>4, <1>5, <1>6, <1>7, <1>8

\* ... and so does every step of a rank.
LEMMA InvHolds == Spec => []IndInv
<1>1. Init => IndInv
  BY InitInv
<1>2. IndInv /\ [Next]_vars => IndInv'
  <2> SUFFICES ASSUME IndInv, [Next]_vars PROVE IndInv'
    OBVIOUS
  <2>1. CASE Next
    <3>1. PICK r \in Ranks : RankStep(r)
      BY <2>1 DEF Next
    <3>2. ASSUME NEW peer \in Ranks, WriteCounts(r, peer) PROVE IndInv'
      BY <3>2, WriteCountsKeeps
    <3>3. ASSUME NEW peer \in Ranks, WriteRows(r, peer) PROVE IndInv'
      BY <3>3, WriteRowsKeeps
    <3>4. CASE SignalCounts(r)
      BY <3>4, SignalCountsKeeps
    <3>5. CASE ReadCounts(r)
      BY <3>5, ReadCountsKeeps
    <3>6. CASE SignalRows(r)
      BY <3>6, SignalRowsKeeps
    <3>7. CASE RowsReady(r)
      BY <3>7, RowsReadyKeeps
    <3>8. CASE Use(r)
      BY <3>8, UseKeeps
    <3> QED  BY <3>1, <3>2, <3>3, <3>4, <3>5, <3>6, <3>7, <3>8 DEF RankStep
  <2>2. CASE UNCHANGED vars
    BY <2>2, IdleKeeps
  <2> QED  BY <2>1, <2>2
<1> QED  BY <1>1, <1>2, PTL DEF Spec

\* Whatever the routing and however the ranks interleave, a rank finds in the buffer
\* it reads the rows a single rank with all experts would have computed with: the
\* tokens of its experts, the outputs of its tokens, and both gradients.
THEOREM ExchangesAgree == Spec => []ExchangesDeliver
<1>1. IndInv => ExchangesDeliver
  BY ExchangesFollow
<1> QED  BY <1>1, InvHolds, PTL

\* The routed output that combine leaves in a receive buffer, and autograd keeps a
\* view of, is still there when the backward of combine reads it.
THEOREM SavedOutputStays == Spec => []SavedOutputIntact
<1>1. IndInv => SavedOutputIntact
  BY SavedFollows
<1> QED  BY <1>1, InvHolds, PTL

\* A handle that counts operations has counted no more than there were.
LEMMA SumOfOnes ==
    ASSUME NEW f, \A k \in Nat : f[k] \in {0, 1}
    PROVE  \A n \in Nat : PrefixSum(f, n) \in 0..n
<1> DEFINE T == {n \in Nat : PrefixSum(f, n) \in 0..n}
<1>1. 0 \in T
  BY SumStep
<1>2. ASSUME NEW n \in Nat, n \in T PROVE n + 1 \in T
  BY <1>2, SumStep
<1> HIDE DEF T
<1>3. Nat \subseteq T
  BY <1>1, <1>2, NatInductionSet
<1> QED  BY <1>3 DEF T

\* The variables keep their types; no handle is signalled more often than the
\* step has operations.
THEOREM Typing == Spec => []TypeOK
<1>1. IndInv => TypeOK
  <2> SUFFICES ASSUME IndInv PROVE TypeOK
    OBVIOUS
  <2> USE DEF IndInv
  <2>1. Len(Program) = Last /\ Last \in Nat
    BY ProgramIs
  <2>2. ASSUME NEW h \in Handles, NEW r \in Ranks PROVE arrived[h][r] \in 0..Last
    <3>1. /\ at[r] \in 1..(Last + 1)
          /\ Signalled(r) \in Nat /\ CountsSignalled(r) \in Nat
      BY ProgressIs DEF ShapeInv
    <3>2. Signalled(r) <= Last /\ CountsSignalled(r) <= Last
      BY <2>1, <3>1 DEF PhaseInv, Signalled, CountsSignalled
    <3>3. CASE h \in Buffers
      <4>1. \A k \in Nat : ByBuffer(h)[k] \in {0, 1}
        BY CountersAre
      <4>2. PrefixSum(ByBuffer(h), Signalled(r)) \in 0..Signalled(r)
        BY <3>1, <4>1, SumOfOnes
      <4> QED  BY <2>1, <3>1, <3>2, <3>3, <4>2 DEF CountInv
    <3>4. CASE h = CountsHandle
      <4>1. \A k \in Nat : ByCounts[k] \in {0, 1}
        BY CountersAre
      <4>2. PrefixSum(ByCounts, CountsSignalled(r)) \in 0..CountsSignalled(r)
        BY <3>1, <4>1, SumOfOnes
      <4> QED  BY <2>1, <3>1, <3>2, <3>4, <4>2 DEF CountInv
    <3> QED  BY <3>3, <3>4 DEF Handles
  <2>3. arrived \in [Handles -> [Ranks -> 0..Last]]
    BY <2>2 DEF ShapeInv
  <2> QED  BY <2>1, <2>3 DEF ShapeInv, TypeOK, Phases
<1> QED  BY <1>1, InvHolds, PTL

\* The dispatchers are interchangeable: on the routing of every layer a token sums
\* the outputs of the same experts whichever dispatcher moves its slots, and with
\* sequence parallelism every row of the output is written once, by the rank that
\* holds the token read there.
THEOREM DispatchersSame == Spec => []DispatchersAgree
<1>1. IndInv => DispatchersAgree
  <2> SUFFICES ASSUME IndInv PROVE DispatchersAgree
    OBVIOUS
  <2>1. ids \in [1..Layers -> [Ranks -> Routings]]
    BY AsyncEPAssumption DEF IndInv, ShapeInv
  <2>2. \A l \in 1..Layers : SameSums(ids[l])
    BY <2>1, SumsAgree DEF Routing
  <2> QED  BY <2>2, PlacedOnce DEF DispatchersAgree
<1> QED  BY <1>1, InvHolds, PTL
=============================================================================
