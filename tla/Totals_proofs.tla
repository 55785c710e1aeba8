--------------------------- MODULE Totals_proofs ---------------------------
(***************************************************************************)
(* What the proofs about ledgers and leaderboards need to know of a sum:   *)
(* zeros sum up to zero, and a sum follows the one value that changes.     *)
(* The domain may be infinite as long as there are finitely many units.    *)
(***************************************************************************)
EXTENDS Totals, FiniteSetTheorems, TLAPS

\* There are finitely many units: the function has a sum.
HasTotal(f) == IsFiniteSet(Units(f)) /\ IsFiniteSet(Units(Negated(f)))

\* The value of f at x, zero outside its domain.
IsAt(f, x, a) == IF x \in DOMAIN f THEN f[x] = a ELSE a = 0

\* f and g differ at most in having a value at x, and in which.
AgreeButAt(f, g, x) ==
    /\ DOMAIN f \cup {x} = DOMAIN g \cup {x}
    /\ \A y \in DOMAIN f \cap DOMAIN g : y # x => f[y] = g[y]

\* How many units a value is.
Size(a) == IF a > 0 THEN a ELSE 0

-----------------------------------------------------------------------------
\* A value contributes the units between one and itself.
LEMMA UnitsOfValue ==
    ASSUME NEW x, NEW a \in Int
    PROVE  /\ IsFiniteSet({x} \X (1 .. a))
           /\ Cardinality({x} \X (1 .. a)) = Size(a)
  <1>1. IsFiniteSet(1 .. a) /\ Cardinality(1 .. a) = Size(a)
    BY FS_Interval DEF Size
  <1>2. IsFiniteSet({x}) /\ Cardinality({x}) = 1
    BY FS_Singleton
  <1>3. /\ IsFiniteSet({x} \X (1 .. a))
        /\ Cardinality({x} \X (1 .. a)) = Cardinality({x}) * Cardinality(1 .. a)
    BY <1>1, <1>2, FS_Product
  <1>4. Size(a) \in Int
    BY DEF Size
  <1> QED BY <1>1, <1>2, <1>3, <1>4

\* The units of g are those of f with the units of the changed value exchanged.
LEMMA UnitsChange ==
    ASSUME NEW f, NEW g, NEW x, NEW a \in Int, NEW b \in Int,
           IsFiniteSet(Units(f)), IsAt(f, x, a), IsAt(g, x, b), AgreeButAt(f, g, x)
    PROVE  /\ IsFiniteSet(Units(g))
           /\ Cardinality(Units(g)) = Cardinality(Units(f)) - Size(a) + Size(b)
  <1> DEFINE A == {x} \X (1 .. a)
             B == {x} \X (1 .. b)
             C == Units(f) \ A
  <1>1. A \subseteq Units(f) /\ B \subseteq Units(g)
    BY DEF Units, IsAt
  <1>2. Units(g) \subseteq C \cup B
    BY DEF Units, IsAt, AgreeButAt
  <1>3. C \subseteq Units(g)
    BY DEF Units, IsAt, AgreeButAt
  <1>4. C \cap B = {}
    BY DEF Units, IsAt
  <1>5. Units(g) = C \cup B /\ Units(f) \cap A = A
    BY <1>1, <1>2, <1>3
  <1>6. /\ IsFiniteSet(A) /\ Cardinality(A) = Size(a)
        /\ IsFiniteSet(B) /\ Cardinality(B) = Size(b)
    BY UnitsOfValue
  <1> HIDE DEF A, B
  <1>7. IsFiniteSet(C) /\ Cardinality(C) = Cardinality(Units(f)) - Size(a)
    BY <1>5, <1>6, FS_Difference
  <1> HIDE DEF C
  <1>8. IsFiniteSet(C \cup B) /\ Cardinality(C \cup B) = Cardinality(C) + Size(b) - 0
    BY <1>4, <1>6, <1>7, FS_Union, FS_EmptySet
  <1>9. Cardinality(Units(f)) \in Int /\ Size(a) \in Int /\ Size(b) \in Int
    BY FS_CardinalityType DEF Size
  <1> QED BY <1>5, <1>7, <1>8, <1>9

\* A sum is an integer.
LEMMA TotalTyped == ASSUME NEW f, HasTotal(f) PROVE Total(f) \in Int
  BY FS_CardinalityType DEF HasTotal, Total

\* Zeros sum up to zero, however many there are.
LEMMA TotalOfZeros ==
    ASSUME NEW f, \A x \in DOMAIN f : f[x] = 0
    PROVE  HasTotal(f) /\ Total(f) = 0
  <1>1. Units(f) = {} /\ Units(Negated(f)) = {}
    BY DEF Units, Negated
  <1> QED BY <1>1, FS_EmptySet DEF HasTotal, Total

\* Counting the members of a set is adding up their ones.
LEMMA TotalOfOnes ==
    ASSUME NEW f, HasTotal(f), NEW S \in SUBSET DOMAIN f,
           \A x \in DOMAIN f : f[x] = IF x \in S THEN 1 ELSE 0
    PROVE  IsFiniteSet(S) /\ Total(f) = Cardinality(S)
  <1> DEFINE U == S \X {1}
             first == [u \in U |-> u[1]]
  <1>1. Units(f) = U
    <2>1. 1 .. 1 = {1} /\ 1 .. 0 = {}
      OBVIOUS
    <2>2. \A x \in DOMAIN f : 1 .. f[x] = IF x \in S THEN {1} ELSE {}
      BY <2>1
    <2> QED BY <2>2 DEF Units
  <1>2. Units(Negated(f)) = {}
    BY DEF Units, Negated
  <1>3. IsFiniteSet(U)
    BY <1>1 DEF HasTotal
  <1>4. first \in Bijection(U, S)
    <2>1. first \in [U -> S]
      OBVIOUS
    <2>2. \A u, v \in U : first[u] = first[v] => u = v
      OBVIOUS
    <2>3. \A x \in S : <<x, 1>> \in U /\ first[<<x, 1>>] = x
      OBVIOUS
    <2> HIDE DEF first, U
    <2> QED BY <2>1, <2>2, <2>3 DEF Bijection, Injection, Surjection, IsInjective
  <1>5. IsFiniteSet(S) /\ Cardinality(S) = Cardinality(U)
    BY <1>3, <1>4, FS_Bijection DEF ExistsBijection
  <1>6. Cardinality(U) \in Nat /\ Cardinality({}) = 0
    BY <1>3, FS_CardinalityType, FS_EmptySet
  <1> QED BY <1>1, <1>2, <1>5, <1>6 DEF Total

\* When one value changes, or is added, the sum changes by the difference.
LEMMA TotalChange ==
    ASSUME NEW f, NEW g, NEW x, NEW a \in Int, NEW b \in Int,
           HasTotal(f), IsAt(f, x, a), IsAt(g, x, b), AgreeButAt(f, g, x)
    PROVE  HasTotal(g) /\ Total(g) = Total(f) - a + b
  <1>1. /\ IsFiniteSet(Units(g))
        /\ Cardinality(Units(g)) = Cardinality(Units(f)) - Size(a) + Size(b)
    BY UnitsChange DEF HasTotal
  <1>2. /\ IsAt(Negated(f), x, -a) /\ IsAt(Negated(g), x, -b)
        /\ AgreeButAt(Negated(f), Negated(g), x)
    BY DEF IsAt, AgreeButAt, Negated
  <1>3. /\ IsFiniteSet(Units(Negated(g)))
        /\ Cardinality(Units(Negated(g)))
             = Cardinality(Units(Negated(f))) - Size(-a) + Size(-b)
    BY <1>2, UnitsChange DEF HasTotal
  <1>4. /\ Cardinality(Units(f)) \in Int /\ Cardinality(Units(g)) \in Int
        /\ Cardinality(Units(Negated(f))) \in Int /\ Cardinality(Units(Negated(g))) \in Int
    BY <1>1, <1>3, FS_CardinalityType DEF HasTotal
  <1>5. Size(a) - Size(-a) = a /\ Size(b) - Size(-b) = b
        /\ Size(a) \in Int /\ Size(-a) \in Int /\ Size(b) \in Int /\ Size(-b) \in Int
    BY DEF Size
  <1>6. Total(g) = Total(f) - a + b
    BY <1>1, <1>3, <1>4, <1>5 DEF Total
  <1> QED BY <1>1, <1>3, <1>6 DEF HasTotal
=============================================================================
