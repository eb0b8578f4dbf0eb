--------------------------- MODULE Totals_proofs ---------------------------
(***************************************************************************)
(* What the other proofs need to know about totals over a finite set: the  *)
(* type, how a total changes with one value of the function, and how it    *)
(* compares with the values.                                               *)
(***************************************************************************)
EXTENDS Totals, FiniteSetTheorems, TLAPS

\* A unit is an element of the domain with a number that is at most its value.
LEMMA UnitsOf ==
  ASSUME NEW S, NEW f \in [S -> Nat]
  PROVE  /\ \A x \in S : \A i \in 1..f[x] : <<x, i>> \in Units(f)
         /\ \A u \in Units(f) : /\ u = <<u[1], u[2]>>
                                /\ u[1] \in S
                                /\ u[2] \in 1..f[u[1]]
<1>1. \A u : u \in Units(f) <=> \E x \in S : u \in {x} \X (1..f[x])
  BY DEF Units
<1> QED
  BY <1>1

\* A total over a finite set is a natural number.
LEMMA TotalType ==
  ASSUME NEW S, IsFiniteSet(S), NEW f \in [S -> Nat]
  PROVE  IsFiniteSet(Units(f)) /\ Total(f) \in Nat
<1> DEFINE part == [x \in S |-> {x} \X (1..f[x])]
           parts == {{x} \X (1..f[x]) : x \in S}
<1>1. \A p \in parts : IsFiniteSet(p)
  <2> SUFFICES ASSUME NEW x \in S PROVE IsFiniteSet({x} \X (1..f[x]))
    OBVIOUS
  <2>1. IsFiniteSet({x}) /\ IsFiniteSet(1..f[x])
    <3>1. IsFiniteSet({x})
      BY FS_Singleton
    <3>2. IsFiniteSet(1..f[x])
      BY FS_Interval
    <3> QED
      BY <3>1, <3>2
  <2> QED
    BY <2>1, FS_Product
<1>2. part \in Surjection(S, parts)
  BY DEF Surjection
<1>3. IsFiniteSet(parts)
  BY <1>2, FS_Surjection
<1>4. IsFiniteSet(UNION parts)
  BY <1>1, <1>3, FS_UNION
<1>5. Units(f) = UNION parts
  BY DEF Units
<1> QED
  BY <1>4, <1>5, FS_CardinalityType DEF Total

\* Nothing but zeros adds up to zero.
LEMMA TotalZero ==
  ASSUME NEW S, NEW f \in [S -> Nat], \A x \in S : f[x] = 0
  PROVE  Total(f) = 0
<1>1. Units(f) = {}
  BY UnitsOf
<1> QED
  BY <1>1, FS_EmptySet DEF Total

\* The units of one element.
LEMMA UnitsAt ==
  ASSUME NEW S, NEW f \in [S -> Nat], NEW x \in S
  PROVE  /\ IsFiniteSet({x} \X (1..f[x]))
         /\ Cardinality({x} \X (1..f[x])) = f[x]
         /\ {x} \X (1..f[x]) \subseteq Units(f)
<1>1. IsFiniteSet({x}) /\ Cardinality({x}) = 1
  BY FS_Singleton
<1>2. IsFiniteSet(1..f[x]) /\ Cardinality(1..f[x]) = f[x]
  BY FS_Interval
<1>3. /\ IsFiniteSet({x} \X (1..f[x]))
      /\ Cardinality({x} \X (1..f[x])) = 1 * f[x]
  BY <1>1, <1>2, FS_Product
<1>4. {x} \X (1..f[x]) \subseteq Units(f)
  BY DEF Units
<1> QED
  BY <1>3, <1>4

\* When the functions differ at one element at most, the totals differ by what
\* they differ there.
LEMMA TotalUpdate ==
  ASSUME NEW S, IsFiniteSet(S), NEW f \in [S -> Nat], NEW g \in [S -> Nat],
         NEW x \in S, \A y \in S \ {x} : g[y] = f[y]
  PROVE  Total(g) = Total(f) + g[x] - f[x]
<1> DEFINE F == {x} \X (1..f[x])
           G == {x} \X (1..g[x])
<1>1. /\ IsFiniteSet(Units(f)) /\ Total(f) \in Nat
      /\ IsFiniteSet(Units(g)) /\ Total(g) \in Nat
  BY TotalType
<1>2. /\ IsFiniteSet(F) /\ Cardinality(F) = f[x] /\ F \subseteq Units(f)
      /\ IsFiniteSet(G) /\ Cardinality(G) = g[x] /\ G \subseteq Units(g)
  BY UnitsAt
<1>3. Units(f) \ F = Units(g) \ G
  <2>1. ASSUME NEW u \in Units(f), u \notin F PROVE u \in Units(g) /\ u \notin G
    <3>1. u = <<u[1], u[2]>> /\ u[1] \in S /\ u[2] \in 1..f[u[1]]
      BY UnitsOf
    <3>2. u[1] # x
      BY <2>1, <3>1
    <3>3. <<u[1], u[2]>> \in Units(g)
      BY <3>1, <3>2, UnitsOf
    <3> QED
      BY <3>1, <3>2, <3>3
  <2>2. ASSUME NEW u \in Units(g), u \notin G PROVE u \in Units(f) /\ u \notin F
    <3>1. u = <<u[1], u[2]>> /\ u[1] \in S /\ u[2] \in 1..g[u[1]]
      BY UnitsOf
    <3>2. u[1] # x
      BY <2>2, <3>1
    <3>3. <<u[1], u[2]>> \in Units(f)
      BY <3>1, <3>2, UnitsOf
    <3> QED
      BY <3>1, <3>2, <3>3
  <2> QED
    BY <2>1, <2>2
<1>4. Units(f) \cap F = F /\ Units(g) \cap G = G
  BY <1>2
<1> HIDE DEF F, G
<1>5. Cardinality(Units(f) \ F) = Cardinality(Units(f)) - Cardinality(Units(f) \cap F)
  BY <1>1, FS_Difference
<1>6. Cardinality(Units(g) \ G) = Cardinality(Units(g)) - Cardinality(Units(g) \cap G)
  BY <1>1, FS_Difference
<1>7. Total(f) - f[x] = Total(g) - g[x]
  BY <1>2, <1>3, <1>4, <1>5, <1>6 DEF Total
<1> QED
  BY <1>1, <1>7

\* No value is larger than the total.
LEMMA TotalAtLeast ==
  ASSUME NEW S, IsFiniteSet(S), NEW f \in [S -> Nat], NEW x \in S
  PROVE  f[x] <= Total(f)
<1>1. IsFiniteSet(Units(f))
  BY TotalType
<1>2. Cardinality({x} \X (1..f[x])) = f[x] /\ {x} \X (1..f[x]) \subseteq Units(f)
  BY UnitsAt
<1> QED
  BY <1>1, <1>2, FS_Subset DEF Total

\* What moves from one element to another leaves the total as it is.
LEMMA TotalMove ==
  ASSUME NEW S, IsFiniteSet(S), NEW f \in [S -> Nat], NEW g \in [S -> Nat],
         NEW x \in S, NEW y \in S, x # y,
         \A z \in S \ {x, y} : g[z] = f[z]
  PROVE  Total(g) = Total(f) + g[x] + g[y] - f[x] - f[y]
<1> DEFINE h == [f EXCEPT ![x] = g[x]]
<1>1. /\ h \in [S -> Nat] /\ h[x] = g[x] /\ h[y] = f[y]
      /\ \A z \in S \ {x} : h[z] = f[z]
      /\ \A z \in S \ {y} : g[z] = h[z]
  OBVIOUS
<1> HIDE DEF h
<1>2. Total(h) = Total(f) + h[x] - f[x]
  BY <1>1, TotalUpdate
<1>3. Total(g) = Total(h) + g[y] - h[y]
  BY <1>1, TotalUpdate
<1>4. Total(f) \in Nat /\ Total(g) \in Nat /\ Total(h) \in Nat
  BY <1>1, TotalType
<1> QED
  BY <1>1, <1>2, <1>3, <1>4

\* With no value above n the total is at most n for each element.
LEMMA TotalBound ==
  ASSUME NEW S, IsFiniteSet(S), NEW n \in Nat, NEW f \in [S -> Nat],
         \A x \in S : f[x] <= n
  PROVE  Total(f) <= n * Cardinality(S)
<1>1. Units(f) \subseteq S \X (1..n)
  <2> SUFFICES ASSUME NEW u \in Units(f) PROVE u \in S \X (1..n)
    OBVIOUS
  <2>1. u = <<u[1], u[2]>> /\ u[1] \in S /\ u[2] \in 1..f[u[1]]
    BY UnitsOf
  <2>2. u[2] \in 1..n
    BY <2>1
  <2> QED
    BY <2>1, <2>2
<1>2. IsFiniteSet(1..n) /\ Cardinality(1..n) = n
  BY FS_Interval
<1>3. IsFiniteSet(S \X (1..n)) /\ Cardinality(S \X (1..n)) = Cardinality(S) * n
  BY <1>2, FS_Product
<1>4. Total(f) <= Cardinality(S) * n
  BY <1>1, <1>3, FS_Subset DEF Total
<1>5. Cardinality(S) \in Nat
  BY FS_CardinalityType
<1> QED
  BY <1>4, <1>5

=============================================================================
