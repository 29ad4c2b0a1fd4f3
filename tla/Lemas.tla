------------------------------- MODULE Lemas -------------------------------
(***************************************************************************)
(* Facts about finite sets of integers, sequences, counts and sums that    *)
(* the proofs of the other modules cite.                                   *)
(***************************************************************************)
EXTENDS Integers, SequencesExt, FiniteSetTheorems, SequenceTheorems, TLAPS

\* A finite set of integers that is not empty has a greatest element, and Max
\* is it.
LEMMA MaximoExiste ==
  ASSUME NEW S \in SUBSET Int, IsFiniteSet(S), S # {}
  PROVE  Max(S) \in S /\ \A y \in S : Max(S) >= y
<1> DEFINE Mayores(x) == {y \in S : y > x}
           F == {Mayores(x) : x \in S}
<1>1. F \subseteq FiniteSubsetsOf(S)
  BY FS_Subset DEF FiniteSubsetsOf
<1>2. PICK U \in F : \A W \in F : <<W, U>> \notin StrictSubsetOrdering(S)
  <2>1. F # {}
    OBVIOUS
  <2> HIDE DEF F
  <2>2. QED
    BY <1>1, <2>1, WFMin, FS_StrictSubsetOrderingWellFounded
<1>3. PICK x \in S : U = Mayores(x)
  BY <1>2
<1>4. \A y \in S : x >= y
  <2>1. SUFFICES ASSUME NEW y \in S, y > x PROVE FALSE
    OBVIOUS
  <2>2. Mayores(y) \subseteq U /\ y \in U /\ y \notin Mayores(y)
    <3>1. x \in Int /\ y \in Int /\ ~(y > y)
      OBVIOUS
    <3>2. \A w \in S : w > y => w > x
      BY <3>1, <2>1
    <3>3. QED
      BY <1>3, <2>1, <3>1, <3>2
  <2>3. <<Mayores(y), U>> \in StrictSubsetOrdering(S)
    BY <2>2, <1>3 DEF StrictSubsetOrdering
  <2>4. QED
    BY <2>3, <1>2
<1>5. QED
  BY <1>3, <1>4 DEF Max

\* The same of Min.
LEMMA MinimoExiste ==
  ASSUME NEW S \in SUBSET Int, IsFiniteSet(S), S # {}
  PROVE  Min(S) \in S /\ \A y \in S : Min(S) <= y
<1> DEFINE Menores(x) == {y \in S : y < x}
           F == {Menores(x) : x \in S}
<1>1. F \subseteq FiniteSubsetsOf(S)
  BY FS_Subset DEF FiniteSubsetsOf
<1>2. PICK U \in F : \A W \in F : <<W, U>> \notin StrictSubsetOrdering(S)
  <2>1. F # {}
    OBVIOUS
  <2> HIDE DEF F
  <2>2. QED
    BY <1>1, <2>1, WFMin, FS_StrictSubsetOrderingWellFounded
<1>3. PICK x \in S : U = Menores(x)
  BY <1>2
<1>4. \A y \in S : x <= y
  <2>1. SUFFICES ASSUME NEW y \in S, y < x PROVE FALSE
    OBVIOUS
  <2>2. Menores(y) \subseteq U /\ y \in U /\ y \notin Menores(y)
    <3>1. x \in Int /\ y \in Int /\ ~(y < y)
      OBVIOUS
    <3>2. \A w \in S : w < y => w < x
      BY <3>1, <2>1
    <3>3. QED
      BY <1>3, <2>1, <3>1, <3>2
  <2>3. <<Menores(y), U>> \in StrictSubsetOrdering(S)
    BY <2>2, <1>3 DEF StrictSubsetOrdering
  <2>4. QED
    BY <2>3, <1>2
<1>5. QED
  BY <1>3, <1>4 DEF Min

\* Number the elements of a finite set, no two alike: for each z below its
\* size one element has exactly z elements with smaller numbers.
LEMMA HayUnoEnCadaPosicion ==
  ASSUME NEW S, IsFiniteSet(S), NEW f \in [S -> Int],
         \A x, y \in S : f[x] = f[y] => x = y,
         NEW z \in Nat, z < Cardinality(S)
  PROVE  \E x \in S : Cardinality({y \in S : f[y] < f[x]}) = z
<1> DEFINE n == Cardinality(S)
           Menores(x) == {y \in S : f[y] < f[x]}
           g == [x \in S |-> Cardinality(Menores(x))]
<1>1. n \in Nat
  BY FS_CardinalityType
<1>2. \A x \in S : IsFiniteSet(Menores(x)) /\ Cardinality(Menores(x)) \in 0..n-1
  <2>1. TAKE x \in S
  <2>2. IsFiniteSet(Menores(x)) /\ Cardinality(Menores(x)) <= n
    BY FS_Subset
  <2>3. Menores(x) # S
    OBVIOUS
  <2>4. Cardinality(Menores(x)) # n
    BY <2>3, FS_Subset
  <2>5. QED
    BY <2>2, <2>4, <1>1, FS_CardinalityType
<1>3. \A x, y \in S : f[x] < f[y] => Cardinality(Menores(x)) < Cardinality(Menores(y))
  <2>1. SUFFICES ASSUME NEW x \in S, NEW y \in S, f[x] < f[y]
                 PROVE  Cardinality(Menores(x)) < Cardinality(Menores(y))
    OBVIOUS
  <2>2. Menores(x) \in SUBSET Menores(y) /\ x \in Menores(y) /\ x \notin Menores(x)
    BY <2>1
  <2> DEFINE A == Menores(x)  B == Menores(y)
  <2>3. IsFiniteSet(B) /\ A \in SUBSET B /\ A # B
    BY <2>2, <1>2
  <2> HIDE DEF A, B, Menores
  <2>4. Cardinality(A) <= Cardinality(B) /\ Cardinality(A) # Cardinality(B)
    BY <2>3, FS_Subset
  <2>5. Cardinality(A) \in Nat /\ Cardinality(B) \in Nat
    BY <1>2 DEF A, B
  <2>6. QED
    BY <2>4, <2>5 DEF A, B
<1>4. g \in Injection(S, 0..n-1)
  <2> HIDE DEF Menores
  <2>1. g \in [S -> 0..n-1]
    BY <1>2
  <2>2. ASSUME NEW x \in S, NEW y \in S, x # y PROVE g[x] # g[y]
    <3>1. f[x] < f[y] \/ f[y] < f[x]
      BY <2>2
    <3>2. QED
      BY <3>1, <1>3, <1>2
  <2>3. QED
    BY <2>1, <2>2 DEF Injection, IsInjective
<1>5. IsFiniteSet(0..n-1) /\ Cardinality(0..n-1) = n
  <2>1. 0 \in Int /\ n-1 \in Int
    BY <1>1
  <2> HIDE DEF n
  <2>2. QED
    BY <2>1, <1>1, FS_Interval
<1>6. g \in Surjection(S, 0..n-1)
  <2> HIDE DEF g
  <2>1. QED
    BY <1>4, <1>5, FS_Injection
<1>7. PICK x \in S : g[x] = z
  <2> HIDE DEF g
  <2>1. z \in 0..n-1
    BY <1>1
  <2>2. QED
    BY <2>1, <1>6 DEF Surjection
<1>8. QED
  BY <1>7

\* RemoveAt takes out one position and keeps the order of the others.
LEMMA RemoveAtProps ==
  ASSUME NEW T, NEW s \in Seq(T), NEW i \in 1..Len(s)
  PROVE  /\ RemoveAt(s, i) \in Seq(T)
         /\ Len(RemoveAt(s, i)) = Len(s) - 1
         /\ \A n \in 1..Len(s)-1 :
              RemoveAt(s, i)[n] = IF n < i THEN s[n] ELSE s[n+1]
<1> DEFINE a == SubSeq(s, 1, i-1)  b == SubSeq(s, i+1, Len(s))
<1>1. /\ a \in Seq(T) /\ Len(a) = i-1
      /\ \A n \in 1..i-1 : a[n] = s[n]
  <2>1. \A n \in 1..i-1 : s[n] \in T
    BY ElementOfSeq, LenProperties
  <2>2. QED
    BY <2>1, SubSeqProperties, LenProperties
<1>2. /\ b \in Seq(T) /\ Len(b) = Len(s) - i
      /\ \A n \in 1..Len(s)-i : b[n] = s[i+n]
  <2>1. \A n \in i+1..Len(s) : s[n] \in T
    BY ElementOfSeq, LenProperties
  <2>2. QED
    BY <2>1, SubSeqProperties, LenProperties
<1>3. RemoveAt(s, i) = a \o b
  BY DEF RemoveAt
<1> HIDE DEF a, b
<1>4. QED
  BY <1>1, <1>2, <1>3, ConcatProperties, LenProperties

\* A set of natural numbers that is not empty has a least element: what is
\* false of some number is false of a first one.
LEMMA MinimoNatural ==
  ASSUME NEW S \in SUBSET Nat, S # {}
  PROVE  \E n \in S : \A y \in S : n <= y
<1>1. PICK k \in S : TRUE
  OBVIOUS
<1> DEFINE R == S \cap 0..k
<1>2. R \in SUBSET Int /\ k \in R
  OBVIOUS
<1>3. IsFiniteSet(R)
  <2>1. 0 \in Int /\ k \in Int
    OBVIOUS
  <2>2. IsFiniteSet(0..k)
    BY <2>1, FS_Interval, Zenon
  <2> QED BY <2>2, FS_Subset
<1>4. Min(R) \in R /\ \A y \in R : Min(R) <= y
  <2> HIDE DEF R
  <2> QED BY <1>2, <1>3, MinimoExiste
<1>5. PICK n : n = Min(R)
  OBVIOUS
<1>6. n \in R /\ \A y \in R : n <= y
  BY <1>4, <1>5
<1>7. \A y \in S : n <= y
  <2> SUFFICES ASSUME NEW y \in S, ~(n <= y) PROVE FALSE
    OBVIOUS
  <2>1. y \in 0..k
    BY <1>6
  <2> QED BY <1>6, <2>1
<1> QED BY <1>6, <1>7

\* RemoveFirst takes out at most one element, the one it is given.
LEMMA RemoveFirstProps ==
  ASSUME NEW T, NEW s \in Seq(T), NEW t
  PROVE  /\ RemoveFirst(s, t) \in Seq(T)
         /\ Len(RemoveFirst(s, t)) >= Len(s) - 1
         /\ \A x : Contains(RemoveFirst(s, t), x) => Contains(s, x)
         /\ \A x : Contains(s, x) /\ x # t => Contains(RemoveFirst(s, t), x)
         /\ (\A i, k \in DOMAIN s : s[i] = s[k] => i = k) =>
              /\ ~Contains(RemoveFirst(s, t), t)
              /\ \A i, k \in DOMAIN RemoveFirst(s, t) :
                   RemoveFirst(s, t)[i] = RemoveFirst(s, t)[k] => i = k
<1>0. Len(s) \in Nat /\ DOMAIN s = 1..Len(s)
  BY LenProperties
<1>1. CASE \A i \in 1..Len(s) : s[i] # t
  <2>1. RemoveFirst(s, t) = s /\ ~Contains(s, t)
    BY <1>1 DEF RemoveFirst, Contains
  <2> QED BY <1>0, <2>1
<1>2. CASE \E i \in 1..Len(s) : s[i] = t
  <2> DEFINE I == {n \in 1..Len(s) : s[n] = t}
  <2>1. Min(I) \in I
    <3>1. I \in SUBSET (1..Len(s)) /\ I \in SUBSET Int /\ I # {}
      BY <1>2
    <3>2. IsFiniteSet(1..Len(s))
      <4>1. 1 \in Int /\ Len(s) \in Int
        BY <1>0
      <4> QED BY <4>1, FS_Interval, Zenon
    <3> HIDE DEF I
    <3>3. IsFiniteSet(I)
      BY <3>1, <3>2, FS_Subset
    <3> QED BY <3>1, <3>3, MinimoExiste
  <2>2. PICK p : p = Min(I)
    OBVIOUS
  <2>3. p \in 1..Len(s) /\ s[p] = t
    BY <2>1, <2>2
  <2>4. RemoveFirst(s, t) = RemoveAt(s, p)
    BY <1>2, <2>2 DEF RemoveFirst, SelectInSeq
  <2>5. PICK r : r = RemoveAt(s, p)
    OBVIOUS
  <2>6. /\ r \in Seq(T) /\ Len(r) = Len(s) - 1
        /\ \A n \in 1..Len(s)-1 : r[n] = IF n < p THEN s[n] ELSE s[n+1]
    BY <2>3, <2>5, RemoveAtProps
  <2>7. DOMAIN r = 1..Len(s)-1
    BY <2>6, LenProperties
  <2>8. \A x : Contains(r, x) => Contains(s, x)
    <3> SUFFICES ASSUME NEW n \in 1..Len(s)-1
                 PROVE  \E m \in 1..Len(s) : s[m] = r[n]
      BY <2>6 DEF Contains
    <3>1. n \in 1..Len(s) /\ n + 1 \in 1..Len(s)
      BY <1>0
    <3> QED BY <2>6, <3>1
  <2>9. ASSUME NEW x, Contains(s, x), x # t PROVE Contains(r, x)
    <3>1. PICK n \in 1..Len(s) : s[n] = x
      BY <2>9 DEF Contains
    <3>2. n # p
      BY <2>3, <2>9, <3>1
    <3>3. CASE n < p
      <4>1. n \in 1..Len(s)-1
        BY <1>0, <2>3, <3>3
      <4> QED BY <2>6, <3>1, <3>3, <4>1 DEF Contains
    <3>4. CASE n > p
      <4>1. n - 1 \in 1..Len(s)-1 /\ ~(n - 1 < p) /\ (n - 1) + 1 = n
        BY <1>0, <2>3, <3>4
      <4>2. r[n - 1] = s[n]
        BY <2>6, <4>1
      <4> QED BY <2>6, <3>1, <4>1, <4>2 DEF Contains
    <3> QED BY <1>0, <2>3, <3>2, <3>3, <3>4
  <2>10. ASSUME \A i, k \in DOMAIN s : s[i] = s[k] => i = k,
                NEW i \in 1..Len(s)-1, NEW k \in 1..Len(s)-1, r[i] = r[k]
         PROVE  i = k
    <3>1. /\ i \in 1..Len(s) /\ i + 1 \in 1..Len(s) /\ k \in 1..Len(s) /\ k + 1 \in 1..Len(s)
          /\ i \in Nat /\ k \in Nat /\ p \in Nat
      BY <1>0, <2>3
    <3>2. (IF i < p THEN i ELSE i + 1) = (IF k < p THEN k ELSE k + 1)
      BY <1>0, <2>6, <2>10, <3>1
    <3> QED BY <3>1, <3>2
  <2>11. ASSUME \A i, k \in DOMAIN s : s[i] = s[k] => i = k,
                NEW n \in 1..Len(s)-1
         PROVE  r[n] # t
    <3>1. n \in 1..Len(s) /\ n + 1 \in 1..Len(s) /\ n \in Nat /\ p \in Nat
      BY <1>0, <2>3
    <3>2. (IF n < p THEN n ELSE n + 1) # p
      BY <3>1
    <3> QED BY <1>0, <2>3, <2>6, <2>11, <3>1, <3>2
  <2>12. (\A i, k \in DOMAIN s : s[i] = s[k] => i = k) => ~Contains(r, t)
    BY <2>6, <2>11 DEF Contains
  <2> QED BY <1>0, <2>4, <2>5, <2>6, <2>7, <2>8, <2>9, <2>10, <2>12
<1> QED BY <1>1, <1>2

\* The least of some positions of a list.
LEMMA PrimeraPosicion ==
  ASSUME NEW n \in Nat, NEW I \in SUBSET (1..n), I # {}
  PROVE  Min(I) \in I /\ \A y \in I : Min(I) <= y
<1>1. IsFiniteSet(1..n)
  <2>1. 1 \in Int /\ n \in Int
    OBVIOUS
  <2> QED BY <2>1, FS_Interval, Zenon
<1>2. IsFiniteSet(I)
  BY <1>1, FS_Subset
<1> QED BY <1>2, MinimoExiste

\* The element a fold begins with.
Uno(s) == CHOOSE x \in s : TRUE

\* It sums f over each of the subsets of D, an element at a time.
SumaPorPartes(it, D, f) ==
  it = [s \in SUBSET D |-> IF s = {} THEN 0 ELSE f[Uno(s)] + it[s \ {Uno(s)}]]

\* There is such a function.
LEMMA LaSumaExiste ==
  ASSUME NEW D, IsFiniteSet(D), NEW f \in [D -> Nat]
  PROVE  \E it \in [SUBSET D -> Nat] :
           SumaPorPartes(it, D, f)
<1> DEFINE Cuerpo(it, s) == IF s = {} THEN 0 ELSE f[Uno(s)] + it[s \ {Uno(s)}]
           Hasta(n) == \E it \in [SUBSET D -> Nat] :
                         \A s \in SUBSET D : Cardinality(s) <= n => it[s] = Cuerpo(it, s)
           Malos == {n \in Nat : ~Hasta(n)}
<1>1. \A s \in SUBSET D :
        /\ IsFiniteSet(s) /\ Cardinality(s) \in Nat /\ Cardinality(s) <= Cardinality(D)
        /\ s = {} <=> Cardinality(s) = 0
        /\ s # {} => /\ Uno(s) \in s /\ Uno(s) \in D /\ s \ {Uno(s)} \in SUBSET D
                     /\ Cardinality(s \ {Uno(s)}) = Cardinality(s) - 1
  <2>1. TAKE s \in SUBSET D
  <2>2. IsFiniteSet(s) /\ Cardinality(s) \in Nat /\ Cardinality(s) <= Cardinality(D)
    BY FS_Subset, FS_CardinalityType
  <2>3. s = {} <=> Cardinality(s) = 0
    BY <2>2, FS_EmptySet
  <2>4. s # {} => Uno(s) \in s
    BY DEF Uno
  <2>5. s # {} => Cardinality(s \ {Uno(s)}) = Cardinality(s) - 1
    BY <2>2, <2>4, FS_RemoveElement
  <2> QED BY <2>2, <2>3, <2>4, <2>5
<1>2. Cardinality(D) \in Nat
  BY FS_CardinalityType
<1>3. Hasta(0)
  <2> DEFINE it == [s \in SUBSET D |-> 0]
  <2>1. it \in [SUBSET D -> Nat]
    OBVIOUS
  <2>2. ASSUME NEW s \in SUBSET D, Cardinality(s) <= 0
        PROVE  it[s] = Cuerpo(it, s)
    <3>1. Cardinality(s) \in Nat /\ (s = {} <=> Cardinality(s) = 0)
      BY <1>1
    <3>2. s = {}
      BY <2>2, <3>1
    <3> QED BY <3>2
  <2> QED BY <2>1, <2>2
<1>4. ASSUME NEW n \in Nat, Hasta(n)
      PROVE  Hasta(n + 1)
  <2>1. PICK it \in [SUBSET D -> Nat] :
               \A s \in SUBSET D : Cardinality(s) <= n => it[s] = Cuerpo(it, s)
    BY <1>4
  <2> DEFINE jt == [s \in SUBSET D |-> IF Cardinality(s) <= n THEN it[s] ELSE Cuerpo(it, s)]
  <2>2. ASSUME NEW s \in SUBSET D
        PROVE  Cuerpo(it, s) \in Nat
    <3>1. s # {} => Uno(s) \in D /\ s \ {Uno(s)} \in SUBSET D
      BY <1>1
    <3>2. s # {} => f[Uno(s)] \in Nat /\ it[s \ {Uno(s)}] \in Nat
      BY <3>1
    <3> QED BY <3>2
  <2>3. jt \in [SUBSET D -> Nat]
    BY <2>2
  <2>4. ASSUME NEW s \in SUBSET D, Cardinality(s) <= n + 1
        PROVE  jt[s] = Cuerpo(jt, s)
    <3>1. jt[s] = Cuerpo(it, s)
      BY <2>1
    <3>2. s # {} => jt[s \ {Uno(s)}] = it[s \ {Uno(s)}]
      <4>1. s # {} => s \ {Uno(s)} \in SUBSET D /\ Cardinality(s \ {Uno(s)}) <= n
        BY <1>1, <2>4
      <4> QED BY <4>1
    <3> HIDE DEF jt
    <3> QED BY <3>1, <3>2
  <2> HIDE DEF jt
  <2> QED BY <2>3, <2>4
<1> HIDE DEF Hasta
<1>5. \A n \in Nat : Hasta(n)
  <2>1. SUFFICES ASSUME Malos # {} PROVE FALSE
    OBVIOUS
  <2>2. Malos \in SUBSET Nat
    OBVIOUS
  <2> HIDE DEF Malos
  <2>3. PICK n \in Malos : \A y \in Malos : n <= y
    BY <2>1, <2>2, MinimoNatural
  <2>4. n \in Nat /\ ~Hasta(n) /\ n # 0
    BY <1>3, <2>3 DEF Malos
  <2>5. n - 1 \in Nat /\ (n - 1) + 1 = n /\ n - 1 \notin Malos
    BY <2>3, <2>4
  <2>6. Hasta(n - 1)
    BY <2>5 DEF Malos
  <2> QED BY <1>4, <2>4, <2>5, <2>6
<1>6. PICK it \in [SUBSET D -> Nat] :
             \A s \in SUBSET D : Cardinality(s) <= Cardinality(D) => it[s] = Cuerpo(it, s)
  BY <1>2, <1>5 DEF Hasta
<1>7. \A s \in SUBSET D : it[s] = Cuerpo(it, s)
  BY <1>1, <1>6
<1>8. it = [s \in SUBSET D |-> Cuerpo(it, s)]
  <2>1. it = [s \in SUBSET D |-> it[s]]
    OBVIOUS
  <2> HIDE DEF Cuerpo
  <2> QED BY <1>7, <2>1
<1> QED BY <1>8 DEF SumaPorPartes

\* The sum of a function's values is what such a function is worth at the whole
\* domain.
Suma(f) == FoldFunction(+, 0, f)

LEMMA LaSuma ==
  ASSUME NEW D, IsFiniteSet(D), NEW f \in [D -> Nat]
  PROVE  \E it \in [SUBSET D -> Nat] : SumaPorPartes(it, D, f) /\ Suma(f) = it[D]
<1> DEFINE it == CHOOSE it : SumaPorPartes(it, D, f)
<1>1. SumaPorPartes(it, D, f)
  BY LaSumaExiste, Zenon
<1>2. Suma(f) = it[D]
  <2>1. Suma(f) = (CHOOSE g : g = [s \in SUBSET DOMAIN f |->
                    IF s = {} THEN 0 ELSE f[Uno(s)] + g[s \ {Uno(s)}]])[DOMAIN f]
    BY DEF Suma, FoldFunction, FoldFunctionOnSet, MapThenFoldSet, Uno
  <2> QED BY <2>1 DEF SumaPorPartes
<1> HIDE DEF it
<1>3. /\ it = [s \in SUBSET D |-> it[s]]
      /\ \A s \in SUBSET D : it[s] = IF s = {} THEN 0 ELSE f[Uno(s)] + it[s \ {Uno(s)}]
  BY <1>1 DEF SumaPorPartes
<1> DEFINE Malos == {n \in Nat : \E s \in SUBSET D : Cardinality(s) = n /\ it[s] \notin Nat}
<1>4. Malos = {}
  <2>1. SUFFICES ASSUME Malos # {} PROVE FALSE
    OBVIOUS
  <2>2. PICK n \in Malos : \A y \in Malos : n <= y
    BY <2>1, MinimoNatural
  <2>3. PICK s \in SUBSET D : Cardinality(s) = n /\ it[s] \notin Nat
    BY <2>2
  <2>4. s # {}
    <3>1. s = {} => it[s] = 0
      BY <1>3
    <3> QED BY <2>3, <3>1
  <2>5. PICK x : x = Uno(s)
    OBVIOUS
  <2>6. x \in s /\ s \ {x} \in SUBSET D /\ f[x] \in Nat
    BY <2>4, <2>5 DEF Uno
  <2>7. it[s] = f[x] + it[s \ {x}]
    BY <1>3, <2>4, <2>5
  <2>8. IsFiniteSet(s) /\ n \in Nat
    BY <2>2, FS_Subset
  <2>9. Cardinality(s \ {x}) = n - 1 /\ n # 0
    BY <2>3, <2>4, <2>6, <2>8, FS_RemoveElement, FS_EmptySet
  <2>10. it[s \ {x}] \in Nat
    BY <2>2, <2>6, <2>8, <2>9
  <2> QED BY <2>3, <2>6, <2>7, <2>10
<1>5. ASSUME NEW s \in SUBSET D
      PROVE  it[s] \in Nat
  <2>1. Cardinality(s) \in Nat
    BY FS_Subset, FS_CardinalityType
  <2> QED BY <1>4, <2>1
<1>6. it \in [SUBSET D -> Nat]
  BY <1>3, <1>5
<1> QED BY <1>1, <1>2, <1>6

\* The sum of a finite function is a natural number, 0 when its values are, and
\* goes up with any one of them.
LEMMA SumaProps ==
  ASSUME NEW D, IsFiniteSet(D), NEW f \in [D -> Nat]
  PROVE  /\ Suma(f) \in Nat
         /\ (\A x \in D : f[x] = 0) => Suma(f) = 0
         /\ \A y \in D : Suma([f EXCEPT ![y] = @ + 1]) = Suma(f) + 1
<1>0. PICK it \in [SUBSET D -> Nat] : SumaPorPartes(it, D, f) /\ Suma(f) = it[D]
  BY LaSuma
<1>1. \A s \in SUBSET D : it[s] = IF s = {} THEN 0 ELSE f[Uno(s)] + it[s \ {Uno(s)}]
  BY <1>0 DEF SumaPorPartes
<1>2. ASSUME NEW T \in SUBSET SUBSET D, T # {}
      PROVE  \E s \in T : s # {} => /\ Uno(s) \in s
                                    /\ s \ {Uno(s)} \in (SUBSET D) \ T
  <2> DEFINE N == {Cardinality(s) : s \in T}
  <2>1. N \in SUBSET Nat /\ N # {}
    BY <1>2, FS_Subset, FS_CardinalityType
  <2> HIDE DEF N
  <2>2. PICK n \in N : \A y \in N : n <= y
    BY <2>1, MinimoNatural
  <2>3. PICK s \in T : Cardinality(s) = n
    BY <2>2 DEF N
  <2>4. SUFFICES ASSUME s # {}
                 PROVE  /\ Uno(s) \in s
                        /\ s \ {Uno(s)} \in (SUBSET D) \ T
    BY <2>3
  <2>5. PICK x : x = Uno(s)
    OBVIOUS
  <2>6. x \in s
    BY <2>4, <2>5 DEF Uno
  <2>7. IsFiniteSet(s) /\ n \in Nat
    BY <2>1, <2>2, <2>3, FS_Subset
  <2>8. Cardinality(s \ {x}) = n - 1
    BY <2>3, <2>6, <2>7, FS_RemoveElement
  <2>9. s \ {x} \notin T
    <3>1. n - 1 \notin N
      BY <2>2, <2>7
    <3> QED BY <2>8, <3>1 DEF N
  <2> QED BY <2>5, <2>6, <2>9
<1>3. ASSUME \A x \in D : f[x] = 0
      PROVE  it[D] = 0
  <2> DEFINE T == {s \in SUBSET D : it[s] # 0}
  <2>1. SUFFICES ASSUME T # {} PROVE FALSE
    OBVIOUS
  <2> HIDE DEF T
  <2>2. T \in SUBSET SUBSET D
    BY DEF T
  <2>3. PICK s \in T : s # {} => /\ Uno(s) \in s
                                 /\ s \ {Uno(s)} \in (SUBSET D) \ T
    BY <1>2, <2>1, <2>2
  <2>4. PICK x : x = Uno(s)
    OBVIOUS
  <2>5. s \in SUBSET D /\ it[s] # 0
    BY DEF T
  <2>6. s # {} /\ it[s] = f[x] + it[s \ {x}]
    BY <1>1, <2>4, <2>5
  <2>7. x \in D /\ it[s \ {x}] = 0
    BY <2>3, <2>4, <2>5, <2>6 DEF T
  <2> QED BY <1>3, <2>5, <2>6, <2>7
<1>4. ASSUME NEW y \in D
      PROVE  Suma([f EXCEPT ![y] = @ + 1]) = it[D] + 1
  <2>1. PICK g : g = [f EXCEPT ![y] = @ + 1]
    OBVIOUS
  <2>2. g \in [D -> Nat] /\ \A x \in D : g[x] = IF x = y THEN f[x] + 1 ELSE f[x]
    BY <2>1
  <2>0. PICK jt \in [SUBSET D -> Nat] : SumaPorPartes(jt, D, g) /\ Suma(g) = jt[D]
    BY <2>2, LaSuma
  <2>3. \A s \in SUBSET D : jt[s] = IF s = {} THEN 0 ELSE g[Uno(s)] + jt[s \ {Uno(s)}]
    BY <2>0 DEF SumaPorPartes
  <2> DEFINE T == {s \in SUBSET D : jt[s] # it[s] + (IF y \in s THEN 1 ELSE 0)}
  <2>4. T = {}
    <3>1. SUFFICES ASSUME T # {} PROVE FALSE
      OBVIOUS
    <3> HIDE DEF T
    <3>2. T \in SUBSET SUBSET D
      BY DEF T
    <3>3. PICK s \in T : s # {} => /\ Uno(s) \in s
                                   /\ s \ {Uno(s)} \in (SUBSET D) \ T
      BY <1>2, <3>1, <3>2
    <3>4. PICK x : x = Uno(s)
      OBVIOUS
    <3>5. s \in SUBSET D /\ jt[s] # it[s] + (IF y \in s THEN 1 ELSE 0)
      BY DEF T
    <3>6. s # {}
      <4>1. s = {} => it[s] = 0 /\ jt[s] = 0
        BY <1>1, <2>3, <3>5
      <4> QED BY <3>5, <4>1
    <3>7. it[s] = f[x] + it[s \ {x}] /\ jt[s] = g[x] + jt[s \ {x}]
      BY <1>1, <2>3, <3>4, <3>5, <3>6
    <3>8. /\ x \in s /\ x \in D /\ s \ {x} \in SUBSET D
          /\ jt[s \ {x}] = it[s \ {x}] + (IF y \in s \ {x} THEN 1 ELSE 0)
      BY <3>3, <3>4, <3>5, <3>6 DEF T
    <3>9. it[s \ {x}] \in Nat /\ f[x] \in Nat
      BY <3>8
    <3>10. CASE x = y
      BY <2>2, <3>5, <3>7, <3>8, <3>9, <3>10
    <3>11. CASE x # y
      BY <2>2, <3>5, <3>7, <3>8, <3>9, <3>11
    <3> QED BY <3>10, <3>11
  <2> QED BY <2>0, <2>1, <2>4
<1> QED BY <1>0, <1>3, <1>4

\* How many elements of a sequence are in a set.
CuantosDe(s, S) == Cardinality({i \in DOMAIN s : s[i] \in S})

\* It follows what is appended.
LEMMA CuentaAlFinal ==
  ASSUME NEW T, NEW S, NEW s \in Seq(T), NEW e \in T
  PROVE  CuantosDe(Append(s, e), S) = CuantosDe(s, S) + (IF e \in S THEN 1 ELSE 0)
<1> DEFINE D(q) == {i \in DOMAIN q : q[i] \in S}
<1>1. \A q \in Seq(T) : IsFiniteSet(D(q)) /\ D(q) \subseteq 1..Len(q) /\ Cardinality(D(q)) \in Nat
  <2>1. TAKE q \in Seq(T)
  <2>2. D(q) \subseteq 1..Len(q) /\ Len(q) \in Int
    OBVIOUS
  <2>3. IsFiniteSet(1..Len(q))
    BY <2>2, FS_Interval
  <2> QED BY <2>2, <2>3, FS_Subset, FS_CardinalityType
<1>2. Cardinality(D(Append(s, e))) = Cardinality(D(s)) + (IF e \in S THEN 1 ELSE 0)
  <2>1. D(Append(s, e)) = D(s) \cup (IF e \in S THEN {Len(s) + 1} ELSE {})
    OBVIOUS
  <2>2. Len(s) + 1 \notin D(s)
    BY <1>1
  <2>3. CASE e \in S
    <3>1. D(Append(s, e)) = D(s) \cup {Len(s) + 1}
      BY <2>1, <2>3
    <3> HIDE DEF D
    <3> QED BY <1>1, <2>2, <2>3, <3>1, FS_AddElement
  <2>4. CASE e \notin S
    <3>1. D(Append(s, e)) = D(s)
      BY <2>1, <2>4
    <3> HIDE DEF D
    <3> QED BY <1>1, <2>4, <3>1
  <2> QED BY <2>3, <2>4
<1> QED BY <1>2 DEF CuantosDe

\* And what is taken.
LEMMA CuentaEnCola ==
  ASSUME NEW T, NEW S, NEW s \in Seq(T)
  PROVE  /\ CuantosDe(s, S) \in Nat
         /\ CuantosDe(<<>>, S) = 0
         /\ s # <<>> =>
              CuantosDe(s, S) = CuantosDe(Tail(s), S) + (IF Head(s) \in S THEN 1 ELSE 0)
<1> DEFINE D(q) == {i \in DOMAIN q : q[i] \in S}
<1>1. \A q \in Seq(T) : IsFiniteSet(D(q)) /\ D(q) \subseteq 1..Len(q) /\ Cardinality(D(q)) \in Nat
  <2>1. TAKE q \in Seq(T)
  <2>2. D(q) \subseteq 1..Len(q) /\ Len(q) \in Int
    OBVIOUS
  <2>3. IsFiniteSet(1..Len(q))
    BY <2>2, FS_Interval
  <2> QED BY <2>2, <2>3, FS_Subset, FS_CardinalityType
<1>2. Cardinality(D(<<>>)) = 0
  <2>1. D(<<>>) = {}
    OBVIOUS
  <2> QED BY <2>1, FS_EmptySet
<1>3. ASSUME s # <<>>
      PROVE  Cardinality(D(s)) = Cardinality(D(Tail(s))) + (IF Head(s) \in S THEN 1 ELSE 0)
  <2> DEFINE t == Tail(s)
             U == D(s) \ {1}
  <2>1. /\ t \in Seq(T) /\ Len(t) = Len(s) - 1 /\ Len(s) \in Nat \ {0}
        /\ \A i \in 1..Len(t) : t[i] = s[i + 1]
        /\ DOMAIN t = 1..Len(t) /\ DOMAIN s = 1..Len(s)
    BY <1>3
  <2>2. Cardinality(U) = Cardinality(D(t))
    <3> DEFINE f == [i \in D(t) |-> i + 1]
    <3> HIDE DEF t
    <3>1. f \in [D(t) -> U]
      BY <2>1
    <3>2. \A i, k \in D(t) : f[i] = f[k] => i = k
      BY <2>1
    <3>3. \A u \in U : \E i \in D(t) : f[i] = u
      <4>1. TAKE u \in U
      <4>2. u \in 2..Len(s) /\ u - 1 \in D(t)
        <5>1. u \in 1..Len(s) /\ u # 1 /\ s[u] \in S
          BY <2>1
        <5>2. u \in 2..Len(s) /\ u - 1 \in 1..Len(t) /\ (u - 1) + 1 = u
          BY <2>1, <5>1
        <5>3. t[u - 1] = s[u]
          BY <2>1, <5>2
        <5> QED BY <2>1, <5>1, <5>2, <5>3
      <4>3. f[u - 1] = u
        BY <4>2
      <4> QED BY <4>2, <4>3
    <3> HIDE DEF f, U, D
    <3>4. f \in Bijection(D(t), U)
      BY <3>1, <3>2, <3>3 DEF Bijection, Injection, Surjection, IsInjective
    <3>5. IsFiniteSet(D(t))
      BY <1>1, <2>1
    <3> QED BY <3>4, <3>5, FS_Bijection DEF ExistsBijection
  <2>3. 1 \in D(s) <=> Head(s) \in S
    BY <1>3, <2>1
  <2>4. Cardinality(D(s)) = Cardinality(U) + (IF 1 \in D(s) THEN 1 ELSE 0)
    <3>1. ASSUME NEW A, IsFiniteSet(A)
          PROVE  Cardinality(A) = Cardinality(A \ {1}) + (IF 1 \in A THEN 1 ELSE 0)
      <4>1. Cardinality(A \ {1}) = IF 1 \in A THEN Cardinality(A) - 1 ELSE Cardinality(A)
        BY <3>1, FS_RemoveElement
      <4>2. Cardinality(A) \in Nat
        BY <3>1, FS_CardinalityType
      <4> QED BY <4>1, <4>2
    <3>2. IsFiniteSet(D(s))
      BY <1>1
    <3> HIDE DEF D
    <3> QED BY <3>1, <3>2
  <2> QED BY <2>2, <2>3, <2>4
<1> QED BY <1>1, <1>2, <1>3 DEF CuantosDe

=============================================================================
