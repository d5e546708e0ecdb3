--------------------------- MODULE NorthStar_proofs ---------------------------
(***************************************************************************)
(* Proofs about NorthStar, for any books, boundaries and quotes: the aging *)
(* is first in, first out, the health score lies within its axes, and what *)
(* keeps the count of the accepted quotes within reach of that of the sent *)
(* ones, read at moments of their own, is that a quote that was sent stays *)
(* sent, accepted or expired.                                              *)
(*                                                                         *)
(* What holds of all finite sets is proved by the least set of which it    *)
(* would not hold.                                                         *)
(***************************************************************************)
EXTENDS NorthStar, FiniteSetTheorems, WellFoundedInduction, TLAPS

-----------------------------------------------------------------------------
(* Sums over finite sets *)

\* Induction over the naturals, for a set of them.
LEMMA Induct ==
  ASSUME NEW T \in SUBSET Nat, 0 \in T, \A n \in T : n + 1 \in T
  PROVE  T = Nat
<1>1. SUFFICES ASSUME Nat \ T # {} PROVE FALSE
  OBVIOUS
<1>2. \A i, j \in Nat : i < j => <<i, j>> \in OpToRel(<, Nat)
  BY DEF OpToRel
<1>3. PICK m \in Nat \ T : \A n \in Nat \ T : ~ (<<n, m>> \in OpToRel(<, Nat))
  <2>1. Nat \ T \subseteq Nat
    OBVIOUS
  <2> QED
    BY <1>1, <2>1, NatLessThanWellFounded, WFMin
<1>4. \A n \in Nat \ T : ~ (n < m)
  BY <1>2, <1>3
<1>5. m # 0 /\ m - 1 \in Nat /\ m \notin T
  OBVIOUS
<1>6. m - 1 \in T
  BY <1>4, <1>5
<1> QED
  BY <1>5, <1>6

\* Among some subsets of a finite set there is a smallest.
LEMMA SmallestSet ==
  ASSUME NEW S, IsFiniteSet(S), NEW F \in SUBSET SUBSET S, F # {}
  PROVE  \E x \in F : \A y \in F : ~ (y \subseteq x /\ y # x)
<1> DEFINE R == StrictSubsetOrdering(S)
<1>1. IsWellFoundedOn(R, FiniteSubsetsOf(S))
  BY FS_StrictSubsetOrderingWellFounded
<1>2. F \subseteq FiniteSubsetsOf(S)
  BY FS_Subset DEF FiniteSubsetsOf
<1>3. \A x, y \in SUBSET S : (x \subseteq y /\ x # y) => <<x, y>> \in R
  BY DEF StrictSubsetOrdering
<1> HIDE DEF R
<1>4. PICK x \in F : \A y \in F : ~ (<<y, x>> \in R)
  BY <1>1, <1>2, WFMin
<1> QED
  BY <1>3, <1>4

\* The equation of the library's recursion.
Iterates(g, f, S) ==
  g = [s \in SUBSET S |-> IF s = {} THEN 0
                          ELSE f[CHOOSE x \in s : TRUE] + g[s \ {CHOOSE x \in s : TRUE}]]

\* The library's sum is a solution of that equation.
LEMMA SumDef ==
  ASSUME NEW f, NEW S
  PROVE  SumFunctionOnSet(f, S) = (CHOOSE g : Iterates(g, f, S))[S]
BY DEF SumFunctionOnSet, FoldFunctionOnSet, MapThenFoldSet, Iterates

\* The equation has one solution for the sets both are of,
LEMMA IterateAgree ==
  ASSUME NEW f, NEW S, IsFiniteSet(S), NEW U \in SUBSET S, NEW V \in SUBSET S,
         NEW g, NEW h, Iterates(g, f, U), Iterates(h, f, V),
         NEW s \in SUBSET (U \cap V)
  PROVE  g[s] = h[s]
<1> DEFINE bad == {t \in SUBSET (U \cap V) : g[t] # h[t]}
<1>1. SUFFICES ASSUME bad # {} PROVE FALSE
  OBVIOUS
<1>2. IsFiniteSet(U \cap V) /\ bad \in SUBSET SUBSET (U \cap V)
  BY FS_Subset
<1> HIDE DEF bad
<1>3. PICK t \in bad : \A r \in bad : ~ (r \subseteq t /\ r # t)
  BY <1>1, <1>2, SmallestSet
<1>4. t \in SUBSET U /\ t \in SUBSET V /\ g[t] # h[t]
  BY <1>3 DEF bad
<1> DEFINE x == CHOOSE x \in t : TRUE
<1>5. /\ g[t] = IF t = {} THEN 0 ELSE f[x] + g[t \ {x}]
      /\ h[t] = IF t = {} THEN 0 ELSE f[x] + h[t \ {x}]
  BY <1>4 DEF Iterates
<1>6. CASE t = {}
  BY <1>4, <1>5, <1>6
<1>7. CASE t # {}
  <2>1. x \in t
    BY <1>7
  <2> HIDE DEF x
  <2>2. t \ {x} \in SUBSET (U \cap V) /\ t \ {x} \subseteq t /\ t \ {x} # t
    BY <1>4, <2>1
  <2>3. g[t \ {x}] = h[t \ {x}]
    BY <1>3, <2>2 DEF bad
  <2> QED
    BY <1>4, <1>5, <1>7, <2>3
<1> QED
  BY <1>6, <1>7

\* and a solution for every finite set.
LEMMA IterateExists ==
  ASSUME NEW f, NEW S, IsFiniteSet(S)
  PROVE  \E g : Iterates(g, f, S)
<1> DEFINE bad == {t \in SUBSET S : ~ \E g : Iterates(g, f, t)}
<1>1. SUFFICES ASSUME bad # {} PROVE FALSE
  OBVIOUS
<1>2. bad \in SUBSET SUBSET S
  OBVIOUS
<1> HIDE DEF bad
<1>3. PICK t \in bad : \A r \in bad : ~ (r \subseteq t /\ r # t)
  BY <1>1, <1>2, SmallestSet
<1>4. t \in SUBSET S /\ ~ \E g : Iterates(g, f, t)
  BY <1>3 DEF bad
<1> DEFINE G(r) == CHOOSE g : Iterates(g, f, r)
           val(s) == IF s = {} THEN 0
                     ELSE f[CHOOSE x \in s : TRUE]
                            + G(s \ {CHOOSE x \in s : TRUE})[s \ {CHOOSE x \in s : TRUE}]
           h == [s \in SUBSET t |-> val(s)]
<1>5. ASSUME NEW r \in SUBSET t, r # t PROVE Iterates(G(r), f, r)
  <2>1. \E g : Iterates(g, f, r)
    BY <1>3, <1>4, <1>5 DEF bad
  <2> QED
    BY <2>1
<1>6. ASSUME NEW s \in SUBSET t, s # t PROVE h[s] = G(s)[s]
  <2>1. h[s] = val(s) /\ Iterates(G(s), f, s)
    BY <1>5, <1>6
  <2>2. CASE s = {}
    BY <2>1, <2>2 DEF Iterates
  <2>3. CASE s # {}
    <3> DEFINE x == CHOOSE x \in s : TRUE
    <3>1. x \in s
      BY <2>3
    <3>2. G(s)[s] = f[x] + G(s)[s \ {x}]
      BY <2>1, <2>3 DEF Iterates
    <3>3. h[s] = f[x] + G(s \ {x})[s \ {x}]
      BY <2>1, <2>3
    <3> HIDE DEF x, h, val
    <3>4. s \ {x} \in SUBSET t /\ s \ {x} # t /\ s \ {x} \in SUBSET S /\ s \in SUBSET S
          /\ s \ {x} \in SUBSET (s \cap (s \ {x}))
      BY <1>4, <3>1
    <3>5. Iterates(G(s \ {x}), f, s \ {x})
      BY <1>5, <3>4
    <3> HIDE DEF G
    <3>6. G(s)[s \ {x}] = G(s \ {x})[s \ {x}]
      BY <2>1, <3>4, <3>5, IterateAgree
    <3> QED
      BY <3>2, <3>3, <3>6
  <2> QED
    BY <2>2, <2>3
<1>7. ASSUME NEW s \in SUBSET t
      PROVE  h[s] = IF s = {} THEN 0
                    ELSE f[CHOOSE x \in s : TRUE] + h[s \ {CHOOSE x \in s : TRUE}]
  <2>1. CASE s = {}
    BY <2>1
  <2>2. CASE s # {}
    <3> DEFINE x == CHOOSE x \in s : TRUE
    <3>1. x \in s
      BY <2>2
    <3>2. h[s] = f[x] + G(s \ {x})[s \ {x}]
      BY <2>2
    <3> HIDE DEF x
    <3>3. s \ {x} \in SUBSET t /\ s \ {x} # t
      BY <3>1
    <3> HIDE DEF h, val, G
    <3>4. h[s \ {x}] = G(s \ {x})[s \ {x}]
      BY <1>6, <3>3
    <3> QED
      BY <2>2, <3>2, <3>4 DEF x
  <2> QED
    BY <2>1, <2>2
<1>8. h = [s \in SUBSET t |-> h[s]]
  OBVIOUS
<1> HIDE DEF h
<1>9. Iterates(h, f, t)
  BY <1>7, <1>8 DEF Iterates
<1> QED
  BY <1>4, <1>9

\* A sum is zero, or that of one element and of the others.
LEMMA SumUnfold ==
  ASSUME NEW f, NEW S, IsFiniteSet(S)
  PROVE  /\ SumFunctionOnSet(f, {}) = 0
         /\ S # {} => LET x == CHOOSE x \in S : TRUE
                      IN  SumFunctionOnSet(f, S) = f[x] + SumFunctionOnSet(f, S \ {x})
<1> DEFINE G(r) == CHOOSE g : Iterates(g, f, r)
<1>1. ASSUME NEW r \in SUBSET S
      PROVE  Iterates(G(r), f, r) /\ SumFunctionOnSet(f, r) = G(r)[r]
  <2>1. IsFiniteSet(r)
    BY FS_Subset
  <2>2. \E g : Iterates(g, f, r)
    BY <2>1, IterateExists
  <2> QED
    BY <2>2, SumDef
<1>2. G({})[{}] = 0
  BY <1>1 DEF Iterates
<1>3. ASSUME S # {}
      PROVE  LET x == CHOOSE x \in S : TRUE
             IN  SumFunctionOnSet(f, S) = f[x] + SumFunctionOnSet(f, S \ {x})
  <2> DEFINE x == CHOOSE x \in S : TRUE
  <2>1. x \in S
    BY <1>3
  <2> HIDE DEF G
  <2>2. Iterates(G(S), f, S)
    BY <1>1
  <2>3. G(S)[S] = f[x] + G(S)[S \ {x}]
    BY <1>3, <2>2 DEF Iterates
  <2> HIDE DEF x
  <2>4. S \ {x} \in SUBSET S /\ Iterates(G(S \ {x}), f, S \ {x})
        /\ S \ {x} \in SUBSET (S \cap (S \ {x}))
    BY <1>1
  <2>5. G(S)[S \ {x}] = G(S \ {x})[S \ {x}]
    BY <2>2, <2>4, IterateAgree
  <2>6. SumFunctionOnSet(f, S) = f[x] + SumFunctionOnSet(f, S \ {x})
    BY <1>1, <2>3, <2>4, <2>5 DEF x
  <2> QED
    BY <2>6 DEF x
<1> QED
  BY <1>1, <1>2, <1>3

\* The sum of whole numbers is one, of naturals a natural.
LEMMA SumType ==
  ASSUME NEW S, IsFiniteSet(S), NEW f, \A x \in S : f[x] \in Int
  PROVE  /\ SumFunctionOnSet(f, S) \in Int
         /\ (\A x \in S : f[x] \in Nat) => SumFunctionOnSet(f, S) \in Nat
<1> DEFINE good(t) == /\ SumFunctionOnSet(f, t) \in Int
                      /\ (\A x \in t : f[x] \in Nat) => SumFunctionOnSet(f, t) \in Nat
           bad == {t \in SUBSET S : ~good(t)}
<1>1. SUFFICES ASSUME bad # {} PROVE FALSE
  OBVIOUS
<1>2. bad \in SUBSET SUBSET S
  OBVIOUS
<1> HIDE DEF bad
<1>3. PICK t \in bad : \A r \in bad : ~ (r \subseteq t /\ r # t)
  BY <1>1, <1>2, SmallestSet
<1>4. t \in SUBSET S /\ IsFiniteSet(t) /\ ~good(t)
  BY <1>3, FS_Subset DEF bad
<1> DEFINE x == CHOOSE x \in t : TRUE
<1>5. /\ SumFunctionOnSet(f, {}) = 0
      /\ t # {} => SumFunctionOnSet(f, t) = f[x] + SumFunctionOnSet(f, t \ {x})
  BY <1>4, SumUnfold
<1>6. t # {}
  <2>1. good({})
    BY <1>5
  <2> HIDE DEF good
  <2> QED
    BY <1>4, <2>1
<1>7. x \in t
  BY <1>6
<1> HIDE DEF x
<1>8. good(t \ {x})
  <2>1. t \ {x} \in SUBSET S /\ t \ {x} \subseteq t /\ t \ {x} # t
    BY <1>4, <1>7
  <2> QED
    BY <1>3, <2>1 DEF bad
<1>9. f[x] \in Int
  BY <1>4, <1>7
<1> QED
  BY <1>4, <1>5, <1>6, <1>7, <1>8, <1>9

\* Any element may be taken out of a sum.
LEMMA SumRemove ==
  ASSUME NEW S, IsFiniteSet(S), NEW f, \A y \in S : f[y] \in Int, NEW x \in S
  PROVE  SumFunctionOnSet(f, S) = f[x] + SumFunctionOnSet(f, S \ {x})
<1> DEFINE sum(t) == SumFunctionOnSet(f, t)
           bad == {t \in SUBSET S : \E y \in t : sum(t) # f[y] + sum(t \ {y})}
<1>1. SUFFICES ASSUME bad # {} PROVE FALSE
  OBVIOUS
<1>2. bad \in SUBSET SUBSET S
  OBVIOUS
<1> HIDE DEF bad
<1>3. PICK t \in bad : \A r \in bad : ~ (r \subseteq t /\ r # t)
  BY <1>1, <1>2, SmallestSet
<1>4. t \in SUBSET S /\ IsFiniteSet(t)
  BY <1>3, FS_Subset DEF bad
<1>5. PICK y \in t : sum(t) # f[y] + sum(t \ {y})
  BY <1>3 DEF bad
<1> DEFINE c == CHOOSE z \in t : TRUE
<1>6. sum(t) = f[c] + sum(t \ {c})
  BY <1>4, <1>5, SumUnfold
<1>7. c \in t /\ c # y
  BY <1>5, <1>6
<1> HIDE DEF c, sum
<1>8. \A r \in SUBSET S : r \subseteq t /\ r # t => \A z \in r : sum(r) = f[z] + sum(r \ {z})
  BY <1>3 DEF bad
<1>9. sum(t \ {c}) = f[y] + sum((t \ {c}) \ {y})
  BY <1>4, <1>7, <1>8
<1>10. sum(t \ {y}) = f[c] + sum((t \ {y}) \ {c})
  BY <1>4, <1>7, <1>8
<1>11. sum((t \ {c}) \ {y}) = sum((t \ {y}) \ {c})
  <2>1. (t \ {c}) \ {y} = (t \ {y}) \ {c}
    OBVIOUS
  <2> QED
    BY <2>1
<1>12. sum((t \ {y}) \ {c}) \in Int
  <2>1. IsFiniteSet((t \ {y}) \ {c}) /\ \A z \in (t \ {y}) \ {c} : f[z] \in Int
    BY <1>4, FS_Subset
  <2> QED
    BY <2>1, SumType DEF sum
<1>13. f[c] \in Int /\ f[y] \in Int
  BY <1>4, <1>7
<1> QED
  BY <1>5, <1>6, <1>9, <1>10, <1>11, <1>12, <1>13

\* A sum is of the values the function has on the set.
LEMMA SumEqual ==
  ASSUME NEW S, IsFiniteSet(S), NEW f, NEW g, \A x \in S : f[x] = g[x]
  PROVE  SumFunctionOnSet(f, S) = SumFunctionOnSet(g, S)
<1> DEFINE bad == {t \in SUBSET S : SumFunctionOnSet(f, t) # SumFunctionOnSet(g, t)}
<1>1. SUFFICES ASSUME bad # {} PROVE FALSE
  OBVIOUS
<1>2. bad \in SUBSET SUBSET S
  OBVIOUS
<1> HIDE DEF bad
<1>3. PICK t \in bad : \A r \in bad : ~ (r \subseteq t /\ r # t)
  BY <1>1, <1>2, SmallestSet
<1>4. /\ t \in SUBSET S /\ IsFiniteSet(t)
      /\ SumFunctionOnSet(f, t) # SumFunctionOnSet(g, t)
  BY <1>3, FS_Subset DEF bad
<1> DEFINE x == CHOOSE x \in t : TRUE
<1>5. /\ SumFunctionOnSet(f, {}) = 0
      /\ t # {} => SumFunctionOnSet(f, t) = f[x] + SumFunctionOnSet(f, t \ {x})
  BY <1>4, SumUnfold
<1>6. /\ SumFunctionOnSet(g, {}) = 0
      /\ t # {} => SumFunctionOnSet(g, t) = g[x] + SumFunctionOnSet(g, t \ {x})
  BY <1>4, SumUnfold
<1>7. t # {}
  BY <1>4, <1>5, <1>6
<1>8. x \in t
  BY <1>7
<1> HIDE DEF x
<1>9. t \ {x} \in SUBSET S /\ t \ {x} \subseteq t /\ t \ {x} # t
  BY <1>4, <1>8
<1>10. SumFunctionOnSet(f, t \ {x}) = SumFunctionOnSet(g, t \ {x})
  BY <1>3, <1>9 DEF bad
<1> QED
  BY <1>4, <1>5, <1>6, <1>7, <1>8, <1>10

\* Zeros add up to zero.
LEMMA SumZero ==
  ASSUME NEW S, IsFiniteSet(S), NEW f, \A x \in S : f[x] = 0
  PROVE  SumFunctionOnSet(f, S) = 0
<1> DEFINE bad == {t \in SUBSET S : SumFunctionOnSet(f, t) # 0}
<1>1. SUFFICES ASSUME bad # {} PROVE FALSE
  OBVIOUS
<1>2. bad \in SUBSET SUBSET S
  OBVIOUS
<1> HIDE DEF bad
<1>3. PICK t \in bad : \A r \in bad : ~ (r \subseteq t /\ r # t)
  BY <1>1, <1>2, SmallestSet
<1>4. t \in SUBSET S /\ IsFiniteSet(t) /\ SumFunctionOnSet(f, t) # 0
  BY <1>3, FS_Subset DEF bad
<1> DEFINE x == CHOOSE x \in t : TRUE
<1>5. t # {} /\ SumFunctionOnSet(f, t) = f[x] + SumFunctionOnSet(f, t \ {x})
  BY <1>4, SumUnfold
<1>6. x \in t
  BY <1>5
<1> HIDE DEF x
<1>7. t \ {x} \in SUBSET S /\ t \ {x} \subseteq t /\ t \ {x} # t
  BY <1>4, <1>6
<1>8. SumFunctionOnSet(f, t \ {x}) = 0
  BY <1>3, <1>7 DEF bad
<1> QED
  BY <1>4, <1>5, <1>6, <1>8

\* A sum is the sum of its parts, by a key of each element.
LEMMA SumOfParts ==
  ASSUME NEW S, IsFiniteSet(S), NEW f, \A x \in S : f[x] \in Int,
         NEW B, IsFiniteSet(B), NEW key, \A x \in S : key[x] \in B
  PROVE  SumFunctionOnSet([b \in B |-> SumFunctionOnSet(f, {x \in S : key[x] = b})], B)
           = SumFunctionOnSet(f, S)
<1> DEFINE part(t) == [b \in B |-> SumFunctionOnSet(f, {x \in t : key[x] = b})]
           bad == {t \in SUBSET S : SumFunctionOnSet(part(t), B) # SumFunctionOnSet(f, t)}
<1>1. SUFFICES ASSUME bad # {} PROVE FALSE
  OBVIOUS
<1>2. bad \in SUBSET SUBSET S
  OBVIOUS
<1> HIDE DEF bad
<1>3. PICK t \in bad : \A r \in bad : ~ (r \subseteq t /\ r # t)
  BY <1>1, <1>2, SmallestSet
<1>4. /\ t \in SUBSET S /\ IsFiniteSet(t)
      /\ SumFunctionOnSet(part(t), B) # SumFunctionOnSet(f, t)
  BY <1>3, FS_Subset DEF bad
<1>5. ASSUME NEW r \in SUBSET S, NEW b \in B
      PROVE  SumFunctionOnSet(f, {x \in r : key[x] = b}) \in Int
  <2>1. IsFiniteSet({x \in r : key[x] = b}) /\ \A x \in {y \in r : key[y] = b} : f[x] \in Int
    BY FS_Subset
  <2> QED
    BY <2>1, SumType
<1>6. ASSUME NEW r \in SUBSET S PROVE \A b \in B : part(r)[b] \in Int
  BY <1>5
<1>7. CASE t = {}
  <2>1. \A b \in B : part({})[b] = 0
    <3>1. \A b \in B : {x \in {} : key[x] = b} = {}
      OBVIOUS
    <3>2. SumFunctionOnSet(f, {}) = 0
      BY SumUnfold, FS_EmptySet
    <3> QED
      BY <3>1, <3>2
  <2>2. SumFunctionOnSet(part({}), B) = 0
    BY <2>1, SumZero
  <2>3. SumFunctionOnSet(f, {}) = 0
    BY SumUnfold, FS_EmptySet
  <2> QED
    BY <1>4, <1>7, <2>1, <2>2, <2>3
<1>8. CASE t # {}
  <2>1. PICK x \in t : TRUE
    BY <1>8
  <2> DEFINE r == t \ {x}
             k == key[x]
  <2>2. r \in SUBSET S /\ r \subseteq t /\ r # t
    BY <1>4
  <2>3. SumFunctionOnSet(part(r), B) = SumFunctionOnSet(f, r)
    BY <1>3, <2>2 DEF bad
  <2>4. SumFunctionOnSet(f, t) = f[x] + SumFunctionOnSet(f, r)
    BY <1>4, SumRemove
  <2>5. k \in B /\ f[x] \in Int
    BY <1>4
  <2>6. \A b \in B \ {k} : part(t)[b] = part(r)[b]
    <3>1. ASSUME NEW b \in B \ {k} PROVE {y \in t : key[y] = b} = {y \in r : key[y] = b}
      OBVIOUS
    <3> QED
      BY <3>1
  <2>7. part(t)[k] = f[x] + part(r)[k]
    <3>1. {y \in r : key[y] = k} = {y \in t : key[y] = k} \ {x}
      OBVIOUS
    <3>2. /\ IsFiniteSet({y \in t : key[y] = k}) /\ x \in {y \in t : key[y] = k}
          /\ \A z \in {y \in t : key[y] = k} : f[z] \in Int
      BY <1>4, FS_Subset
    <3>3. SumFunctionOnSet(f, {y \in t : key[y] = k})
            = f[x] + SumFunctionOnSet(f, {y \in t : key[y] = k} \ {x})
      BY <3>2, SumRemove
    <3> QED
      BY <2>5, <3>1, <3>3
  <2> HIDE DEF part, k, r
  <2>8. SumFunctionOnSet(part(t), B) = part(t)[k] + SumFunctionOnSet(part(t), B \ {k})
    BY <1>4, <1>6, <2>5, SumRemove
  <2>9. SumFunctionOnSet(part(r), B) = part(r)[k] + SumFunctionOnSet(part(r), B \ {k})
    BY <1>6, <2>2, <2>5, SumRemove
  <2>10. SumFunctionOnSet(part(t), B \ {k}) = SumFunctionOnSet(part(r), B \ {k})
    BY <2>6, FS_Subset, SumEqual
  <2>11. /\ part(r)[k] \in Int /\ SumFunctionOnSet(part(r), B \ {k}) \in Int
         /\ SumFunctionOnSet(f, r) \in Int
    <3>1. part(r)[k] \in Int
      BY <1>6, <2>2, <2>5
    <3>2. IsFiniteSet(B \ {k}) /\ \A b \in B \ {k} : part(r)[b] \in Int
      BY <1>6, <2>2, FS_Subset
    <3>3. SumFunctionOnSet(part(r), B \ {k}) \in Int
      BY <3>2, SumType
    <3>4. IsFiniteSet(r) /\ \A z \in r : f[z] \in Int
      BY <1>4, <2>2, FS_Subset
    <3>5. SumFunctionOnSet(f, r) \in Int
      BY <3>4, SumType
    <3> QED
      BY <3>1, <3>3, <3>5
  <2> QED
    BY <1>4, <2>3, <2>4, <2>5, <2>7, <2>8, <2>9, <2>10, <2>11
<1> QED
  BY <1>7, <1>8

-----------------------------------------------------------------------------
(* Numbers *)

\* The smaller and the larger of two numbers.
LEMMA OfTwo ==
  \A a, b \in Int : /\ Min({a, b}) = IF a <= b THEN a ELSE b
                    /\ Max({a, b}) = IF a >= b THEN a ELSE b
<1> SUFFICES ASSUME NEW a \in Int, NEW b \in Int
             PROVE  /\ Min({a, b}) = IF a <= b THEN a ELSE b
                    /\ Max({a, b}) = IF a >= b THEN a ELSE b
  OBVIOUS
<1>1. PICK x \in {a, b} : \A y \in {a, b} : x <= y
  OBVIOUS
<1>2. Min({a, b}) \in {a, b} /\ \A y \in {a, b} : Min({a, b}) <= y
  BY <1>1 DEF Min
<1>3. PICK z \in {a, b} : \A y \in {a, b} : z >= y
  OBVIOUS
<1>4. Max({a, b}) \in {a, b} /\ \A y \in {a, b} : Max({a, b}) >= y
  BY <1>3 DEF Max
<1> HIDE DEF Min, Max
<1> QED
  BY <1>2, <1>4


\* The least of some naturals.
LEMMA LeastNat ==
  ASSUME NEW S \in SUBSET Nat, S # {}
  PROVE  Min(S) \in S /\ \A y \in S : Min(S) <= y
<1>1. \A i, j \in Nat : i < j => <<i, j>> \in OpToRel(<, Nat)
  BY DEF OpToRel
<1>2. PICK m \in S : \A y \in S : ~ (<<y, m>> \in OpToRel(<, Nat))
  BY NatLessThanWellFounded, WFMin
<1>3. ASSUME NEW y \in S PROVE m <= y
  <2>1. y \in Nat /\ m \in Nat /\ ~(y < m)
    BY <1>1, <1>2
  <2> QED
    BY <2>1
<1> QED
  BY <1>3 DEF Min

\* The largest of some scores.
LEMMA MostNat ==
  ASSUME NEW n \in Nat, NEW S \in SUBSET (0..n), S # {}
  PROVE  Max(S) \in S /\ \A y \in S : y <= Max(S)
<1> DEFINE T == {n - y : y \in S}
<1>1. T \in SUBSET Nat /\ T # {}
  <2>1. ASSUME NEW y \in S PROVE n - y \in Nat
    OBVIOUS
  <2> QED
    BY <2>1
<1> HIDE DEF T
<1>2. Min(T) \in T /\ \A y \in T : Min(T) <= y
  BY <1>1, LeastNat
<1>3. PICK x \in S : Min(T) = n - x
  BY <1>2 DEF T
<1>4. ASSUME NEW y \in S PROVE x >= y
  <2>1. n - y \in T
    BY DEF T
  <2>2. n - x <= n - y
    BY <1>2, <1>3, <2>1
  <2> QED
    BY <2>2
<1> QED
  BY <1>4 DEF Max

\* A quotient lies where the dividend does.
LEMMA Quotient ==
  ASSUME NEW p \in Int, NEW w \in Nat, w > 0, NEW lo \in Int, NEW hi \in Int,
         lo * w <= p, p <= hi * w
  PROVE  p \div w \in lo..hi
<1>1. p \div w \in Int /\ w * (p \div w) <= p /\ p < w * (p \div w) + w
  OBVIOUS
<1> DEFINE q == p \div w
<1>2. q \in Int /\ w * q <= p /\ p < w * q + w
  BY <1>1
<1> HIDE DEF q
<1>3. lo <= q
  <2>1. SUFFICES ASSUME q + 1 <= lo PROVE FALSE
    BY <1>2
  <2>2. w * (q + 1) <= w * lo
    BY <1>2, <2>1
  <2> QED
    BY <1>2, <2>2
<1>4. q <= hi
  <2>1. SUFFICES ASSUME hi + 1 <= q PROVE FALSE
    BY <1>2
  <2>2. w * (hi + 1) <= w * q
    BY <1>2, <2>1
  <2> QED
    BY <1>2, <2>2
<1> QED
  BY <1>2, <1>3, <1>4 DEF q

\* A full score is a number.
LEMMA FullType == NorthStarAssumption => Full \in Nat
BY DEF NorthStarAssumption, Full

\* A rate is a whole number of grains.
LEMMA QuotientType ==
  ASSUME NorthStarAssumption
  PROVE  \A a, b \in Nat : b # 0 => (Full * a) \div b \in Int
<1> TAKE a, b \in Nat
<1>1. Full * a \in Int
  BY FullType
<1> DEFINE c == Full * a
<1>2. c \in Int
  BY <1>1
<1> HIDE DEF c
<1>3. b # 0 => c \div b \in Int
  BY <1>2
<1> QED
  BY <1>3 DEF c

-----------------------------------------------------------------------------
(* Aging: what the pool leaves of each invoice *)

\* The amounts of some lines, as one function of all of them.
Amounts(lines) == [i \in DOMAIN lines |-> lines[i].amount]

\* Lines have places, amounts and days.
LEMMA LinesType ==
  ASSUME NorthStarAssumption, NEW lines \in Seq(Entry)
  PROVE  /\ IsFiniteSet(DOMAIN lines) /\ DOMAIN lines \subseteq Nat
         /\ \A i \in DOMAIN lines : lines[i].amount \in Nat /\ lines[i].day \in Nat
<1>1. DOMAIN lines = 1..Len(lines) /\ Len(lines) \in Nat
  OBVIOUS
<1>2. IsFiniteSet(1..Len(lines))
  BY <1>1, FS_Interval
<1>3. \A i \in DOMAIN lines : lines[i] \in Entry
  OBVIOUS
<1> QED
  BY <1>1, <1>2, <1>3 DEF NorthStarAssumption

\* The total of some lines is the sum of their amounts.
LEMMA TotalIs ==
  ASSUME NorthStarAssumption, NEW lines \in Seq(Entry), NEW those \in SUBSET DOMAIN lines
  PROVE  /\ Total(lines, those) = SumFunctionOnSet(Amounts(lines), those)
         /\ Total(lines, those) \in Nat /\ IsFiniteSet(those)
<1>1. IsFiniteSet(those)
  BY LinesType, FS_Subset
<1>2. \A i \in those : [j \in those |-> lines[j].amount][i] = Amounts(lines)[i]
  BY DEF Amounts
<1>3. \A i \in those : [j \in those |-> lines[j].amount][i] \in Nat
  BY LinesType
<1> HIDE DEF NorthStarAssumption
<1>4. Total(lines, those) = SumFunctionOnSet(Amounts(lines), those)
  BY <1>1, <1>2, SumEqual DEF Total
<1>5. Total(lines, those) \in Nat
  BY <1>1, <1>3, SumType DEF Total
<1> QED
  BY <1>1, <1>4, <1>5

\* One line more or less.
LEMMA TotalWithout ==
  ASSUME NorthStarAssumption, NEW lines \in Seq(Entry), NEW those \in SUBSET DOMAIN lines,
         NEW i \in those
  PROVE  Total(lines, those) = lines[i].amount + Total(lines, those \ {i})
<1>1. \A j \in those : Amounts(lines)[j] \in Int
  BY LinesType DEF Amounts
<1>2. Amounts(lines)[i] = lines[i].amount
  BY DEF Amounts
<1>3. /\ Total(lines, those) = SumFunctionOnSet(Amounts(lines), those) /\ IsFiniteSet(those)
      /\ Total(lines, those \ {i}) = SumFunctionOnSet(Amounts(lines), those \ {i})
  BY TotalIs
<1> QED
  BY <1>1, <1>2, <1>3, SumRemove

\* The order of the lines is strict and total.
LEMMA BeforeOrder ==
  ASSUME NorthStarAssumption, NEW lines \in Seq(Entry),
         NEW i \in DOMAIN lines, NEW j \in DOMAIN lines, NEW k \in DOMAIN lines
  PROVE  /\ ~Before(lines, i, i)
         /\ ~(Before(lines, i, j) /\ Before(lines, j, i))
         /\ i # j => Before(lines, i, j) \/ Before(lines, j, i)
         /\ Before(lines, i, j) /\ Before(lines, j, k) => Before(lines, i, k)
<1>1. /\ i \in Nat /\ j \in Nat /\ k \in Nat
      /\ lines[i].day \in Nat /\ lines[j].day \in Nat /\ lines[k].day \in Nat
  BY LinesType
<1> QED
  BY <1>1 DEF Before

\* Some lines have a latest.
LEMMA LatestIs ==
  ASSUME NorthStarAssumption, NEW lines \in Seq(Entry), NEW those \in SUBSET DOMAIN lines,
         those # {}
  PROVE  /\ Latest(lines, those) \in those
         /\ \A j \in those \ {Latest(lines, those)} : Before(lines, j, Latest(lines, those))
<1> DEFINE last(t, i) == \A j \in t \ {i} : Before(lines, j, i)
           bad == {t \in SUBSET those : t # {} /\ ~ \E i \in t : last(t, i)}
<1>1. bad = {}
  <2>1. SUFFICES ASSUME bad # {} PROVE FALSE
    OBVIOUS
  <2>2. bad \in SUBSET SUBSET those /\ IsFiniteSet(those)
    BY TotalIs
  <2> HIDE DEF bad
  <2>3. PICK t \in bad : \A r \in bad : ~ (r \subseteq t /\ r # t)
    BY <2>1, <2>2, SmallestSet
  <2>4. t \in SUBSET those /\ t # {} /\ ~ \E i \in t : last(t, i)
    BY <2>3 DEF bad
  <2>5. PICK x \in t : TRUE
    BY <2>4
  <2>6. t \ {x} # {}
    BY <2>4
  <2>7. t \ {x} \in SUBSET those /\ t \ {x} \subseteq t /\ t \ {x} # t
    BY <2>4
  <2>8. PICK y \in t \ {x} : last(t \ {x}, y)
    BY <2>3, <2>6, <2>7 DEF bad
  <2>9. \A i \in t : i \in DOMAIN lines
    BY <2>4
  <2>10. CASE Before(lines, x, y)
    <3>1. last(t, y)
      BY <2>8, <2>10
    <3> QED
      BY <2>4, <3>1
  <2>11. CASE Before(lines, y, x)
    <3>1. ASSUME NEW j \in t \ {x} PROVE Before(lines, j, x)
      BY <2>8, <2>9, <2>11, BeforeOrder
    <3> QED
      BY <2>4, <3>1
  <2> QED
    BY <2>9, <2>10, <2>11, BeforeOrder
<1>2. \E i \in those : last(those, i)
  BY <1>1
<1> QED
  BY <1>2 DEF Latest

\* What the oldest invoices leave of the credits.
Rest(lines, own, paid) == Max({0, Credits(lines, own) - Total(lines, paid)})

\* The equation of the pool.
Draws(lines, own, g) ==
  g = [paid \in SUBSET Invoices(lines, own) |->
        IF paid = {} THEN Credits(lines, own)
        ELSE LET i == Latest(lines, paid)
             IN g[paid \ {i}] - Min({lines[i].amount, g[paid \ {i}]})]

\* The credits and the invoices of a partner, and what some of the invoices
\* leave of the credits.
LEMMA OwnType ==
  ASSUME NorthStarAssumption, NEW lines \in Seq(Entry), NEW own \in SUBSET DOMAIN lines
  PROVE  /\ Credits(lines, own) \in Nat /\ Invoices(lines, own) \in SUBSET DOMAIN lines
         /\ IsFiniteSet(Invoices(lines, own))
         /\ \A paid \in SUBSET Invoices(lines, own) :
              /\ paid \in SUBSET DOMAIN lines /\ Total(lines, paid) \in Nat
              /\ Rest(lines, own, paid) =
                   IF Total(lines, paid) >= Credits(lines, own) THEN 0
                   ELSE Credits(lines, own) - Total(lines, paid)
<1>1. own \cap OfSide(lines, "CREDIT") \in SUBSET DOMAIN lines
  OBVIOUS
<1>2. Credits(lines, own) \in Nat
  BY <1>1, TotalIs DEF Credits
<1>3. Invoices(lines, own) \in SUBSET DOMAIN lines
  BY DEF Invoices
<1>4. ASSUME NEW paid \in SUBSET Invoices(lines, own)
      PROVE  /\ paid \in SUBSET DOMAIN lines /\ Total(lines, paid) \in Nat
             /\ Rest(lines, own, paid) =
                  IF Total(lines, paid) >= Credits(lines, own) THEN 0
                  ELSE Credits(lines, own) - Total(lines, paid)
  <2>1. paid \in SUBSET DOMAIN lines
    BY <1>3
  <2>2. Total(lines, paid) \in Nat
    BY <2>1, TotalIs
  <2>3. Credits(lines, own) - Total(lines, paid) \in Int /\ 0 \in Int
    BY <1>2, <2>2
  <2>4. Rest(lines, own, paid) = IF 0 >= Credits(lines, own) - Total(lines, paid) THEN 0
                                 ELSE Credits(lines, own) - Total(lines, paid)
    BY <2>3, OfTwo DEF Rest
  <2> QED
    BY <1>2, <2>1, <2>2, <2>4
<1> QED
  BY <1>2, <1>3, <1>4, TotalIs

\* One invoice more draws on the pool what it can.
LEMMA RestDraws ==
  ASSUME NorthStarAssumption, NEW lines \in Seq(Entry), NEW own \in SUBSET DOMAIN lines,
         NEW paid \in SUBSET Invoices(lines, own), NEW i \in paid
  PROVE  Rest(lines, own, paid) =
           Rest(lines, own, paid \ {i}) - Min({lines[i].amount, Rest(lines, own, paid \ {i})})
<1>1. /\ Total(lines, paid) = lines[i].amount + Total(lines, paid \ {i})
      /\ lines[i].amount \in Nat
  BY OwnType, LinesType, TotalWithout
<1>2. paid \ {i} \in SUBSET Invoices(lines, own)
  OBVIOUS
<1>3. /\ Credits(lines, own) \in Nat /\ Total(lines, paid \ {i}) \in Nat
      /\ Rest(lines, own, paid) =
           IF Total(lines, paid) >= Credits(lines, own) THEN 0
           ELSE Credits(lines, own) - Total(lines, paid)
      /\ Rest(lines, own, paid \ {i}) =
           IF Total(lines, paid \ {i}) >= Credits(lines, own) THEN 0
           ELSE Credits(lines, own) - Total(lines, paid \ {i})
  BY <1>2, OwnType
<1>4. Rest(lines, own, paid \ {i}) \in Int
  BY <1>3
<1>5. lines[i].amount \in Int
  BY <1>1
<1>6. Min({lines[i].amount, Rest(lines, own, paid \ {i})})
        = IF lines[i].amount <= Rest(lines, own, paid \ {i})
            THEN lines[i].amount ELSE Rest(lines, own, paid \ {i})
  BY <1>4, <1>5, OfTwo
<1> HIDE DEF Min
<1> QED
  BY <1>1, <1>3, <1>6

\* The pool is what is left of the credits when the invoices paid are taken
\* from them, if anything.
LEMMA PoolIs ==
  ASSUME NorthStarAssumption, NEW lines \in Seq(Entry), NEW own \in SUBSET DOMAIN lines
  PROVE  \A paid \in SUBSET Invoices(lines, own) :
           Pool(lines, own)[paid] = Rest(lines, own, paid)
<1> DEFINE all == Invoices(lines, own)
           h == [paid \in SUBSET all |-> Rest(lines, own, paid)]
           p == Pool(lines, own)
<1>1. Rest(lines, own, {}) = Credits(lines, own)
  <2>1. {} \in SUBSET all /\ {} \in SUBSET DOMAIN lines
    OBVIOUS
  <2>2. Total(lines, {}) = 0
    BY <2>1, TotalIs, SumUnfold
  <2> QED
    BY <2>1, <2>2, OwnType
<1>2. ASSUME NEW paid \in SUBSET all, paid # {}
      PROVE  Latest(lines, paid) \in paid
  BY <1>2, OwnType, LatestIs
<1>3. ASSUME NEW paid \in SUBSET all
      PROVE  h[paid] = IF paid = {} THEN Credits(lines, own)
                       ELSE LET i == Latest(lines, paid)
                            IN h[paid \ {i}] - Min({lines[i].amount, h[paid \ {i}]})
  <2>1. CASE paid = {}
    BY <1>1, <2>1
  <2>2. CASE paid # {}
    <3> DEFINE i == Latest(lines, paid)
    <3>1. i \in paid
      BY <1>2, <2>2
    <3> HIDE DEF i
    <3>2. h[paid \ {i}] = Rest(lines, own, paid \ {i})
      OBVIOUS
    <3>3. h[paid] = h[paid \ {i}] - Min({lines[i].amount, h[paid \ {i}]})
      BY <3>1, <3>2, RestDraws
    <3> HIDE DEF h
    <3> QED
      BY <2>2, <3>3 DEF i
  <2> QED
    BY <2>1, <2>2
<1>4. Draws(lines, own, h)
  <2>1. h = [paid \in SUBSET all |-> h[paid]]
    OBVIOUS
  <2> HIDE DEF h
  <2> QED
    BY <1>3, <2>1 DEF Draws
<1>5. p = CHOOSE g : Draws(lines, own, g)
  BY DEF Pool, Draws
<1> HIDE DEF p
<1>6. Draws(lines, own, p)
  BY <1>4, <1>5
<1> DEFINE bad == {paid \in SUBSET all : p[paid] # h[paid]}
<1>7. bad = {}
  <2>1. SUFFICES ASSUME bad # {} PROVE FALSE
    OBVIOUS
  <2>2. bad \in SUBSET SUBSET all /\ IsFiniteSet(all)
    BY OwnType
  <2> HIDE DEF bad, h
  <2>3. PICK t \in bad : \A r \in bad : ~ (r \subseteq t /\ r # t)
    BY <2>1, <2>2, SmallestSet
  <2>4. t \in SUBSET all /\ p[t] # h[t]
    BY <2>3 DEF bad
  <2>5. CASE t = {}
    <3>1. p[t] = Credits(lines, own)
      BY <1>6, <2>5 DEF Draws
    <3> QED
      BY <1>3, <2>4, <2>5, <3>1
  <2>6. CASE t # {}
    <3> DEFINE i == Latest(lines, t)
    <3>1. i \in t
      BY <1>2, <2>4, <2>6
    <3>2. p[t] = p[t \ {i}] - Min({lines[i].amount, p[t \ {i}]})
      BY <1>6, <2>4, <2>6 DEF Draws
    <3>3. h[t] = h[t \ {i}] - Min({lines[i].amount, h[t \ {i}]})
      BY <1>3, <2>4, <2>6
    <3> HIDE DEF i
    <3>4. t \ {i} \in SUBSET all /\ t \ {i} \subseteq t /\ t \ {i} # t
      BY <2>4, <3>1
    <3>5. p[t \ {i}] = h[t \ {i}]
      BY <2>3, <3>4 DEF bad
    <3> QED
      BY <2>4, <3>2, <3>3, <3>5
  <2> QED
    BY <2>5, <2>6
<1>8. \A paid \in SUBSET all : p[paid] = h[paid]
  BY <1>7
<1> QED
  BY <1>8 DEF p

\* The invoices that come before one.
Earlier(lines, own, i) == {j \in Invoices(lines, own) : Before(lines, j, i)}

\* What is left open of an invoice is what the reference says.
LEMMA RemainingIs ==
  ASSUME NorthStarAssumption, NEW lines \in Seq(Entry), NEW own \in SUBSET DOMAIN lines,
         NEW i \in Invoices(lines, own)
  PROVE  LET rest == Rest(lines, own, Earlier(lines, own, i))
         IN /\ Remaining(lines, own)[i] = IF lines[i].amount <= rest THEN 0
                                          ELSE lines[i].amount - rest
            /\ Remaining(lines, own)[i] \in Nat
            /\ OpenOf(lines, own, i) = Remaining(lines, own)[i]
<1> DEFINE earlier == Earlier(lines, own, i)
           rest == Rest(lines, own, earlier)
           amount == lines[i].amount
           under == earlier \cup {i}
<1>1. /\ earlier \in SUBSET Invoices(lines, own) /\ under \in SUBSET Invoices(lines, own)
      /\ i \in DOMAIN lines
  BY OwnType DEF Earlier
<1>2. /\ Credits(lines, own) \in Nat /\ amount \in Nat
      /\ Total(lines, earlier) \in Nat /\ Total(lines, under) \in Nat
      /\ rest = IF Total(lines, earlier) >= Credits(lines, own) THEN 0
                ELSE Credits(lines, own) - Total(lines, earlier)
  BY <1>1, OwnType, LinesType
<1>3. rest \in Nat
  BY <1>2
<1>4. Remaining(lines, own)[i] = amount - Min({amount, rest})
  <2>1. Remaining(lines, own)[i] = amount - Min({amount, Pool(lines, own)[earlier]})
    BY DEF Remaining, Earlier
  <2> QED
    BY <1>1, <2>1, PoolIs
<1>5. Min({amount, rest}) = IF amount <= rest THEN amount ELSE rest
  <2>1. amount \in Int /\ rest \in Int
    BY <1>2, <1>3
  <2> HIDE DEF amount, rest
  <2> QED
    BY <2>1, OfTwo
<1>6. Total(lines, under) = amount + Total(lines, earlier)
  <2>1. ~Before(lines, i, i)
    BY <1>1, BeforeOrder
  <2>2. under \ {i} = earlier
    BY <2>1 DEF Earlier
  <2>3. under \in SUBSET DOMAIN lines /\ i \in under
    BY <1>1, OwnType
  <2> QED
    BY <2>2, <2>3, TotalWithout
<1>7. /\ {j \in own : /\ lines[j].side = "DEBIT"
                      /\ \/ lines[j].day < lines[i].day
                         \/ lines[j].day = lines[i].day /\ j <= i} = under
      /\ {j \in own : lines[j].side = "CREDIT"} = own \cap OfSide(lines, "CREDIT")
  <2>1. \A j \in own : j \in Nat /\ lines[j].day \in Nat
    BY LinesType
  <2>2. i \in own /\ lines[i].side = "DEBIT"
    BY DEF Invoices, OfSide
  <2>3. ASSUME NEW j \in own
        PROVE  (lines[j].day < lines[i].day \/ (lines[j].day = lines[i].day /\ j <= i))
                 <=> (Before(lines, j, i) \/ j = i)
    <3>1. /\ j \in Nat /\ i \in Nat /\ lines[j].day \in Nat /\ lines[i].day \in Nat
      BY <2>1, <2>2
    <3> QED
      BY <3>1 DEF Before
  <2>4. {j \in own : /\ lines[j].side = "DEBIT"
                     /\ \/ lines[j].day < lines[i].day
                        \/ lines[j].day = lines[i].day /\ j <= i}
          = {j \in own : lines[j].side = "DEBIT" /\ (Before(lines, j, i) \/ j = i)}
    BY <2>3
  <2>5. \A j \in own : j \in OfSide(lines, "DEBIT") <=> lines[j].side = "DEBIT"
    BY DEF OfSide
  <2>6. {j \in own : lines[j].side = "DEBIT" /\ (Before(lines, j, i) \/ j = i)} = under
    BY <2>2, <2>5 DEF Earlier, Invoices
  <2>7. {j \in own : lines[j].side = "CREDIT"} = own \cap OfSide(lines, "CREDIT")
    BY DEF OfSide
  <2> QED
    BY <2>4, <2>6, <2>7
<1>8. OpenOf(lines, own, i)
        = Max({0, Min({amount, Total(lines, under) - Credits(lines, own)})})
  BY <1>7 DEF OpenOf, Credits
<1>9. Min({amount, Total(lines, under) - Credits(lines, own)})
        = IF amount <= Total(lines, under) - Credits(lines, own) THEN amount
          ELSE Total(lines, under) - Credits(lines, own)
  <2>1. amount \in Int /\ Total(lines, under) - Credits(lines, own) \in Int
    BY <1>2
  <2> HIDE DEF amount, under
  <2> QED
    BY <2>1, OfTwo
<1>10. OpenOf(lines, own, i)
         = IF 0 >= Min({amount, Total(lines, under) - Credits(lines, own)}) THEN 0
           ELSE Min({amount, Total(lines, under) - Credits(lines, own)})
  <2>1. 0 \in Int /\ Min({amount, Total(lines, under) - Credits(lines, own)}) \in Int
    BY <1>2, <1>9
  <2> HIDE DEF amount, under
  <2> QED
    BY <1>8, <2>1, OfTwo
<1>11. Remaining(lines, own)[i] = IF amount <= rest THEN 0 ELSE amount - rest
  BY <1>2, <1>3, <1>4, <1>5
<1>12. OpenOf(lines, own, i) = IF amount <= rest THEN 0 ELSE amount - rest
  BY <1>2, <1>6, <1>9, <1>10
<1> HIDE DEF amount, rest
<1>13. Remaining(lines, own)[i] \in Nat
  BY <1>2, <1>3, <1>11
<1> QED
  BY <1>11, <1>12, <1>13 DEF amount, rest, earlier

\* What is left open of the oldest invoices is what they are more than the
\* credits.
LEMMA SumRemaining ==
  ASSUME NorthStarAssumption, NEW lines \in Seq(Entry), NEW own \in SUBSET DOMAIN lines
  PROVE  SumFunctionOnSet(Remaining(lines, own), Invoices(lines, own))
           = Max({0, Total(lines, Invoices(lines, own)) - Credits(lines, own)})
<1> DEFINE all == Invoices(lines, own)
           rem == Remaining(lines, own)
           oldest(t) == \A i \in t : Earlier(lines, own, i) \subseteq t
           over(t) == IF Total(lines, t) <= Credits(lines, own) THEN 0
                      ELSE Total(lines, t) - Credits(lines, own)
           bad == {t \in SUBSET all : oldest(t) /\ SumFunctionOnSet(rem, t) # over(t)}
<1>1. bad = {}
  <2>1. SUFFICES ASSUME bad # {} PROVE FALSE
    OBVIOUS
  <2>2. bad \in SUBSET SUBSET all /\ IsFiniteSet(all)
    BY OwnType
  <2> HIDE DEF bad
  <2>3. PICK t \in bad : \A r \in bad : ~ (r \subseteq t /\ r # t)
    BY <2>1, <2>2, SmallestSet
  <2>4. t \in SUBSET all /\ oldest(t) /\ SumFunctionOnSet(rem, t) # over(t)
    BY <2>3 DEF bad
  <2>5. /\ \A r \in SUBSET t : r \in SUBSET DOMAIN lines /\ Total(lines, r) \in Nat
        /\ IsFiniteSet(t) /\ Credits(lines, own) \in Nat
    BY <2>2, <2>4, OwnType, FS_Subset
  <2>6. CASE t = {}
    <3>1. SumFunctionOnSet(rem, {}) = 0 /\ SumFunctionOnSet(Amounts(lines), {}) = 0
      BY SumUnfold, FS_EmptySet
    <3>2. Total(lines, {}) = 0
      BY <3>1, TotalIs
    <3> QED
      BY <2>4, <2>5, <2>6, <3>1, <3>2
  <2>7. CASE t # {}
    <3> DEFINE i == Latest(lines, t)
               r == t \ {i}
    <3>1. i \in t /\ \A j \in t \ {i} : Before(lines, j, i)
      BY <2>5, <2>7, LatestIs
    <3> HIDE DEF i
    <3>2. \A j \in t : j \in DOMAIN lines
      BY <2>5
    <3>3. Earlier(lines, own, i) = r
      <4>1. r \subseteq Earlier(lines, own, i)
        BY <2>4, <3>1 DEF Earlier
      <4>2. i \notin Earlier(lines, own, i)
        BY <3>1, <3>2, BeforeOrder DEF Earlier
      <4> QED
        BY <2>4, <3>1, <4>1, <4>2
    <3>4. oldest(r)
      <4>1. ASSUME NEW j \in r PROVE i \notin Earlier(lines, own, j)
        BY <3>1, <3>2, BeforeOrder DEF Earlier
      <4> QED
        BY <2>4, <4>1
    <3>5. r \in SUBSET all /\ r \subseteq t /\ r # t
      BY <2>4, <3>1
    <3>6. SumFunctionOnSet(rem, r) = over(r)
      BY <2>3, <3>4, <3>5 DEF bad
    <3>7. \A j \in t : rem[j] \in Nat
      BY <2>4, RemainingIs
    <3>8. SumFunctionOnSet(rem, t) = rem[i] + SumFunctionOnSet(rem, r)
      <4>1. \A j \in t : rem[j] \in Int
        BY <3>7
      <4> HIDE DEF rem
      <4> QED
        BY <2>5, <3>1, <4>1, SumRemove
    <3>9. Total(lines, t) = lines[i].amount + Total(lines, r)
      BY <2>5, <3>1, TotalWithout
    <3>10. /\ rem[i] = IF lines[i].amount <= Rest(lines, own, r) THEN 0
                       ELSE lines[i].amount - Rest(lines, own, r)
           /\ Rest(lines, own, r) = IF Total(lines, r) >= Credits(lines, own) THEN 0
                                    ELSE Credits(lines, own) - Total(lines, r)
           /\ lines[i].amount \in Nat
      <4>1. i \in all
        BY <2>4, <3>1
      <4>2. rem[i] = IF lines[i].amount <= Rest(lines, own, r) THEN 0
                     ELSE lines[i].amount - Rest(lines, own, r)
        BY <3>3, <4>1, RemainingIs
      <4>3. Rest(lines, own, r) = IF Total(lines, r) >= Credits(lines, own) THEN 0
                                  ELSE Credits(lines, own) - Total(lines, r)
        BY <3>5, OwnType
      <4>4. lines[i].amount \in Nat
        BY <3>1, <3>2, LinesType
      <4> QED
        BY <4>2, <4>3, <4>4
    <3>11. Total(lines, r) \in Nat
      BY <2>5
    <3> HIDE DEF rem, r
    <3> QED
      BY <2>4, <2>5, <3>6, <3>8, <3>9, <3>10, <3>11
  <2> QED
    BY <2>6, <2>7
<1>2. oldest(all)
  BY DEF Earlier
<1>3. SumFunctionOnSet(rem, all) = over(all)
  BY <1>1, <1>2
<1>4. Total(lines, all) \in Nat /\ Credits(lines, own) \in Nat
  BY OwnType
<1>5. 0 \in Int /\ Total(lines, all) - Credits(lines, own) \in Int
  BY <1>4
<1>6. Max({0, Total(lines, all) - Credits(lines, own)})
        = IF 0 >= Total(lines, all) - Credits(lines, own) THEN 0
          ELSE Total(lines, all) - Credits(lines, own)
  BY <1>5, OfTwo
<1> HIDE DEF all, rem
<1> QED
  BY <1>3, <1>4, <1>6 DEF all, rem

-----------------------------------------------------------------------------
(* Aging: the buckets *)

\* The boundaries are in order.
LEMMA Increasing ==
  ASSUME NorthStarAssumption
  PROVE  \A i, j \in DOMAIN Boundaries : i < j => Boundaries[i] < Boundaries[j]
<1> DEFINE T == {d \in Nat : \A i \in DOMAIN Boundaries :
                   i + d + 1 \in DOMAIN Boundaries => Boundaries[i] < Boundaries[i + d + 1]}
<1>1. /\ DOMAIN Boundaries = 1..Len(Boundaries) /\ Len(Boundaries) \in Nat
      /\ \A i \in DOMAIN Boundaries : Boundaries[i] \in Nat
      /\ \A i \in 1..(Len(Boundaries) - 1) : Boundaries[i] < Boundaries[i + 1]
  BY DEF NorthStarAssumption
<1>2. 0 \in T
  BY <1>1
<1>3. ASSUME NEW d \in T PROVE d + 1 \in T
  <2>1. SUFFICES ASSUME NEW i \in DOMAIN Boundaries, i + (d + 1) + 1 \in DOMAIN Boundaries
                 PROVE  Boundaries[i] < Boundaries[i + (d + 1) + 1]
    BY <1>3
  <2>2. i + d + 1 \in DOMAIN Boundaries /\ i + (d + 1) + 1 = (i + d + 1) + 1
        /\ i + d + 1 \in 1..(Len(Boundaries) - 1)
    BY <1>1, <1>3, <2>1
  <2>3. Boundaries[i] < Boundaries[i + d + 1]
    BY <1>3, <2>1, <2>2
  <2>4. Boundaries[i + d + 1] < Boundaries[(i + d + 1) + 1]
    BY <1>1, <2>2
  <2>5. /\ Boundaries[i] \in Nat /\ Boundaries[i + d + 1] \in Nat
        /\ Boundaries[i + (d + 1) + 1] \in Nat
    BY <1>1, <2>1, <2>2
  <2> QED
    BY <2>2, <2>3, <2>4, <2>5
<1> HIDE DEF T
<1>4. T = Nat
  <2>1. T \in SUBSET Nat
    BY DEF T
  <2> QED
    BY <1>2, <1>3, <2>1, Induct
<1>5. ASSUME NEW i \in DOMAIN Boundaries, NEW j \in DOMAIN Boundaries, i < j
      PROVE  Boundaries[i] < Boundaries[j]
  <2>1. j - i - 1 \in T /\ i + (j - i - 1) + 1 = j
    BY <1>1, <1>4, <1>5
  <2> QED
    BY <2>1 DEF T
<1> QED
  BY <1>5

\* The least of some of the first numbers.
LEMMA LeastOf ==
  ASSUME NEW n \in Nat, NEW those \in SUBSET (1..n)
  PROVE  LET least == Min(those \cup {n + 1})
         IN least \in those \cup {n + 1} /\ \A i \in those : least <= i
<1> DEFINE all == those \cup {n + 1}
           T == {k \in Nat : \A i \in all : i # k}
<1>1. all \subseteq Nat
  OBVIOUS
<1>2. \E x \in all : \A y \in all : x <= y
  <2>1. SUFFICES ASSUME \A x \in all : \E y \in all : ~(x <= y) PROVE FALSE
    OBVIOUS
  <2> DEFINE U == {k \in Nat : \A x \in all : x > k}
  <2>2. 0 \in U
    BY <1>1
  <2>3. ASSUME NEW k \in U PROVE k + 1 \in U
    <3>1. \A x \in all : x >= k + 1
      BY <1>1, <2>3
    <3>2. k + 1 \notin all
      BY <1>1, <2>1, <3>1
    <3> QED
      BY <1>1, <2>3, <3>1, <3>2
  <2> HIDE DEF all
  <2>4. U = Nat
    <3>1. U \in SUBSET Nat
      OBVIOUS
    <3> HIDE DEF U
    <3> QED
      BY <2>2, <2>3, <3>1, Induct
  <2>5. n + 1 \in all /\ n + 1 \in Nat
    BY DEF all
  <2>6. n + 1 \in U
    BY <2>4, <2>5
  <2> QED
    BY <2>5, <2>6
<1>3. Min(all) \in all /\ \A y \in all : Min(all) <= y
  BY <1>2 DEF Min
<1> QED
  BY <1>3

\* The days a bucket is for: more than lo, no more than hi.
Above(b) == IF b = 1 THEN -1 ELSE Boundaries[b - 1]
UpTo(b) == IF b \in DOMAIN Boundaries THEN Boundaries[b] ELSE AsOf + 1

\* A bucket is the one whose days the age is among.
LEMMA BucketIs ==
  ASSUME NorthStarAssumption, NEW age \in 0..AsOf
  PROVE  /\ BucketOf(age) \in Buckets
         /\ \A b \in Buckets : BucketOf(age) = b <=> (Above(b) < age /\ age <= UpTo(b))
<1> DEFINE n == Len(Boundaries)
           those == {i \in DOMAIN Boundaries : age <= Boundaries[i]}
<1>1. /\ DOMAIN Boundaries = 1..n /\ n \in Nat \ {0} /\ AsOf \in Nat
      /\ \A i \in 1..n : Boundaries[i] \in Nat
  BY DEF NorthStarAssumption
<1>2. BucketOf(age) \in those \cup {n + 1} /\ \A i \in those : BucketOf(age) <= i
  <2>1. those \in SUBSET (1..n)
    BY <1>1
  <2> HIDE DEF those
  <2>2. Min(those \cup {n + 1}) \in those \cup {n + 1}
        /\ \A i \in those : Min(those \cup {n + 1}) <= i
    BY <1>1, <2>1, LeastOf
  <2> QED
    BY <2>2 DEF BucketOf, those
<1> DEFINE k == BucketOf(age)
<1>3. k \in 1..(n + 1) /\ Buckets = 1..(n + 1)
  BY <1>1, <1>2 DEF Buckets
<1>4. k \in 1..n => age <= Boundaries[k]
  BY <1>1, <1>2
<1>5. \A i \in 1..n : i < k => Boundaries[i] < age
  BY <1>1, <1>2
<1> HIDE DEF k, n, those
<1>6. Above(k) < age /\ age <= UpTo(k)
  <2>1. Above(k) < age
    BY <1>1, <1>3, <1>5 DEF Above
  <2>2. age <= UpTo(k)
    BY <1>1, <1>3, <1>4 DEF UpTo
  <2> QED
    BY <2>1, <2>2
<1>7. ASSUME NEW b \in 1..(n + 1), Above(b) < age, age <= UpTo(b)
      PROVE  k = b
  <2>1. CASE b < k
    <3>1. b \in 1..n
      BY <1>1, <1>3, <2>1
    <3>2. Boundaries[b] < age /\ UpTo(b) = Boundaries[b]
      BY <1>1, <1>5, <2>1, <3>1 DEF UpTo
    <3> QED
      BY <1>1, <1>7, <3>1, <3>2
  <2>2. CASE k < b
    <3>1. k \in 1..n /\ b - 1 \in 1..n /\ Above(b) = Boundaries[b - 1]
      BY <1>1, <1>3, <2>2 DEF Above
    <3>2. Boundaries[k] <= Boundaries[b - 1]
      <4>1. CASE k = b - 1
        BY <1>1, <3>1, <4>1
      <4>2. CASE k < b - 1
        BY <1>1, <3>1, <4>2, Increasing
      <4> QED
        BY <1>3, <2>2, <3>1, <4>1, <4>2
    <3>3. Boundaries[k] \in Nat /\ Boundaries[b - 1] \in Nat
      BY <1>1, <3>1
    <3> QED
      BY <1>4, <1>7, <3>1, <3>2, <3>3
  <2> QED
    BY <1>1, <1>3, <2>1, <2>2
<1> QED
  BY <1>3, <1>6, <1>7 DEF k

\* A bucket of a partner holds what is open of the invoices of its days, and the
\* buckets what he owes.
LEMMA PartnerAgingIs ==
  ASSUME NorthStarAssumption, NEW lines \in Seq(Entry), NEW own \in SUBSET DOMAIN lines
  PROVE  /\ \A b \in Buckets :
              /\ PartnerAging(lines, own)[b] \in Nat
              /\ PartnerAging(lines, own)[b]
                   = SumFunctionOnSet([i \in own |-> OpenOf(lines, own, i)],
                                      Aged(lines, own, Above(b), UpTo(b)))
         /\ SumFunctionOnSet(PartnerAging(lines, own), Buckets)
              = Max({0, Total(lines, Invoices(lines, own)) - Credits(lines, own)})
<1> DEFINE all == Invoices(lines, own)
           rem == Remaining(lines, own)
           open == [i \in own |-> OpenOf(lines, own, i)]
           key == [i \in all |-> BucketOf(AgeOf(lines[i]))]
           part(b) == {i \in all : key[i] = b}
           sums == [b \in Buckets |-> SumFunctionOnSet(rem, part(b))]
<1>1. /\ all \in SUBSET DOMAIN lines /\ IsFiniteSet(all) /\ all \subseteq own
      /\ DOMAIN rem = all
      /\ \A i \in all : rem[i] \in Nat /\ open[i] = rem[i]
  <2>1. all \subseteq own
    BY DEF Invoices
  <2>2. DOMAIN rem = all
    BY DEF Remaining
  <2>3. ASSUME NEW i \in all PROVE rem[i] \in Nat /\ open[i] = rem[i]
    <3>1. open[i] = OpenOf(lines, own, i)
      BY <2>1
    <3> QED
      BY <3>1, RemainingIs
  <2> QED
    BY <2>1, <2>2, <2>3, OwnType
<1>2. ASSUME NEW i \in all PROVE AgeOf(lines[i]) \in 0..AsOf
  <2>1. lines[i].day \in Nat /\ AsOf \in Nat
    BY <1>1, LinesType DEF NorthStarAssumption
  <2>2. 0 \in Int /\ AsOf - lines[i].day \in Int
    BY <2>1
  <2>3. AgeOf(lines[i]) = IF 0 >= AsOf - lines[i].day THEN 0 ELSE AsOf - lines[i].day
    BY <2>2, OfTwo DEF AgeOf
  <2> QED
    BY <2>1, <2>3
<1>3. \A i \in all : key[i] \in Buckets
  BY <1>2, BucketIs
<1>4. PartnerAging(lines, own) = sums
  BY <1>1 DEF PartnerAging
<1>5. ASSUME NEW b \in Buckets
      PROVE  Aged(lines, own, Above(b), UpTo(b)) = part(b)
  <2>1. \A i \in all : BucketOf(AgeOf(lines[i])) = b
                        <=> (Above(b) < AgeOf(lines[i]) /\ AgeOf(lines[i]) <= UpTo(b))
    BY <1>2, BucketIs
  <2>2. \A i \in own : i \in all <=> lines[i].side = "DEBIT"
    BY DEF Invoices, OfSide
  <2> HIDE DEF all
  <2> QED
    BY <1>1, <2>1, <2>2 DEF Aged
<1>6. ASSUME NEW b \in Buckets
      PROVE  /\ SumFunctionOnSet(rem, part(b)) \in Nat
             /\ SumFunctionOnSet(open, part(b)) = SumFunctionOnSet(rem, part(b))
  <2>1. /\ IsFiniteSet(part(b)) /\ \A i \in part(b) : rem[i] \in Nat
        /\ \A i \in part(b) : open[i] = rem[i]
    BY <1>1, FS_Subset
  <2> HIDE DEF part, rem, open
  <2>2. \A i \in part(b) : rem[i] \in Int
    BY <2>1
  <2>3. SumFunctionOnSet(rem, part(b)) \in Nat
    BY <2>1, <2>2, SumType
  <2>4. SumFunctionOnSet(open, part(b)) = SumFunctionOnSet(rem, part(b))
    BY <2>1, SumEqual
  <2> QED
    BY <2>3, <2>4
<1>7. SumFunctionOnSet(sums, Buckets) = SumFunctionOnSet(rem, all)
  <2>1. IsFiniteSet(Buckets)
    <3>1. Buckets = 1..(Len(Boundaries) + 1) /\ Len(Boundaries) \in Nat
      BY DEF Buckets, NorthStarAssumption
    <3> QED
      BY <3>1, FS_Interval
  <2> HIDE DEF rem, all, key
  <2>2. /\ IsFiniteSet(all)
        /\ \A i \in all : rem[i] \in Int
        /\ \A i \in all : key[i] \in Buckets
    <3>1. IsFiniteSet(all)
      BY <1>1
    <3>2. \A i \in all : rem[i] \in Nat
      BY <1>1
    <3>3. \A i \in all : rem[i] \in Int
      BY <3>2
    <3> QED
      BY <1>3, <3>1, <3>3
  <2>3. SumFunctionOnSet([b \in Buckets |-> SumFunctionOnSet(rem, {i \in all : key[i] = b})],
                         Buckets)
          = SumFunctionOnSet(rem, all)
    BY <2>1, <2>2, SumOfParts
  <2> QED
    BY <2>3
<1>8. SumFunctionOnSet(rem, all) = Max({0, Total(lines, all) - Credits(lines, own)})
  BY SumRemaining
<1> HIDE DEF all, rem, part, key
<1>9. \A b \in Buckets : sums[b] = SumFunctionOnSet(rem, part(b))
  OBVIOUS
<1> HIDE DEF sums, open
<1>10. ASSUME NEW b \in Buckets
       PROVE  /\ PartnerAging(lines, own)[b] \in Nat
              /\ PartnerAging(lines, own)[b]
                   = SumFunctionOnSet(open, Aged(lines, own, Above(b), UpTo(b)))
  BY <1>4, <1>5, <1>6, <1>9
<1> QED
  BY <1>4, <1>7, <1>8, <1>10 DEF open, all

\* What AgingIsFifo says of one partner.
IsFifo(lines, owed, p) ==
  LET own == LinesOf(lines, p)
      aging == IF p \in DOMAIN owed THEN owed[p] ELSE [b \in Buckets |-> 0]
      open == [i \in own |-> OpenOf(lines, own, i)]
  IN /\ \A b \in Buckets :
          aging[b] = SumFunctionOnSet(open, Aged(lines, own, Above(b), UpTo(b)))
     /\ SumFunctionOnSet(aging, Buckets)
          = Max({0, Total(lines, own \cap OfSide(lines, "DEBIT"))
                      - Total(lines, own \cap OfSide(lines, "CREDIT"))})

\* The aging of any lines is first in, first out.
LEMMA AgingOf ==
  ASSUME NorthStarAssumption, NEW lines \in Seq(Entry),
         NEW p \in {lines[i].partner : i \in DOMAIN lines}
  PROVE  IsFifo(lines, ComputeAging(lines).byPartner, p)
<1> DEFINE owed == ComputeAging(lines).byPartner
           own == LinesOf(lines, p)
           partners == {lines[i].partner : i \in DOMAIN lines}
           of == [q \in partners |-> PartnerAging(lines, LinesOf(lines, q))]
           owing == {q \in partners : \E b \in Buckets : of[q][b] > 0}
           aging == IF p \in DOMAIN owed THEN owed[p] ELSE [b \in Buckets |-> 0]
<1>1. own \in SUBSET DOMAIN lines
  BY DEF LinesOf
<1>2. owed = [q \in owing |-> of[q]]
  BY DEF ComputeAging
<1>3. of[p] = PartnerAging(lines, own)
  OBVIOUS
<1>4. aging = PartnerAging(lines, own)
  <2>1. CASE p \in owing
    BY <1>2, <1>3, <2>1
  <2>2. CASE p \notin owing
    <3>1. \A b \in Buckets : PartnerAging(lines, own)[b] = 0
      <4>1. ASSUME NEW b \in Buckets PROVE ~(PartnerAging(lines, own)[b] > 0)
        BY <1>3, <2>2
      <4>2. \A b \in Buckets : PartnerAging(lines, own)[b] \in Nat
        BY <1>1, PartnerAgingIs
      <4> QED
        BY <4>1, <4>2
    <3>2. PartnerAging(lines, own) = [b \in Buckets |-> PartnerAging(lines, own)[b]]
      BY DEF PartnerAging
    <3>3. PartnerAging(lines, own) = [b \in Buckets |-> 0]
      BY <3>1, <3>2
    <3> QED
      BY <1>2, <2>2, <3>3
  <2> QED
    BY <2>1, <2>2
<1> HIDE DEF own, aging
<1> QED
  BY <1>1, <1>4, PartnerAgingIs DEF IsFifo, Invoices, Credits, own, aging, owed

-----------------------------------------------------------------------------
(* The scores *)

\* A score is between none and a full one.
LEMMA ClampType ==
  ASSUME NorthStarAssumption
  PROVE  \A x \in Int : Clamp(x) \in 0..Full
<1> SUFFICES ASSUME NEW x \in Int PROVE Clamp(x) \in 0..Full
  OBVIOUS
<1>1. Full \in Nat
  BY FullType
<1>2. Min({Full, x}) = IF Full <= x THEN Full ELSE x
  BY <1>1, OfTwo
<1>3. 0 \in Int /\ Min({Full, x}) \in Int
  BY <1>1, <1>2
<1>4. Clamp(x) = IF 0 >= Min({Full, x}) THEN 0 ELSE Min({Full, x})
  BY <1>3, OfTwo DEF Clamp
<1> QED
  BY <1>1, <1>2, <1>4

Axis == {"cash", "receivables", "conversion", "margin", "speed"}

\* The axes and their weights.
LEMMA WeightType ==
  /\ DOMAIN Weight = Axis /\ IsFiniteSet(Axis)
  /\ \A a \in Axis : Weight[a] \in {10, 20, 30}
<1>1. IsFiniteSet(Axis)
  <2>1. IsFiniteSet({})
    BY FS_EmptySet
  <2>2. IsFiniteSet({} \cup {"cash"})
    BY <2>1, FS_AddElement
  <2>3. IsFiniteSet(({} \cup {"cash"}) \cup {"receivables"})
    BY <2>2, FS_AddElement
  <2>4. IsFiniteSet((({} \cup {"cash"}) \cup {"receivables"}) \cup {"conversion"})
    BY <2>3, FS_AddElement
  <2>5. IsFiniteSet(((({} \cup {"cash"}) \cup {"receivables"}) \cup {"conversion"})
                      \cup {"margin"})
    BY <2>4, FS_AddElement
  <2>6. IsFiniteSet((((({} \cup {"cash"}) \cup {"receivables"}) \cup {"conversion"})
                       \cup {"margin"}) \cup {"speed"})
    BY <2>5, FS_AddElement
  <2>7. Axis = (((({} \cup {"cash"}) \cup {"receivables"}) \cup {"conversion"})
                       \cup {"margin"}) \cup {"speed"}
    BY DEF Axis
  <2> QED
    BY <2>6, <2>7
<1> QED
  BY <1>1 DEF Weight, Axis

\* The weighted sum of some axes lies between their weight times a bound below
\* them and their weight times one above them.
LEMMA WeighedBetween ==
  ASSUME NEW axes, NEW lo \in Int, NEW hi \in Int, NEW those \in SUBSET Axis,
         \A a \in those : axes[a] \in Int /\ lo <= axes[a] /\ axes[a] <= hi
  PROVE  LET w == SumFunctionOnSet(Weight, those)
         IN /\ w \in Nat /\ (those # {} => w > 0)
            /\ Weighed(axes, those) \in Int
            /\ lo * w <= Weighed(axes, those) /\ Weighed(axes, those) <= hi * w
<1> DEFINE f == [a \in those |-> Weight[a] * axes[a]]
           w(t) == SumFunctionOnSet(Weight, t)
           s(t) == SumFunctionOnSet(f, t)
           good(t) == /\ w(t) \in Nat /\ (t # {} => w(t) > 0) /\ s(t) \in Int
                      /\ lo * w(t) <= s(t) /\ s(t) <= hi * w(t)
           bad == {t \in SUBSET those : ~good(t)}
<1>1. bad = {}
  <2>1. SUFFICES ASSUME bad # {} PROVE FALSE
    OBVIOUS
  <2>2. bad \in SUBSET SUBSET those /\ IsFiniteSet(those)
    BY WeightType, FS_Subset
  <2> HIDE DEF bad
  <2>3. PICK t \in bad : \A r \in bad : ~ (r \subseteq t /\ r # t)
    BY <2>1, <2>2, SmallestSet
  <2>4. t \in SUBSET those /\ ~good(t) /\ IsFiniteSet(t)
    BY <2>2, <2>3, FS_Subset DEF bad
  <2>5. t # {}
    <3>1. w({}) = 0 /\ s({}) = 0
      BY SumUnfold, FS_EmptySet
    <3>2. good({})
      BY <3>1
    <3> HIDE DEF good
    <3> QED
      BY <2>4, <3>2
  <2>6. PICK a \in t : TRUE
    BY <2>5
  <2> DEFINE r == t \ {a}
  <2>7. good(r)
    <3>1. r \in SUBSET those /\ r \subseteq t /\ r # t
      BY <2>4
    <3> HIDE DEF good, r
    <3> QED
      BY <2>3, <3>1 DEF bad
  <2>8. Weight[a] \in {10, 20, 30} /\ axes[a] \in Int /\ lo <= axes[a] /\ axes[a] <= hi
    BY <2>4, WeightType
  <2>9. w(t) = Weight[a] + w(r)
    <3>1. \A x \in t : Weight[x] \in Int
      BY <2>4, WeightType
    <3> HIDE DEF r
    <3> QED
      BY <2>4, <3>1, SumRemove DEF r
  <2>10. s(t) = Weight[a] * axes[a] + s(r)
    <3>1. \A x \in t : f[x] \in Int
      <4>1. ASSUME NEW x \in t PROVE Weight[x] \in {10, 20, 30} /\ axes[x] \in Int
        BY <2>4, WeightType
      <4>2. ASSUME NEW x \in t PROVE f[x] = Weight[x] * axes[x]
        BY <2>4
      <4> QED
        BY <4>1, <4>2
    <3>2. f[a] = Weight[a] * axes[a]
      BY <2>4
    <3> HIDE DEF f
    <3>3. s(t) = f[a] + s(r)
      BY <2>4, <3>1, SumRemove
    <3> QED
      BY <3>2, <3>3
  <2> DEFINE W == w(r)
             S == s(r)
             x == axes[a]
             k == Weight[a]
  <2>11. /\ W \in Nat /\ S \in Int /\ lo * W <= S /\ S <= hi * W
         /\ k \in {10, 20, 30} /\ x \in Int /\ lo <= x /\ x <= hi
         /\ w(t) = k + W /\ s(t) = k * x + S
    BY <2>7, <2>8, <2>9, <2>10
  <2> HIDE DEF W, S, x, k, w, s
  <2>12. k * lo <= k * x /\ k * x <= k * hi /\ k * x \in Int
    <3>1. CASE k = 10
      BY <2>11, <3>1
    <3>2. CASE k = 20
      BY <2>11, <3>2
    <3>3. CASE k = 30
      BY <2>11, <3>3
    <3> QED
      BY <2>11, <3>1, <3>2, <3>3
  <2>13. lo * (k + W) = k * lo + lo * W /\ hi * (k + W) = k * hi + hi * W
    BY <2>11
  <2>14. lo * W \in Int /\ hi * W \in Int /\ k * lo \in Int /\ k * hi \in Int
    BY <2>11
  <2>15. lo * w(t) <= s(t) /\ s(t) <= hi * w(t)
    BY <2>11, <2>12, <2>13, <2>14
  <2>16. w(t) \in Nat /\ w(t) > 0 /\ s(t) \in Int
    BY <2>11, <2>12
  <2> QED
    BY <2>4, <2>15, <2>16
<1>2. good(those)
  BY <1>1
<1> QED
  BY <1>2 DEF Weighed

\* A function has finitely many values on a finite set.
LEMMA ImageFinite ==
  ASSUME NEW S, IsFiniteSet(S), NEW f
  PROVE  IsFiniteSet({f[x] : x \in S})
<1> DEFINE g == [x \in S |-> f[x]]
           T == {f[x] : x \in S}
<1>1. g \in Surjection(S, T)
  BY DEF Surjection
<1> QED
  BY <1>1, FS_Surjection

\* Rows: posted lines by their places.
IsRows(rows) ==
  /\ IsFiniteSet(DOMAIN rows)
  /\ \A i \in DOMAIN rows : rows[i].amount \in Nat

\* A total of rows is a natural.
LEMMA TotalType ==
  ASSUME NEW rows, IsRows(rows), NEW those \in SUBSET DOMAIN rows
  PROVE  Total(rows, those) \in Nat
<1>1. IsFiniteSet(those)
  BY FS_Subset DEF IsRows
<1>2. \A i \in those : [j \in those |-> rows[j].amount][i] \in Nat
  BY DEF IsRows
<1> QED
  BY <1>1, <1>2, SumType DEF Total

\* A month's rate is a number or missing, and there are finitely many months.
LEMMA CcrType ==
  ASSUME NorthStarAssumption, NEW revenue, IsRows(revenue), NEW cash, IsRows(cash)
  PROVE  LET ccr == ComputeCcr(revenue, cash)
         IN IsFiniteSet(DOMAIN ccr) /\ \A m \in DOMAIN ccr : ccr[m] \in Int \cup {Null}
<1> DEFINE ccr == ComputeCcr(revenue, cash)
           monthly(lines, m) == Total(lines, {i \in DOMAIN lines : MonthOf(lines[i]) = m})
           months == {MonthOf(line) : line \in Range(revenue) \cup Range(cash)}
           in(lines) == {[j \in DOMAIN lines |-> MonthOf(lines[j])][i] : i \in DOMAIN lines}
<1>1. ccr = [m \in months |-> IF monthly(revenue, m) = 0 THEN Null
                              ELSE (Full * monthly(cash, m)) \div monthly(revenue, m)]
  BY DEF ComputeCcr
<1>2. IsFiniteSet(months)
  <2>1. IsFiniteSet(in(revenue)) /\ IsFiniteSet(in(cash))
    BY ImageFinite DEF IsRows
  <2>2. months = in(revenue) \cup in(cash)
    BY DEF Range
  <2> HIDE DEF months, in
  <2> QED
    BY <2>1, <2>2, FS_Union
<1>3. ASSUME NEW m PROVE monthly(revenue, m) \in Nat /\ monthly(cash, m) \in Nat
  BY TotalType
<1> HIDE DEF monthly, ccr, months
<1>4. ASSUME NEW m \in months PROVE ccr[m] \in Int \cup {Null}
  BY <1>1, <1>3, QuotientType
<1> QED
  BY <1>1, <1>2, <1>4 DEF ccr

\* The cash score is a score, if any month has a rate.
LEMMA CashScoreType ==
  ASSUME NorthStarAssumption, NEW ccr, IsFiniteSet(DOMAIN ccr),
         \A m \in DOMAIN ccr : ccr[m] \in Int \cup {Null}
  PROVE  CashScore(ccr) \in (0..Full) \cup {Null}
<1> DEFINE recent == {m \in DOMAIN ccr :
                        /\ Cardinality({n \in DOMAIN ccr : n > m}) < Lookback
                        /\ ccr[m] # Null}
<1>1. CASE recent = {}
  BY <1>1 DEF CashScore
<1>2. CASE recent # {}
  <2>1. IsFiniteSet(recent) /\ \A m \in recent : ccr[m] \in Int
    BY FS_Subset
  <2>2. CashScore(ccr) = Clamp(SumFunctionOnSet(ccr, recent) \div Cardinality(recent))
    BY <1>2 DEF CashScore
  <2> HIDE DEF recent
  <2>3. SumFunctionOnSet(ccr, recent) \in Int
    BY <2>1, SumType
  <2>4. Cardinality(recent) \in Nat /\ Cardinality(recent) # 0
    BY <1>2, <2>1, FS_CardinalityType, FS_EmptySet
  <2>5. SumFunctionOnSet(ccr, recent) \div Cardinality(recent) \in Int
    BY <2>3, <2>4
  <2> QED
    BY <2>2, <2>5, ClampType
<1> QED
  BY <1>1, <1>2

\* The receivables score is a score.
LEMMA OverShareType ==
  ASSUME NorthStarAssumption, NEW lines \in Seq(Entry)
  PROVE  ReceivablesScore(ComputeAging(lines).overShare) \in 0..Full
<1> DEFINE partners == {lines[i].partner : i \in DOMAIN lines}
           of == [p \in partners |-> PartnerAging(lines, LinesOf(lines, p))]
           owing == {p \in partners : \E b \in Buckets : of[p][b] > 0}
           buckets == [b \in Buckets |-> SumFunctionOnSet([p \in owing |-> of[p][b]], owing)]
           open == SumFunctionOnSet(buckets, Buckets)
           over == ComputeAging(lines).overShare
           last == Len(Boundaries) + 1
<1>1. over = IF open = 0 THEN Null ELSE (Full * buckets[last]) \div open
  BY DEF ComputeAging
<1>2. IsFiniteSet(owing)
  <2>1. partners = {[j \in DOMAIN lines |-> lines[j].partner][i] : i \in DOMAIN lines}
    OBVIOUS
  <2>2. IsFiniteSet(partners)
    <3>1. IsFiniteSet(DOMAIN lines)
      BY LinesType
    <3>2. IsFiniteSet({[j \in DOMAIN lines |-> lines[j].partner][i] : i \in DOMAIN lines})
      BY <3>1, ImageFinite
    <3> QED
      BY <2>1, <3>2
  <2>3. owing \subseteq partners
    OBVIOUS
  <2> HIDE DEF owing, partners
  <2> QED
    BY <2>2, <2>3, FS_Subset
<1>3. ASSUME NEW b \in Buckets PROVE buckets[b] \in Nat
  <2>1. ASSUME NEW p \in owing PROVE [q \in owing |-> of[q][b]][p] \in Nat
    <3>1. LinesOf(lines, p) \in SUBSET DOMAIN lines
      BY DEF LinesOf
    <3>2. PartnerAging(lines, LinesOf(lines, p))[b] \in Nat
      BY <3>1, PartnerAgingIs
    <3> QED
      BY <3>2
  <2> DEFINE h == [q \in owing |-> of[q][b]]
  <2>2. buckets[b] = SumFunctionOnSet(h, owing)
    OBVIOUS
  <2>3. \A p \in owing : h[p] \in Nat
    BY <2>1
  <2> HIDE DEF h, owing, buckets
  <2>4. \A p \in owing : h[p] \in Int
    BY <2>3
  <2> QED
    BY <1>2, <2>2, <2>3, <2>4, SumType
<1>4. Buckets = 1..last /\ Len(Boundaries) \in Nat
  BY DEF Buckets, NorthStarAssumption
<1>5. IsFiniteSet(Buckets)
  BY <1>4, FS_Interval
<1> HIDE DEF buckets, owing, of, partners, over
<1>6. open \in Nat
  <2>1. \A b \in Buckets : buckets[b] \in Int
    BY <1>3
  <2> QED
    BY <1>3, <1>5, <2>1, SumType
<1>7. buckets[last] \in Nat
  BY <1>3, <1>4
<1> HIDE DEF open, last
<1>8. CASE open = 0
  <2>1. Full \in 0..Full
    BY FullType
  <2> QED
    BY <1>1, <1>8, <2>1 DEF ReceivablesScore, over
<1>9. CASE open # 0
  <2>1. over \in Int
    BY <1>1, <1>6, <1>7, <1>9, QuotientType
  <2>2. over # Null
    BY <2>1 DEF NorthStarAssumption
  <2>3. Clamp(Full - over) \in 0..Full
    BY <2>1, FullType, ClampType
  <2> QED
    BY <2>2, <2>3 DEF ReceivablesScore, over
<1> QED
  BY <1>8, <1>9

\* The answers of the three queries of rows.
Answers ==
  /\ journal \in Seq(Entry) /\ deposits \in Seq(Entry)
  /\ read["ar"] # Null => read["ar"] \in Seq(Entry)
  /\ read["revenue"] # Null => IsRows(read["revenue"])
  /\ read["cash"] # Null => IsRows(read["cash"])

\* Each axis is a score or missing, and the receivables are there.
LEMMA AxesType ==
  ASSUME NorthStarAssumption, Answers, Done, read["sent"] \in Nat, read["accepted"] \in Nat
  PROVE  /\ DOMAIN Axes = Axis
         /\ \A a \in Axis : Axes[a] \in (0..Full) \cup {Null}
         /\ Axes["receivables"] \in 0..Full
<1>1. /\ read["ar"] \in Seq(Entry) /\ IsRows(read["revenue"]) /\ IsRows(read["cash"])
  BY DEF Done, Query, Answers
<1>2. Axes["cash"] \in (0..Full) \cup {Null}
  <2>1. Axes["cash"] = CashScore(ComputeCcr(read["revenue"], read["cash"]))
    BY DEF Axes
  <2> QED
    BY <1>1, <2>1, CcrType, CashScoreType
<1>3. Axes["receivables"] \in 0..Full
  <2>1. Axes["receivables"] = ReceivablesScore(ComputeAging(read["ar"]).overShare)
    BY DEF Axes, Aging
  <2> QED
    BY <1>1, <2>1, OverShareType
<1>4. Axes["conversion"] \in (0..Full) \cup {Null}
  <2>1. Axes["conversion"] = ConversionScore
    BY DEF Axes
  <2>2. CASE read["sent"] = 0
    BY <2>1, <2>2 DEF ConversionScore
  <2>3. CASE read["sent"] # 0
    <3>1. (Full * read["accepted"]) \div read["sent"] \in Int
      BY <2>3, QuotientType
    <3>2. Clamp((Full * read["accepted"]) \div read["sent"]) \in 0..Full
      BY <3>1, ClampType
    <3> QED
      BY <2>1, <2>3, <3>2 DEF ConversionScore
  <2> QED
    BY <2>2, <2>3
<1>5. /\ Axes["margin"] \in (0..Full) \cup {Null} /\ Axes["speed"] \in (0..Full) \cup {Null}
      /\ DOMAIN Axes = Axis
  BY DEF Axes, Axis, NorthStarAssumption
<1> QED
  BY <1>2, <1>3, <1>4, <1>5 DEF Axis

\* The weighted mean lies between the least and the greatest of the axes there
\* are.
LEMMA MeanBetween ==
  ASSUME NorthStarAssumption, NEW axes, DOMAIN axes = Axis,
         \A a \in Axis : axes[a] \in (0..Full) \cup {Null},
         \E a \in Axis : axes[a] # Null
  PROVE  LET there == {axes[a] : a \in DOMAIN axes} \ {Null}
         IN /\ there \subseteq 0..Full
            /\ HealthScores(axes) \subseteq (Min(there) - 1)..(Max(there) + 1)
<1> DEFINE there == {axes[a] : a \in DOMAIN axes} \ {Null}
           those == {a \in DOMAIN Weight : axes[a] # Null}
           lo == Min(there)
           hi == Max(there)
           w == SumFunctionOnSet(Weight, those)
           mean == Weighed(axes, those) \div w
<1>1. there \subseteq 0..Full /\ there # {}
  OBVIOUS
<1>2. those \in SUBSET Axis /\ those # {}
  BY WeightType
<1>3. \A a \in those : axes[a] \in there
  BY WeightType
<1>4. lo \in there /\ \A y \in there : lo <= y
  <2>1. there \in SUBSET Nat
    BY <1>1
  <2> HIDE DEF there
  <2> QED
    BY <1>1, <2>1, LeastNat
<1>5. hi \in there /\ \A y \in there : y <= hi
  <2>1. there \in SUBSET (0..Full) /\ Full \in Nat
    BY <1>1, FullType
  <2> HIDE DEF there
  <2> QED
    BY <1>1, <2>1, MostNat
<1> HIDE DEF lo, hi, there
<1>6. /\ lo \in Int /\ hi \in Int
      /\ \A a \in those : axes[a] \in Int /\ lo <= axes[a] /\ axes[a] <= hi
  <2>1. lo \in Int /\ hi \in Int
    BY <1>1, <1>4, <1>5
  <2>2. ASSUME NEW a \in those PROVE axes[a] \in Int /\ lo <= axes[a] /\ axes[a] <= hi
    <3>1. axes[a] \in there
      BY <1>3
    <3> HIDE DEF those
    <3>2. \A y \in there : y \in Int
      BY <1>1
    <3>4. axes[a] \in Int
      BY <3>1, <3>2
    <3>3. lo <= axes[a] /\ axes[a] <= hi
      BY <1>4, <1>5, <3>1
    <3> QED
      BY <3>3, <3>4
  <2> QED
    BY <2>1, <2>2
<1>7. HealthScores(axes) = (mean - 1)..(mean + 1)
  BY <1>2 DEF HealthScores
<1> HIDE DEF those
<1>8. /\ w \in Nat /\ w > 0 /\ Weighed(axes, those) \in Int
      /\ lo * w <= Weighed(axes, those) /\ Weighed(axes, those) <= hi * w
  BY <1>2, <1>6, WeighedBetween
<1> HIDE DEF w
<1>9. mean \in lo..hi
  BY <1>6, <1>8, Quotient
<1> HIDE DEF mean
<1>10. HealthScores(axes) \subseteq (lo - 1)..(hi + 1)
  BY <1>6, <1>7, <1>9
<1> QED
  BY <1>1, <1>10 DEF there, lo, hi

\* With typed answers the health score is within its axes,
LEMMA HealthOf ==
  ASSUME NorthStarAssumption, Answers, read["sent"] \in Nat \cup {Null},
         read["accepted"] \in Nat \cup {Null}
  PROVE  HealthWithinAxes
<1> SUFFICES ASSUME Done, ~Throws, NEW axes, axes = Axes
             PROVE  LET there == {axes[a] : a \in DOMAIN axes} \ {Null}
                    IN /\ there \subseteq 0..Full
                       /\ HealthScores(axes) \subseteq (Min(there) - 1)..(Max(there) + 1)
  BY DEF HealthWithinAxes
<1>1. read["sent"] \in Nat /\ read["accepted"] \in Nat
  BY DEF Done, Query
<1>2. /\ DOMAIN axes = Axis
      /\ \A a \in Axis : axes[a] \in (0..Full) \cup {Null}
      /\ axes["receivables"] \in 0..Full
  BY <1>1, AxesType
<1>3. axes["receivables"] # Null
  BY <1>2 DEF NorthStarAssumption
<1>4. \E a \in Axis : axes[a] # Null
  BY <1>3 DEF Axis
<1> QED
  BY <1>2, <1>4, MeanBetween

\* and the aging is first in, first out.
LEMMA FifoOf ==
  ASSUME NorthStarAssumption, Answers
  PROVE  AgingIsFifo
<1> SUFFICES ASSUME Done, NEW lines, lines = read["ar"], NEW owed, owed = Aging.byPartner,
                    NEW p \in {lines[i].partner : i \in DOMAIN lines}
             PROVE  IsFifo(lines, owed, p)
  BY DEF AgingIsFifo, IsFifo, Above, UpTo
<1>1. lines \in Seq(Entry) /\ owed = ComputeAging(lines).byPartner
  BY DEF Done, Query, Answers, Aging
<1>2. owed = ComputeAging(lines).byPartner
  BY <1>1
<1>3. p \in {lines[i].partner : i \in DOMAIN lines}
  OBVIOUS
<1> HIDE DEF NorthStarAssumption
<1> QED
  BY ONLY NorthStarAssumption, <1>1, <1>2, <1>3, AgingOf

-----------------------------------------------------------------------------
(* The counts of quotes *)

\* What the two counts count.
Sent == {q \in Quote : quote[q] \in {"SENT", "ACCEPTED", "EXPIRED"}}
Accepted == {q \in Quote : quote[q] = "ACCEPTED"}

Typed ==
  /\ quote \in [Quote -> Status] /\ missed \subseteq Quote /\ DOMAIN read = Query
  /\ read["sent"] \in Nat \cup {Null} /\ read["accepted"] \in Nat \cup {Null}

\* By how many of the two counts there are: none or the accepted ones alone, the
\* sent ones alone, both.
Counts ==
  /\ read["sent"] = Null =>
       /\ missed = {}
       /\ read["accepted"] # Null => read["accepted"] <= Cardinality(Accepted)
  /\ read["sent"] # Null /\ read["accepted"] = Null =>
       Cardinality(Sent \ missed) <= read["sent"]
  /\ read["sent"] # Null /\ read["accepted"] # Null =>
       read["accepted"] - read["sent"] <= Cardinality(missed)

IInv == Typed /\ Counts

-----------------------------------------------------------------------------

\* What is accepted was sent, and a set of quotes is no larger than what is left
\* of it without another and that other.
LEMMA QuoteSets ==
  ASSUME NorthStarAssumption, Typed
  PROVE  /\ Cardinality(Sent) \in Nat /\ Cardinality(Accepted) \in Nat
         /\ Cardinality(missed) \in Nat /\ Cardinality(Sent \ missed) \in Nat
         /\ Cardinality(Accepted) <= Cardinality(Sent)
         /\ Cardinality(Sent) <= Cardinality(Sent \ missed) + Cardinality(missed)
<1>1. IsFiniteSet(Quote) BY DEF NorthStarAssumption
<1>2. Sent \subseteq Quote /\ Accepted \subseteq Sent /\ missed \subseteq Quote
  BY DEF Sent, Accepted, Typed
<1>3. /\ IsFiniteSet(Sent) /\ IsFiniteSet(Accepted) /\ IsFiniteSet(missed)
      /\ IsFiniteSet(Sent \ missed)
  <2>1. IsFiniteSet(Sent) /\ IsFiniteSet(missed) BY <1>1, <1>2, FS_Subset
  <2>2. IsFiniteSet(Accepted) BY <2>1, <1>2, FS_Subset
  <2>3. Sent \ missed \subseteq Sent OBVIOUS
  <2>4. IsFiniteSet(Sent \ missed) BY <2>1, <2>3, FS_Subset
  <2> QED BY <2>1, <2>2, <2>4
<1>4. /\ Cardinality(Sent) \in Nat /\ Cardinality(Accepted) \in Nat
      /\ Cardinality(missed) \in Nat /\ Cardinality(Sent \ missed) \in Nat
  BY <1>3, FS_CardinalityType
<1>5. Cardinality(Accepted) <= Cardinality(Sent) BY <1>2, <1>3, FS_Subset
<1>6. Cardinality(Sent) <= Cardinality((Sent \ missed) \cup missed)
  <2>1. IsFiniteSet((Sent \ missed) \cup missed) BY <1>3, FS_Union
  <2>2. Sent \subseteq (Sent \ missed) \cup missed OBVIOUS
  <2> QED BY <2>1, <2>2, FS_Subset
<1>7. Cardinality((Sent \ missed) \cup missed)
        = Cardinality(Sent \ missed) + Cardinality(missed)
            - Cardinality((Sent \ missed) \cap missed)
  BY <1>3, FS_Union
<1>8. Cardinality((Sent \ missed) \cap missed) = 0
  <2>1. (Sent \ missed) \cap missed = {} OBVIOUS
  <2> QED BY <2>1, FS_EmptySet
<1> QED BY <1>4, <1>5, <1>6, <1>7, <1>8

\* At the start nothing is counted.
LEMMA InitCounts == NorthStarAssumption /\ Init => IInv
  BY DEF NorthStarAssumption, Init, IInv, Typed, Counts, Query

\* A query is answered.
LEMMA AnswerCounts ==
  ASSUME NorthStarAssumption, IInv, NEW q \in Query, AnswerQuery(q)
  PROVE  IInv'
<1> USE DEF NorthStarAssumption
<1>1. /\ Cardinality(Sent) \in Nat /\ Cardinality(Accepted) \in Nat
      /\ Cardinality(missed) \in Nat /\ Cardinality(Sent \ missed) \in Nat
      /\ Cardinality(Accepted) <= Cardinality(Sent)
      /\ Cardinality(Sent) <= Cardinality(Sent \ missed) + Cardinality(missed)
  BY QuoteSets DEF IInv
<1>2. quote' = quote /\ missed' = missed /\ Sent' = Sent /\ Accepted' = Accepted
  BY DEF AnswerQuery, Sent, Accepted
<1>3. SentCount = Cardinality(Sent) /\ AcceptedCount = Cardinality(Accepted)
  BY DEF SentCount, AcceptedCount, Sent, Accepted
<1>4. CASE q = "sent"
  <2>1. /\ read["sent"] = Null /\ read'["sent"] = Cardinality(Sent)
        /\ read'["accepted"] = read["accepted"] /\ DOMAIN read' = Query
    BY <1>3, <1>4 DEF AnswerQuery, IInv, Typed, Query
  <2>2. Typed' BY <1>1, <1>2, <2>1 DEF IInv, Typed
  <2>3. missed = {} BY <2>1 DEF IInv, Counts
  <2>4. Cardinality(Sent \ missed) = Cardinality(Sent) /\ Cardinality(missed) = 0
    BY <2>3, FS_EmptySet
  <2>5. Cardinality(Sent \ missed)' = Cardinality(Sent)
        /\ Cardinality(missed)' = 0
    BY <1>2, <2>4
  <2>6. read'["sent"] # Null BY <2>1, <1>1
  <2>7. \/ read["accepted"] = Null
        \/ read["accepted"] \in Nat /\ read["accepted"] <= Cardinality(Accepted)
    BY <2>1 DEF IInv, Counts, Typed
  <2>8. Counts' BY <1>1, <2>1, <2>5, <2>6, <2>7 DEF Counts
  <2> QED BY <2>2, <2>8 DEF IInv
<1>5. CASE q = "accepted"
  <2>1. /\ read["accepted"] = Null /\ read'["accepted"] = Cardinality(Accepted)
        /\ read'["sent"] = read["sent"] /\ DOMAIN read' = Query
    BY <1>3, <1>5 DEF AnswerQuery, IInv, Typed, Query
  <2>2. Typed' BY <1>1, <1>2, <2>1 DEF IInv, Typed
  <2>3. /\ Cardinality(Accepted)' = Cardinality(Accepted)
        /\ Cardinality(missed)' = Cardinality(missed)
    BY <1>2
  <2>4. read["sent"] # Null =>
          read["sent"] \in Nat /\ Cardinality(Sent \ missed) <= read["sent"]
    BY <2>1 DEF IInv, Counts, Typed
  <2>5. read["sent"] = Null => missed = {} BY DEF IInv, Counts
  <2>6. read'["accepted"] # Null BY <2>1, <1>1
  <2>7. Counts' BY <1>1, <1>2, <2>1, <2>3, <2>4, <2>5, <2>6 DEF Counts
  <2> QED BY <2>2, <2>7 DEF IInv
<1>6. CASE q \notin {"sent", "accepted"}
  <2>1. /\ read'["sent"] = read["sent"] /\ read'["accepted"] = read["accepted"]
        /\ DOMAIN read' = Query
    BY <1>6 DEF AnswerQuery, IInv, Typed, Query
  <2>2. /\ Cardinality(Accepted)' = Cardinality(Accepted)
        /\ Cardinality(missed)' = Cardinality(missed)
        /\ Cardinality(Sent \ missed)' = Cardinality(Sent \ missed)
    BY <1>2
  <2> QED BY <1>2, <2>1, <2>2 DEF IInv, Typed, Counts
<1> QED BY <1>4, <1>5, <1>6

\* A quote moves: one that was sent stays among the sent ones, one that is sent
\* between the two counts is missed.
LEMMA MoveCounts ==
  ASSUME NorthStarAssumption, IInv, NEW q \in Quote, MoveQuote(q)
  PROVE  IInv'
<1> USE DEF NorthStarAssumption
<1>1. /\ read' = read
      /\ quote[q] \in {"DRAFT", "SENT"} /\ quote'[q] # "DRAFT"
      /\ \A p \in Quote \ {q} : quote'[p] = quote[p]
      /\ quote[q] = "DRAFT" => quote'[q] = "SENT"
      /\ quote' \in [Quote -> Status]
  BY DEF MoveQuote, IInv, Typed, Status
<1>2. Typed' BY <1>1 DEF MoveQuote, IInv, Typed
<1>3. Accepted \subseteq Accepted' /\ IsFiniteSet(Accepted')
  <2>1. Accepted \subseteq Accepted'
    BY <1>1 DEF Accepted
  <2>2. Accepted' \subseteq Quote BY DEF Accepted
  <2> QED BY <2>1, <2>2, FS_Subset
<1>4. Cardinality(Accepted) <= Cardinality(Accepted') /\ Cardinality(Accepted) \in Nat
      /\ Cardinality(Accepted') \in Nat
  BY <1>3, FS_Subset, FS_CardinalityType
<1>5. CASE quote[q] = "DRAFT" /\ read["sent"] # Null /\ read["accepted"] = Null
  <2>1. missed' = missed \cup {q} BY <1>5 DEF MoveQuote
  <2>2. Sent' = Sent \cup {q} /\ q \notin Sent
    BY <1>1, <1>5 DEF Sent, IInv, Typed, Status
  <2>3. Sent' \ missed' = Sent \ missed BY <2>1, <2>2
  <2> QED BY <1>1, <1>2, <1>5, <2>3 DEF IInv, Counts
<1>6. CASE ~(quote[q] = "DRAFT" /\ read["sent"] # Null /\ read["accepted"] = Null)
  <2>1. missed' = missed BY <1>6 DEF MoveQuote
  <2>2. read["sent"] # Null /\ read["accepted"] = Null => Sent' = Sent
    BY <1>1, <1>6 DEF Sent, IInv, Typed, Status, MoveQuote
  <2>3. read["sent"] = Null /\ read["accepted"] # Null =>
          read["accepted"] \in Nat /\ read["accepted"] <= Cardinality(Accepted)
    BY DEF IInv, Counts, Typed
  <2>4. read["sent"] = Null /\ read["accepted"] # Null =>
          read["accepted"] <= Cardinality(Accepted')
    <3> SUFFICES ASSUME read["sent"] = Null, read["accepted"] # Null
                 PROVE  read["accepted"] <= Cardinality(Accepted')
      OBVIOUS
    <3> QED BY <1>4, <2>3
  <2>5. read["sent"] # Null /\ read["accepted"] = Null =>
          Cardinality(Sent' \ missed') <= read["sent"]
    <3> SUFFICES ASSUME read["sent"] # Null, read["accepted"] = Null
                 PROVE  Cardinality(Sent' \ missed') <= read["sent"]
      OBVIOUS
    <3> QED BY <2>1, <2>2 DEF IInv, Counts
  <2> QED BY <1>1, <1>2, <2>1, <2>4, <2>5 DEF IInv, Counts
<1> QED BY <1>5, <1>6

\* The books may change without the counts.
LEMMA OthersCount ==
  ASSUME IInv, PostEntry \/ Deposit \/ UNCHANGED vars
  PROVE  IInv'
<1>1. quote' = quote /\ missed' = missed /\ read' = read
  BY DEF PostEntry, Deposit, vars
<1>2. Sent' = Sent /\ Accepted' = Accepted BY <1>1 DEF Sent, Accepted
<1> QED BY <1>1, <1>2 DEF IInv, Typed, Counts

\* However the five queries and the changes of the books interleave,
\* computeNorthStar finds no more quotes accepted than sent but for those that
\* were sent between its two counts.
THEOREM ThrownWhenRaced ==
  ASSUME NorthStarAssumption
  PROVE  Spec => []ThrowsOnlyWhenRaced
<1>1. Init => IInv BY InitCounts
<1>2. IInv /\ [Next]_vars => IInv'
  BY AnswerCounts, MoveCounts, OthersCount DEF Next
<1>3. IInv => ThrowsOnlyWhenRaced
  BY DEF IInv, Counts, ThrowsOnlyWhenRaced, Done, Query
<1> QED BY <1>1, <1>2, <1>3, PTL DEF Spec

-----------------------------------------------------------------------------
(* The books *)

\* The books are posted lines, and so are the answers about them.
Books ==
  /\ Answers
  /\ posts \in 0..MaxPosts /\ moves \in 0..MaxMoves

\* Lines are rows, and so is a part of them.
LEMMA RowsType ==
  ASSUME NorthStarAssumption, NEW lines \in Seq(Entry), NEW those \in SUBSET DOMAIN lines
  PROVE  IsRows(lines) /\ IsRows(Restrict(lines, those))
<1>1. /\ IsFiniteSet(DOMAIN lines)
      /\ \A i \in DOMAIN lines : lines[i].amount \in Nat
  BY LinesType
<1>2. IsFiniteSet(those)
  BY <1>1, FS_Subset
<1> QED
  BY <1>1, <1>2 DEF IsRows, Restrict

\* At the start the books are those of a start, and nothing is read.
LEMMA InitBooks == NorthStarAssumption /\ Init => Books
<1> SUFFICES ASSUME NorthStarAssumption, Init PROVE Books
  OBVIOUS
<1>1. journal \in Seq(Entry) /\ deposits \in Seq(Entry)
  BY DEF NorthStarAssumption, Init
<1>2. \A q \in Query : read[q] = Null
  BY DEF Init
<1>3. posts \in 0..MaxPosts /\ moves \in 0..MaxMoves
  BY DEF NorthStarAssumption, Init
<1> QED
  BY <1>1, <1>2, <1>3 DEF Books, Answers, Query

\* An answer is of the books, and an entry posted is an entry.
LEMMA StepBooks ==
  ASSUME NorthStarAssumption, Books, DOMAIN read = Query, [Next]_vars
  PROVE  Books'
<1>1. ASSUME NEW q \in Query, AnswerQuery(q) PROVE Books'
  <2>1. /\ journal' = journal /\ deposits' = deposits /\ posts' = posts /\ moves' = moves
        /\ \A x \in Query \ {q} : read'[x] = read[x]
    BY <1>1 DEF AnswerQuery
  <2>2. /\ read'["ar"] = read["ar"] \/ read'["ar"] = journal
        /\ read'["cash"] = read["cash"] \/ read'["cash"] = deposits
        /\ read'["revenue"] = read["revenue"]
             \/ read'["revenue"] = Restrict(journal, OfSide(journal, "DEBIT"))
    BY <1>1, <2>1 DEF AnswerQuery, Query
  <2>3. OfSide(journal, "DEBIT") \in SUBSET DOMAIN journal /\ {} \in SUBSET DOMAIN deposits
    BY DEF OfSide
  <2>4. IsRows(deposits) /\ IsRows(Restrict(journal, OfSide(journal, "DEBIT")))
    BY <2>3, RowsType DEF Books, Answers
  <2> QED
    BY <2>1, <2>2, <2>4 DEF Books, Answers
<1>2. CASE PostEntry
  <2>1. PICK e \in Entry : journal' = Append(journal, e)
    BY <1>2 DEF PostEntry
  <2>2. journal' \in Seq(Entry)
    BY <2>1 DEF Books, Answers
  <2>3. posts' \in 0..MaxPosts
    BY <1>2 DEF PostEntry, Books, NorthStarAssumption
  <2> QED
    BY <1>2, <2>2, <2>3 DEF PostEntry, Books, Answers
<1>3. CASE Deposit
  <2>1. PICK e \in Entry : deposits' = Append(deposits, e)
    BY <1>3 DEF Deposit
  <2>2. deposits' \in Seq(Entry)
    BY <2>1 DEF Books, Answers
  <2>3. posts' \in 0..MaxPosts
    BY <1>3 DEF Deposit, Books, NorthStarAssumption
  <2> QED
    BY <1>3, <2>2, <2>3 DEF Deposit, Books, Answers
<1>4. ASSUME NEW q \in Quote, MoveQuote(q) PROVE Books'
  <2>1. moves' \in 0..MaxMoves
    BY <1>4 DEF MoveQuote, Books, NorthStarAssumption
  <2> QED
    BY <1>4, <2>1 DEF MoveQuote, Books, Answers
<1>5. CASE UNCHANGED vars
  BY <1>5 DEF vars, Books, Answers
<1> QED
  BY <1>1, <1>2, <1>3, <1>4, <1>5 DEF Next

\* Both invariants hold of every behaviour.
LEMMA BooksAlways ==
  ASSUME NorthStarAssumption
  PROVE  Spec => [](IInv /\ Books)
<1>1. Init => IInv /\ Books
  BY InitCounts, InitBooks
<1>2. IInv /\ Books /\ [Next]_vars => IInv' /\ Books'
  BY AnswerCounts, MoveCounts, OthersCount, StepBooks DEF Next, IInv, Typed
<1> QED
  BY <1>1, <1>2, PTL DEF Spec

\* The books, the counts of quotes and what is read of them keep their types
\* (computeNorthStar's queries).
THEOREM MetricsTypeCorrect ==
  ASSUME NorthStarAssumption
  PROVE  Spec => []TypeOK
<1>1. IInv /\ Books => TypeOK
  BY DEF IInv, Typed, Books, Answers, TypeOK
<1> QED
  BY <1>1, BooksAlways, PTL

\* For any books, as they were when the receivables were read, the aging is
\* first in, first out: each bucket holds what the partner's collections, the
\* oldest invoice being paid first, leave of the invoices of its days, and the
\* buckets of a partner add up to what he owes (computeAgingFifo).
THEOREM FirstInFirstOut ==
  ASSUME NorthStarAssumption
  PROVE  Spec => []AgingIsFifo
<1>1. Books => AgingIsFifo
  BY FifoOf DEF Books
<1> QED
  BY <1>1, BooksAlways, PTL

\* Each axis that is there is between 0 and 100, and the health score between the
\* lowest and the highest of them but for the grain the doubles may lose, of
\* whatever size it is counted, whatever is missing, however the queries and the
\* changes of the store interleave (computeHealthScore, cashScoreFromCcr).
THEOREM ScoreWithinAxes ==
  ASSUME NorthStarAssumption
  PROVE  Spec => []HealthWithinAxes
<1>1. IInv /\ Books => HealthWithinAxes
  BY HealthOf DEF Books, IInv, Typed
<1> QED
  BY <1>1, BooksAlways, PTL
=============================================================================
