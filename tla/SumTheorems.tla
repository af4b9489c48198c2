---------------------------- MODULE SumTheorems ----------------------------
(* Sums over finite sets, as the community modules define them: by a        *)
(* function on subsets that takes one chosen element off at a time; and the *)
(* largest and smallest members of finite sets.                             *)
EXTENDS FiniteSetsExt, FiniteSetTheorems, WellFoundedInduction, TLAPS

\* The sum of f over S.
Total(f, S) == MapThenSumSet(LAMBDA x : f[x], S)

Chosen(s) == CHOOSE x \in s : TRUE

\* g is the function on the subsets of S that the sum is computed by.
SumsUp(f, S, g) ==
  g = [s \in SUBSET S |-> IF s = {} THEN 0 ELSE f[Chosen(s)] + g[s \ {Chosen(s)}]]

\* A collection of finite sets has a smallest member.
LEMMA SmallestMember ==
  ASSUME NEW S, IsFiniteSet(S), NEW T \in SUBSET SUBSET S, T # {}
  PROVE  \E t \in T : \A s \in T : s \subseteq t => s = t
  <1>1. IsWellFoundedOn(StrictSubsetOrdering(S), FiniteSubsetsOf(S))
    BY FS_StrictSubsetOrderingWellFounded
  <1>2. T \subseteq FiniteSubsetsOf(S)
    BY FS_Subset DEF FiniteSubsetsOf
  <1>3. PICK t \in T : \A s \in T : ~(<<s, t>> \in StrictSubsetOrdering(S))
    BY <1>1, <1>2, WFMin
  <1> QED BY <1>3 DEF StrictSubsetOrdering

\* Two such functions agree where both are defined.
LEMMA SumsAgree ==
  ASSUME NEW f, NEW S, NEW T, IsFiniteSet(S), NEW g, NEW h,
         SumsUp(f, S, g), SumsUp(f, T, h), NEW s \in SUBSET S, s \subseteq T
  PROVE  g[s] = h[s]
  <1> DEFINE Differ == {t \in SUBSET s : g[t] # h[t]}
  <1> SUFFICES ASSUME Differ # {} PROVE FALSE
    OBVIOUS
  <1>1. PICK t \in Differ : \A r \in Differ : r \subseteq t => r = t
    <2>1. Differ \in SUBSET SUBSET S
      OBVIOUS
    <2> HIDE DEF Differ
    <2> QED BY <2>1, SmallestMember
  <1>2. t # {}
    BY <1>1 DEF SumsUp
  <1>3. Chosen(t) \in t
    BY <1>2 DEF Chosen
  <1>4. g[t \ {Chosen(t)}] = h[t \ {Chosen(t)}]
    BY <1>1, <1>3
  <1>5. t \in SUBSET S /\ t \in SUBSET T
    BY <1>1
  <1>6. g[t] = f[Chosen(t)] + g[t \ {Chosen(t)}]
    BY <1>2, <1>5 DEF SumsUp
  <1>7. h[t] = f[Chosen(t)] + h[t \ {Chosen(t)}]
    BY <1>2, <1>5 DEF SumsUp
  <1> QED BY <1>1, <1>4, <1>6, <1>7

\* There is such a function for every finite set.
LEMMA SumsExist ==
  ASSUME NEW f, NEW S, IsFiniteSet(S)
  PROVE  \E g : SumsUp(f, S, g)
  <1> DEFINE Without == {T \in SUBSET S : ~ \E g : SumsUp(f, T, g)}
  <1> SUFFICES ASSUME Without # {} PROVE FALSE
    OBVIOUS
  <1>1. PICK T \in Without : \A R \in Without : R \subseteq T => R = T
    <2>1. Without \in SUBSET SUBSET S
      OBVIOUS
    <2> HIDE DEF Without
    <2> QED BY <2>1, SmallestMember
  <1>2. IsFiniteSet(T)
    BY FS_Subset
  <1> DEFINE of(s) == CHOOSE g : SumsUp(f, s, g)
  <1>3. ASSUME NEW s \in SUBSET T, s # T
        PROVE  SumsUp(f, s, of(s)) /\ IsFiniteSet(s)
    <2>1. s \notin Without
      BY <1>1, <1>3
    <2>2. \E g : SumsUp(f, s, g)
      BY <2>1
    <2> QED BY <2>2, <1>2, FS_Subset
  <1> DEFINE v(s) == of(s)[s]
             g == [s \in SUBSET T |->
                     IF s = {} THEN 0 ELSE f[Chosen(s)] + v(s \ {Chosen(s)})]
  <1> HIDE DEF of
  <1>4. ASSUME NEW s \in SUBSET T, s # T
        PROVE  v(s) = g[s]
    <2>1. SumsUp(f, s, of(s)) /\ s \in SUBSET s
      BY <1>3, <1>4
    <2>2. CASE s = {}
      BY <2>1, <2>2 DEF SumsUp
    <2>3. CASE s # {}
      <3> DEFINE r == s \ {Chosen(s)}
      <3>1. Chosen(s) \in s
        BY <2>3 DEF Chosen
      <3>2. r \in SUBSET T /\ r # T /\ r \in SUBSET r /\ r \subseteq s
        BY <3>1
      <3>3. SumsUp(f, r, of(r)) /\ IsFiniteSet(r)
        BY <1>3, <3>2
      <3>4. of(r)[r] = of(s)[r]
        <4> HIDE DEF r, v, g, Without
        <4> QED BY <2>1, <3>2, <3>3, SumsAgree
      <3>5. of(s)[s] = f[Chosen(s)] + of(s)[r]
        BY <2>1, <2>3 DEF SumsUp
      <3>6. g[s] = f[Chosen(s)] + of(r)[r]
        BY <2>3
      <3> QED BY <3>4, <3>5, <3>6
    <2> QED BY <2>2, <2>3
  <1>5. ASSUME NEW s \in SUBSET T, s # {}
        PROVE  v(s \ {Chosen(s)}) = g[s \ {Chosen(s)}]
    <2>1. Chosen(s) \in s
      BY <1>5 DEF Chosen
    <2>2. s \ {Chosen(s)} \in SUBSET T /\ s \ {Chosen(s)} # T
      BY <2>1
    <2> HIDE DEF g, v
    <2> QED BY <1>4, <2>2
  <1>6. g = [s \in SUBSET T |-> IF s = {} THEN 0 ELSE f[Chosen(s)] + g[s \ {Chosen(s)}]]
    BY <1>5
  <1>7. SumsUp(f, T, g)
    <2> HIDE DEF g
    <2> QED BY <1>6 DEF SumsUp
  <1> QED BY <1>7

\* What a sum is computed by.
LEMMA TotalIs ==
  ASSUME NEW f, NEW S, IsFiniteSet(S)
  PROVE  \E g : SumsUp(f, S, g) /\ Total(f, S) = g[S]
  <1> DEFINE g == CHOOSE g : SumsUp(f, S, g)
  <1>1. SumsUp(f, S, g)
    BY SumsExist
  <1>2. Total(f, S) = g[S]
    BY DEF SumsUp, Total, MapThenSumSet, MapThenFoldSet, Chosen
  <1> QED BY <1>1, <1>2

\* The empty sum.
THEOREM TotalEmpty ==
  ASSUME NEW f
  PROVE  Total(f, {}) = 0
  <1>1. PICK g : SumsUp(f, {}, g) /\ Total(f, {}) = g[{}]
    BY TotalIs, FS_EmptySet
  <1>2. g[{}] = 0
    BY <1>1 DEF SumsUp
  <1> QED BY <1>1, <1>2

\* Taking the chosen element off.
LEMMA TotalChosen ==
  ASSUME NEW f, NEW S, IsFiniteSet(S), S # {}
  PROVE  /\ Chosen(S) \in S
         /\ Total(f, S) = f[Chosen(S)] + Total(f, S \ {Chosen(S)})
  <1> DEFINE R == S \ {Chosen(S)}
  <1>1. Chosen(S) \in S
    BY DEF Chosen
  <1>2. IsFiniteSet(R)
    BY FS_RemoveElement
  <1> HIDE DEF R
  <1>3. PICK g : SumsUp(f, S, g) /\ Total(f, S) = g[S]
    BY TotalIs
  <1>4. PICK h : SumsUp(f, R, h) /\ Total(f, R) = h[R]
    BY <1>2, TotalIs
  <1>5. h[R] = g[R]
    BY <1>2, <1>3, <1>4, SumsAgree DEF R
  <1>6. g[S] = f[Chosen(S)] + g[R]
    BY <1>3 DEF SumsUp, R
  <1> QED BY <1>1, <1>3, <1>4, <1>5, <1>6 DEF R

\* A sum of integers is one, and a sum of natural numbers is one.
THEOREM TotalType ==
  ASSUME NEW f, NEW S, IsFiniteSet(S), NEW D \in {Nat, Int}, \A x \in S : f[x] \in D
  PROVE  Total(f, S) \in D
  <1> DEFINE Not == {T \in SUBSET S : Total(f, T) \notin D}
  <1> SUFFICES ASSUME Not # {} PROVE FALSE
    BY DEF Not
  <1>1. PICK T \in Not : \A R \in Not : R \subseteq T => R = T
    <2>1. Not \in SUBSET SUBSET S
      OBVIOUS
    <2> HIDE DEF Not
    <2> QED BY <2>1, SmallestMember
  <1>2. IsFiniteSet(T)
    BY FS_Subset
  <1>3. T # {}
    BY TotalEmpty
  <1>4. Chosen(T) \in T /\ Total(f, T) = f[Chosen(T)] + Total(f, T \ {Chosen(T)})
    BY <1>2, <1>3, TotalChosen
  <1>5. T \ {Chosen(T)} \in SUBSET S /\ T \ {Chosen(T)} \notin Not
    BY <1>1, <1>4
  <1>6. Total(f, T \ {Chosen(T)}) \in D /\ f[Chosen(T)] \in D
    BY <1>4, <1>5
  <1> QED BY <1>4, <1>6

\* The sum does not depend on which element is taken off first.
THEOREM TotalWithout ==
  ASSUME NEW f, NEW S, IsFiniteSet(S), \A x \in S : f[x] \in Int, NEW a \in S
  PROVE  Total(f, S) = f[a] + Total(f, S \ {a})
  <1> DEFINE Not == {T \in SUBSET S : \E b \in T : Total(f, T) # f[b] + Total(f, T \ {b})}
  <1> SUFFICES ASSUME Not # {} PROVE FALSE
    BY DEF Not
  <1>1. PICK T \in Not : \A R \in Not : R \subseteq T => R = T
    <2>1. Not \in SUBSET SUBSET S
      OBVIOUS
    <2> HIDE DEF Not
    <2> QED BY <2>1, SmallestMember
  <1>2. PICK b \in T : Total(f, T) # f[b] + Total(f, T \ {b})
    OBVIOUS
  <1>3. IsFiniteSet(T)
    BY FS_Subset
  <1> DEFINE c == Chosen(T)
  <1>4. c \in T /\ Total(f, T) = f[c] + Total(f, T \ {c})
    BY <1>2, <1>3, TotalChosen
  <1>5. b # c
    BY <1>2, <1>4
  <1> DEFINE R == T \ {b, c}
  <1>6. Total(f, T \ {c}) = f[b] + Total(f, R)
    <2>1. T \ {c} \notin Not /\ b \in T \ {c} /\ T \ {c} \in SUBSET S
      BY <1>1, <1>4, <1>5
    <2>2. (T \ {c}) \ {b} = R
      OBVIOUS
    <2>3. Total(f, T \ {c}) = f[b] + Total(f, (T \ {c}) \ {b})
      BY <2>1
    <2> QED BY <2>2, <2>3
  <1>7. Total(f, T \ {b}) = f[c] + Total(f, R)
    <2>1. T \ {b} \notin Not /\ c \in T \ {b} /\ T \ {b} \in SUBSET S
      BY <1>1, <1>2, <1>4, <1>5
    <2>2. (T \ {b}) \ {c} = R
      OBVIOUS
    <2>3. Total(f, T \ {b}) = f[c] + Total(f, (T \ {b}) \ {c})
      BY <2>1
    <2> QED BY <2>2, <2>3
  <1>8. f[b] \in Int /\ f[c] \in Int
    BY <1>2, <1>4
  <1>9. Total(f, R) \in Int
    BY <1>3, FS_Subset, TotalType
  <1> HIDE DEF c, R
  <1> QED BY <1>2, <1>4, <1>6, <1>7, <1>8, <1>9

\* A sum of zeros is zero.
THEOREM TotalZero ==
  ASSUME NEW f, NEW S, IsFiniteSet(S), \A x \in S : f[x] = 0
  PROVE  Total(f, S) = 0
  <1> DEFINE Not == {T \in SUBSET S : Total(f, T) # 0}
  <1> SUFFICES ASSUME Not # {} PROVE FALSE
    BY DEF Not
  <1>1. PICK T \in Not : \A R \in Not : R \subseteq T => R = T
    <2>1. Not \in SUBSET SUBSET S
      OBVIOUS
    <2> HIDE DEF Not
    <2> QED BY <2>1, SmallestMember
  <1>2. IsFiniteSet(T)
    BY FS_Subset
  <1>3. T # {}
    BY TotalEmpty
  <1>4. Chosen(T) \in T /\ Total(f, T) = f[Chosen(T)] + Total(f, T \ {Chosen(T)})
    BY <1>2, <1>3, TotalChosen
  <1>5. T \ {Chosen(T)} \in SUBSET S /\ T \ {Chosen(T)} \notin Not
    BY <1>1, <1>4
  <1> QED BY <1>4, <1>5

\* Functions that agree on the set have the same sum.
THEOREM TotalSame ==
  ASSUME NEW f, NEW g, NEW S, IsFiniteSet(S), \A x \in S : f[x] = g[x]
  PROVE  Total(f, S) = Total(g, S)
  <1> DEFINE Not == {T \in SUBSET S : Total(f, T) # Total(g, T)}
  <1> SUFFICES ASSUME Not # {} PROVE FALSE
    BY DEF Not
  <1>1. PICK T \in Not : \A R \in Not : R \subseteq T => R = T
    <2>1. Not \in SUBSET SUBSET S
      OBVIOUS
    <2> HIDE DEF Not
    <2> QED BY <2>1, SmallestMember
  <1>2. IsFiniteSet(T)
    BY FS_Subset
  <1>3. T # {}
    BY TotalEmpty
  <1>4. /\ Chosen(T) \in T
        /\ Total(f, T) = f[Chosen(T)] + Total(f, T \ {Chosen(T)})
        /\ Total(g, T) = g[Chosen(T)] + Total(g, T \ {Chosen(T)})
    BY <1>2, <1>3, TotalChosen
  <1>5. T \ {Chosen(T)} \in SUBSET S /\ T \ {Chosen(T)} \notin Not
    BY <1>1, <1>4
  <1>6. f[Chosen(T)] = g[Chosen(T)] /\ Total(f, T \ {Chosen(T)}) = Total(g, T \ {Chosen(T)})
    BY <1>4, <1>5
  <1> QED BY <1>4, <1>6

\* The values of a function on a finite set are finitely many.
LEMMA ValuesFinite ==
  ASSUME NEW S, IsFiniteSet(S), NEW f, f = [x \in S |-> f[x]]
  PROVE  IsFiniteSet({f[x] : x \in S})
  <1> DEFINE T == {f[x] : x \in S}
  <1>1. f \in Surjection(S, T)
    BY DEF Surjection
  <1> HIDE DEF T
  <1>2. IsFiniteSet(T)
    BY <1>1, FS_Surjection
  <1> QED BY <1>2 DEF T

\* So are those of a larger function there.
LEMMA ImageFinite ==
  ASSUME NEW S, IsFiniteSet(S), NEW f
  PROVE  IsFiniteSet({f[x] : x \in S})
  <1> DEFINE g == [x \in S |-> f[x]]
  <1>1. g = [x \in S |-> g[x]] /\ {g[x] : x \in S} = {f[x] : x \in S}
    OBVIOUS
  <1> HIDE DEF g
  <1>2. IsFiniteSet({g[x] : x \in S})
    BY <1>1, ValuesFinite
  <1> QED BY <1>1, <1>2

\* Sums over two sets with nothing in common add up.
THEOREM TotalUnion ==
  ASSUME NEW f, NEW S, IsFiniteSet(S), NEW T, IsFiniteSet(T), S \cap T = {},
         \A x \in S \cup T : f[x] \in Int
  PROVE  Total(f, S \cup T) = Total(f, S) + Total(f, T)
  <1> DEFINE Not == {R \in SUBSET S : Total(f, R \cup T) # Total(f, R) + Total(f, T)}
  <1> SUFFICES ASSUME Not # {} PROVE FALSE
    BY DEF Not
  <1>1. PICK R \in Not : \A Q \in Not : Q \subseteq R => Q = R
    <2>1. Not \in SUBSET SUBSET S
      OBVIOUS
    <2> HIDE DEF Not
    <2> QED BY <2>1, SmallestMember
  <1>2. IsFiniteSet(R) /\ R \subseteq S
    BY FS_Subset
  <1>3. Total(f, T) \in Int
    BY TotalType
  <1>4. R # {}
    <2>1. {} \cup T = T
      OBVIOUS
    <2>2. Total(f, {} \cup T) = Total(f, {}) + Total(f, T)
      BY <1>3, <2>1, TotalEmpty
    <2> QED BY <1>1, <2>2
  <1>5. PICK a : a \in R
    BY <1>4
  <1> DEFINE Q == R \ {a}
  <1>6. Q \in SUBSET S /\ Q \notin Not /\ IsFiniteSet(Q)
    BY <1>1, <1>2, <1>5, FS_RemoveElement
  <1>7. Total(f, Q \cup T) = Total(f, Q) + Total(f, T)
    BY <1>6
  <1>8. Total(f, R) = f[a] + Total(f, Q)
    BY <1>2, <1>5, TotalWithout
  <1>9. Total(f, R \cup T) = f[a] + Total(f, Q \cup T)
    <2>1. IsFiniteSet(R \cup T) /\ a \in R \cup T /\ (R \cup T) \ {a} = Q \cup T
      BY <1>2, <1>5, FS_Union
    <2> QED BY <2>1, <1>2, TotalWithout
  <1>10. f[a] \in Int /\ Total(f, Q) \in Int
    <2>1. f[a] \in Int /\ \A x \in Q : f[x] \in Int
      BY <1>2, <1>5
    <2> QED BY <2>1, <1>6, TotalType
  <1> HIDE DEF Q
  <1> QED BY <1>1, <1>3, <1>7, <1>8, <1>9, <1>10

\* A sum of natural numbers over more elements is no less.
THEOREM TotalGrows ==
  ASSUME NEW f, NEW S, NEW T, IsFiniteSet(T), S \subseteq T, \A x \in T : f[x] \in Nat
  PROVE  Total(f, S) <= Total(f, T)
  <1>1. IsFiniteSet(S) /\ IsFiniteSet(T \ S) /\ S \cup (T \ S) = T /\ S \cap (T \ S) = {}
    BY FS_Subset
  <1>2. \A x \in S \cup (T \ S) : f[x] \in Int
    OBVIOUS
  <1>3. Total(f, S \cup (T \ S)) = Total(f, S) + Total(f, T \ S)
    BY <1>1, <1>2, TotalUnion
  <1>4. Total(f, S) \in Nat /\ Total(f, T \ S) \in Nat
    <2>1. (\A x \in S : f[x] \in Nat) /\ \A x \in T \ S : f[x] \in Nat
      OBVIOUS
    <2> QED BY <1>1, <2>1, TotalType
  <1>5. Total(f, T) = Total(f, S) + Total(f, T \ S)
    BY <1>1, <1>3
  <1> QED BY <1>4, <1>5

\* The sum over the images under an injective function.
THEOREM TotalReindexed ==
  ASSUME NEW f, NEW g, NEW h, NEW S, IsFiniteSet(S),
         \A x, y \in S : h[x] = h[y] => x = y,
         \A x \in S : g[x] \in Int /\ f[h[x]] = g[x]
  PROVE  Total(f, {h[x] : x \in S}) = Total(g, S)
  <1> DEFINE Im(R) == {h[x] : x \in R}
             Not == {R \in SUBSET S : Total(f, Im(R)) # Total(g, R)}
  <1> SUFFICES ASSUME Not # {} PROVE FALSE
    BY DEF Not
  <1>1. PICK R \in Not : \A Q \in Not : Q \subseteq R => Q = R
    <2>1. Not \in SUBSET SUBSET S
      OBVIOUS
    <2> HIDE DEF Not
    <2> QED BY <2>1, SmallestMember
  <1>2. IsFiniteSet(R) /\ R \subseteq S
    BY FS_Subset
  <1>3. R # {}
    <2>1. Im({}) = {}
      OBVIOUS
    <2>2. Total(f, Im({})) = Total(g, {})
      BY <2>1, TotalEmpty
    <2> QED BY <1>1, <2>2
  <1>4. PICK a : a \in R
    BY <1>3
  <1> DEFINE Q == R \ {a}
  <1>5. Q \in SUBSET S /\ Q \notin Not /\ IsFiniteSet(Q)
    BY <1>1, <1>2, <1>4, FS_RemoveElement
  <1>6. Total(f, Im(Q)) = Total(g, Q)
    BY <1>5
  <1>7. Total(g, R) = g[a] + Total(g, Q)
    BY <1>2, <1>4, TotalWithout
  <1>8. Total(f, Im(R)) = g[a] + Total(f, Im(Q))
    <2>1. IsFiniteSet(Im(R))
      <3> DEFINE k == [x \in R |-> h[x]]
      <3>1. k = [x \in R |-> k[x]] /\ {k[x] : x \in R} = Im(R)
        OBVIOUS
      <3> HIDE DEF k
      <3>2. IsFiniteSet({k[x] : x \in R})
        BY <1>2, <3>1, ValuesFinite
      <3> QED BY <3>1, <3>2
    <2>2. h[a] \in Im(R) /\ Im(R) \ {h[a]} = Im(Q)
      BY <1>2, <1>4
    <2>3. \A y \in Im(R) : f[y] \in Int
      BY <1>2
    <2>4. f[h[a]] = g[a]
      BY <1>2, <1>4
    <2>5. Total(f, Im(R)) = f[h[a]] + Total(f, Im(R) \ {h[a]})
      <3> HIDE DEF Im
      <3> QED BY <2>1, <2>2, <2>3, TotalWithout
    <2> QED BY <2>2, <2>4, <2>5
  <1> HIDE DEF Q, Im
  <1> QED BY <1>1, <1>6, <1>7, <1>8 DEF Not

\* What g gives its elements, f gives the pairs of a with them.
IsRow(f, g, a, R) == \A y \in R : g[y] \in Int /\ f[<<a, y>>] = g[y]

\* The pairs with one first component are summed over their second ones.
THEOREM TotalRow ==
  ASSUME NEW f, NEW g, NEW a, NEW R, IsFiniteSet(R), IsRow(f, g, a, R)
  PROVE  Total(f, {a} \X R) = Total(g, R)
  <1> DEFINE h == [y \in R |-> <<a, y>>]
  <1>1. {h[y] : y \in R} = {a} \X R
    OBVIOUS
  <1>2. (\A x, y \in R : h[x] = h[y] => x = y) /\ \A y \in R : g[y] \in Int /\ f[h[y]] = g[y]
    BY DEF IsRow
  <1>3. Total(f, {h[y] : y \in R}) = Total(g, R)
    <2> HIDE DEF h
    <2> QED BY <1>2, TotalReindexed
  <1> QED BY <1>1, <1>3

\* g sums what f gives the pairs with each first component.
SumsRows(f, g, S, R) ==
  \A x \in S : /\ IsFiniteSet(R[x]) /\ g[x] \in Int /\ g[x] = Total(f, {x} \X R[x])
               /\ \A y \in R[x] : f[<<x, y>>] \in Int

\* A sum of sums is the sum over the pairs.
THEOREM TotalPairs ==
  ASSUME NEW f, NEW g, NEW S, IsFiniteSet(S), NEW R, SumsRows(f, g, S, R)
  PROVE  /\ IsFiniteSet(UNION {{x} \X R[x] : x \in S})
         /\ Total(f, UNION {{x} \X R[x] : x \in S}) = Total(g, S)
  <1> DEFINE Rows(Q) == UNION {{x} \X R[x] : x \in Q}
             Not == {Q \in SUBSET S :
                       ~(IsFiniteSet(Rows(Q)) /\ Total(f, Rows(Q)) = Total(g, Q))}
  <1> SUFFICES ASSUME Not # {} PROVE FALSE
    BY DEF Not
  <1>1. PICK P \in Not : \A Q \in Not : Q \subseteq P => Q = P
    <2>1. Not \in SUBSET SUBSET S
      OBVIOUS
    <2> HIDE DEF Not
    <2> QED BY <2>1, SmallestMember
  <1>2. IsFiniteSet(P) /\ P \subseteq S
    BY FS_Subset
  <1>3. P # {}
    <2>1. Rows({}) = {} /\ IsFiniteSet({})
      BY FS_EmptySet
    <2>2. IsFiniteSet(Rows({})) /\ Total(f, Rows({})) = Total(g, {})
      BY <2>1, TotalEmpty
    <2>3. {} \notin Not
      <3> HIDE DEF Rows
      <3> QED BY <2>2
    <2> HIDE DEF Not
    <2> QED BY <1>1, <2>3
  <1>4. PICK a : a \in P
    BY <1>3
  <1> DEFINE Q == P \ {a}
  <1>5. Q \in SUBSET S /\ Q \notin Not /\ IsFiniteSet(Q)
    <2>1. Q \in SUBSET S /\ Q \subseteq P /\ Q # P
      BY <1>2, <1>4
    <2>2. IsFiniteSet(Q)
      BY <1>2, FS_RemoveElement
    <2> HIDE DEF Not, Q
    <2> QED BY <1>1, <2>1, <2>2
  <1>6. IsFiniteSet(Rows(Q)) /\ Total(f, Rows(Q)) = Total(g, Q)
    BY <1>5
  <1>7. Total(g, P) = g[a] + Total(g, Q)
    <2>1. \A x \in P : g[x] \in Int
      BY <1>2 DEF SumsRows
    <2> QED BY <1>2, <1>4, <2>1, TotalWithout
  <1>8. Rows(P) = ({a} \X R[a]) \cup Rows(Q) /\ ({a} \X R[a]) \cap Rows(Q) = {}
    BY <1>4
  <1>9. IsFiniteSet({a} \X R[a])
    <2>1. IsFiniteSet(R[a])
      BY <1>2, <1>4 DEF SumsRows
    <2> QED BY <2>1, FS_Product, FS_Singleton
  <1>10. \A y \in ({a} \X R[a]) \cup Rows(Q) : f[y] \in Int
    <2>1. \A x \in S : \A y \in R[x] : f[<<x, y>>] \in Int
      BY DEF SumsRows
    <2>2. \A z \in ({a} \X R[a]) \cup Rows(Q) : \E x \in S : \E y \in R[x] : z = <<x, y>>
      BY <1>2, <1>4, <1>5
    <2> QED BY <2>1, <2>2
  <1>11. IsFiniteSet(Rows(P)) /\ Total(f, Rows(P)) = g[a] + Total(f, Rows(Q))
    <2>1. g[a] = Total(f, {a} \X R[a])
      BY <1>2, <1>4 DEF SumsRows
    <2> HIDE DEF Rows, Q
    <2>2. IsFiniteSet(Rows(P))
      <3>1. IsFiniteSet(({a} \X R[a]) \cup Rows(Q))
        BY <1>6, <1>9, FS_Union
      <3> QED BY <3>1, <1>8
    <2>3. Total(f, ({a} \X R[a]) \cup Rows(Q)) = Total(f, {a} \X R[a]) + Total(f, Rows(Q))
      BY <1>6, <1>8, <1>9, <1>10, TotalUnion
    <2> QED BY <2>1, <2>2, <2>3, <1>8
  <1> HIDE DEF Q, Rows
  <1> QED BY <1>1, <1>6, <1>7, <1>11 DEF Not

\* The sum of differences is the difference of the sums.
THEOREM TotalDifference ==
  ASSUME NEW f, NEW g, NEW h, NEW S, IsFiniteSet(S),
         \A x \in S : f[x] \in Int /\ g[x] \in Int /\ h[x] = f[x] - g[x]
  PROVE  Total(h, S) = Total(f, S) - Total(g, S)
  <1> DEFINE Not == {R \in SUBSET S : Total(h, R) # Total(f, R) - Total(g, R)}
  <1> SUFFICES ASSUME Not # {} PROVE FALSE
    BY DEF Not
  <1>1. PICK R \in Not : \A Q \in Not : Q \subseteq R => Q = R
    <2>1. Not \in SUBSET SUBSET S
      OBVIOUS
    <2> HIDE DEF Not
    <2> QED BY <2>1, SmallestMember
  <1>2. IsFiniteSet(R) /\ R \subseteq S
    BY FS_Subset
  <1>3. R # {}
    <2>1. Total(h, {}) = Total(f, {}) - Total(g, {})
      BY TotalEmpty
    <2> QED BY <1>1, <2>1
  <1>4. PICK a : a \in R
    BY <1>3
  <1> DEFINE Q == R \ {a}
  <1>5. Q \in SUBSET S /\ Q \notin Not /\ IsFiniteSet(Q)
    BY <1>1, <1>2, <1>4, FS_RemoveElement
  <1>6. Total(h, Q) = Total(f, Q) - Total(g, Q)
    BY <1>5
  <1>7. /\ \A x \in R : f[x] \in Int
        /\ \A x \in R : g[x] \in Int
        /\ \A x \in R : h[x] \in Int
        /\ h[a] = f[a] - g[a]
    BY <1>2, <1>4
  <1>8. /\ Total(h, R) = h[a] + Total(h, Q)
        /\ Total(f, R) = f[a] + Total(f, Q)
        /\ Total(g, R) = g[a] + Total(g, Q)
    BY <1>2, <1>4, <1>7, TotalWithout
  <1>9. Total(f, Q) \in Int /\ Total(g, Q) \in Int /\ f[a] \in Int /\ g[a] \in Int
    BY <1>4, <1>5, <1>7, TotalType
  <1>10. Total(h, R) = Total(f, R) - Total(g, R)
    <2> HIDE DEF Q
    <2> QED BY <1>6, <1>7, <1>8, <1>9
  <1> QED BY <1>1, <1>10

\* Finite sets, one for each member of S, that share nothing.
ArePieces(R, S) ==
  /\ \A x \in S : IsFiniteSet(R[x])
  /\ \A x, y \in S : x # y => R[x] \cap R[y] = {}

\* What is cut into pieces has as many elements as the pieces together.
THEOREM TotalPieces ==
  ASSUME NEW S, IsFiniteSet(S), NEW R, ArePieces(R, S),
         NEW g, \A x \in S : g[x] = Cardinality(R[x])
  PROVE  /\ IsFiniteSet(UNION {R[x] : x \in S})
         /\ Total(g, S) = Cardinality(UNION {R[x] : x \in S})
  <1> DEFINE All(P) == UNION {R[x] : x \in P}
             Not == {P \in SUBSET S : ~(IsFiniteSet(All(P)) /\ Total(g, P) = Cardinality(All(P)))}
  <1> SUFFICES ASSUME Not # {} PROVE FALSE
    BY DEF Not
  <1>1. PICK P \in Not : \A Q \in Not : Q \subseteq P => Q = P
    <2>1. Not \in SUBSET SUBSET S
      OBVIOUS
    <2> HIDE DEF Not
    <2> QED BY <2>1, SmallestMember
  <1>2. IsFiniteSet(P) /\ P \subseteq S
    BY FS_Subset
  <1>3. P # {}
    <2>1. All({}) = {}
      OBVIOUS
    <2>2. IsFiniteSet(All({})) /\ Total(g, {}) = Cardinality(All({}))
      BY <2>1, TotalEmpty, FS_EmptySet
    <2>3. {} \notin Not
      <3> HIDE DEF All
      <3> QED BY <2>2
    <2> HIDE DEF Not
    <2> QED BY <1>1, <2>3
  <1>4. PICK a : a \in P
    BY <1>3
  <1> DEFINE Q == P \ {a}
  <1>5. Q \in SUBSET S /\ Q \notin Not /\ IsFiniteSet(Q)
    <2>1. Q \in SUBSET S /\ Q \subseteq P /\ Q # P
      BY <1>2, <1>4
    <2>2. IsFiniteSet(Q)
      BY <1>2, FS_RemoveElement
    <2> HIDE DEF Not, Q
    <2> QED BY <1>1, <2>1, <2>2
  <1>6. IsFiniteSet(All(Q)) /\ Total(g, Q) = Cardinality(All(Q))
    BY <1>5
  <1>7. \A x \in S : g[x] \in Int /\ IsFiniteSet(R[x])
    BY FS_CardinalityType DEF ArePieces
  <1>8. Total(g, P) = g[a] + Total(g, Q)
    <2>1. \A x \in P : g[x] \in Int
      BY <1>2, <1>7
    <2> QED BY <1>2, <1>4, <2>1, TotalWithout
  <1>9. All(P) = R[a] \cup All(Q) /\ R[a] \cap All(Q) = {}
    <2>1. All(P) = R[a] \cup All(Q)
      BY <1>4
    <2>2. \A x \in Q : R[a] \cap R[x] = {}
      BY <1>2, <1>4 DEF ArePieces
    <2> QED BY <2>1, <2>2
  <1>10. IsFiniteSet(All(P)) /\ Cardinality(All(P)) = g[a] + Cardinality(All(Q))
    <2> HIDE DEF All, Q
    <2>1. IsFiniteSet(R[a]) /\ g[a] = Cardinality(R[a])
      BY <1>2, <1>4, <1>7
    <2>2. IsFiniteSet(R[a] \cup All(Q))
          /\ Cardinality(R[a] \cup All(Q)) = Cardinality(R[a]) + Cardinality(All(Q)) - 0
      BY <1>6, <1>9, <2>1, FS_Union, FS_EmptySet
    <2>3. Cardinality(R[a]) \in Nat /\ Cardinality(All(Q)) \in Nat
      BY <1>6, <2>1, FS_CardinalityType
    <2> QED BY <1>9, <2>1, <2>2, <2>3
  <1> HIDE DEF All, Q
  <1> QED BY <1>1, <1>6, <1>8, <1>10 DEF Not

-----------------------------------------------------------------------------
(* Largest and smallest members *)

\* Some member of a finite set has the smallest of the sets that belong to its members.
LEMMA SmallestOf ==
  ASSUME NEW S, IsFiniteSet(S), S # {}, NEW f \in [S -> SUBSET S]
  PROVE  \E x \in S : \A y \in S : f[y] \subseteq f[x] => f[y] = f[x]
  <1> DEFINE Values == {f[x] : x \in S}
  <1>1. Values \in SUBSET SUBSET S /\ Values # {}
    OBVIOUS
  <1>2. \E t \in Values : \A s \in Values : s \subseteq t => s = t
    <2> HIDE DEF Values
    <2> QED BY <1>1, SmallestMember
  <1> QED BY <1>2

\* A non-empty finite set of numbers has a largest one.
LEMMA MaxIs ==
  ASSUME NEW S, \A y \in S : y \in Nat, IsFiniteSet(S), S # {}
  PROVE  Max(S) \in S /\ \A y \in S : y <= Max(S)
  <1> DEFINE above == [x \in S |-> {y \in S : y >= x}]
  <1>1. PICK x \in S : \A y \in S : above[y] \subseteq above[x] => above[y] = above[x]
    <2>1. above \in [S -> SUBSET S]
      OBVIOUS
    <2> HIDE DEF above
    <2> QED BY <2>1, SmallestOf
  <1>2. ASSUME NEW y \in S, y > x
        PROVE  FALSE
    <2>1. \A z \in S : z \in Nat
      OBVIOUS
    <2>2. above[y] \subseteq above[x] /\ x \in above[x] /\ x \notin above[y]
      BY <1>1, <1>2, <2>1
    <2> HIDE DEF above
    <2> QED BY <1>1, <1>2, <2>2
  <1>3. \A y \in S : x >= y
    BY <1>1, <1>2
  <1>4. Max(S) \in S /\ \A y \in S : Max(S) >= y
    BY <1>1, <1>3 DEF Max
  <1> QED BY <1>4

\* A non-empty finite set of numbers has a smallest one.
LEMMA MinIs ==
  ASSUME NEW S, \A y \in S : y \in Nat, IsFiniteSet(S), S # {}
  PROVE  Min(S) \in S /\ \A y \in S : Min(S) <= y
  <1> DEFINE below == [x \in S |-> {y \in S : y <= x}]
  <1>1. PICK x \in S : \A y \in S : below[y] \subseteq below[x] => below[y] = below[x]
    <2>1. below \in [S -> SUBSET S]
      OBVIOUS
    <2> HIDE DEF below
    <2> QED BY <2>1, SmallestOf
  <1>2. ASSUME NEW y \in S, y < x
        PROVE  FALSE
    <2>1. \A z \in S : z \in Nat
      OBVIOUS
    <2>2. below[y] \subseteq below[x] /\ x \in below[x] /\ x \notin below[y]
      BY <1>1, <1>2, <2>1
    <2> HIDE DEF below
    <2> QED BY <1>1, <1>2, <2>2
  <1>3. \A y \in S : x <= y
    BY <1>1, <1>2
  <1>4. Min(S) \in S /\ \A y \in S : Min(S) <= y
    BY <1>1, <1>3 DEF Min
  <1> QED BY <1>4
=============================================================================
