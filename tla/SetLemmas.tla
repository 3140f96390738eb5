------------------------------ MODULE SetLemmas ------------------------------
(***************************************************************************)
(* What the library defines by a CHOOSE or by a recursion over subsets, as *)
(* the models use it.  Least and greatest elements (Min and Max): when     *)
(* they exist and what they are; the least natural number of a set is also *)
(* the minimal counterexample by which the proofs about recursive          *)
(* definitions do their inductions.  Sums over finite sets (MapThenSumSet, *)
(* a recursive function over subsets that takes one chosen element at a    *)
(* time): that the function exists, that its value does not depend on the  *)
(* order of the choices, and that a sum over two disjoint sets is the sum  *)
(* of their sums.  Two sequences that begin alike have one SubSeq.         *)
(***************************************************************************)
EXTENDS Integers, FiniteSetsExt, FiniteSetTheorems, WellFoundedInduction,
        SequenceTheorems, TLAPS

-----------------------------------------------------------------------------
(* Order                                                                    *)

LEMMA NatOrder == \E R : IsWellFoundedOn(R, Nat) /\ \A x, y \in Nat : <<y, x>> \in R <=> y < x
<1>1. IsWellFoundedOn(OpToRel(<, Nat), Nat)
    BY NatLessThanWellFounded
<1>2. \A x, y \in Nat : <<y, x>> \in OpToRel(<, Nat) <=> y < x
    BY DEF OpToRel
<1> QED
    BY <1>1, <1>2, Zenon

(* A non-empty set of naturals has a least element.                         *)
LEMMA LeastNat ==
    ASSUME NEW S \in SUBSET Nat, S # {}
    PROVE  \E n \in S : \A m \in S : n <= m
<1>1. PICK R : IsWellFoundedOn(R, Nat) /\ \A x, y \in Nat : <<y, x>> \in R <=> y < x
    BY NatOrder
<1>2. PICK x \in S : \A y \in S : ~(<<y, x>> \in R)
    BY <1>1, WFMin
<1>3. ASSUME NEW y \in S PROVE x <= y
  <2>1. x \in Nat /\ y \in Nat
    OBVIOUS
  <2>2. ~(y < x)
    BY <1>1, <1>2, <2>1, Zenon
  <2> QED
    BY <2>1, <2>2
<1> QED
    BY <1>3

(* A non-empty set of integers with an upper bound has a greatest element,  *)
(* which is its Max; with a lower bound, a least one, which is its Min.     *)
LEMMA MaxOfBounded ==
    ASSUME NEW S \in SUBSET Int, S # {}, NEW b \in Int, \A x \in S : x <= b
    PROVE  Max(S) \in S /\ \A x \in S : x <= Max(S)
<1> DEFINE D == {b - x : x \in S}
<1>1. D \in SUBSET Nat
    OBVIOUS
<1>2. D # {}
    OBVIOUS
<1>3. PICK n \in D : \A m \in D : n <= m
  <2> HIDE DEF D
  <2> QED
    BY <1>1, <1>2, LeastNat
<1>4. PICK x \in S : n = b - x
    OBVIOUS
<1>5. \A y \in S : x >= y
    BY <1>3, <1>4
<1> QED
    BY <1>5 DEF Max

LEMMA MinOfBounded ==
    ASSUME NEW S \in SUBSET Int, S # {}, NEW b \in Int, \A x \in S : b <= x
    PROVE  Min(S) \in S /\ \A x \in S : Min(S) <= x
<1> DEFINE D == {x - b : x \in S}
<1>1. D \in SUBSET Nat
    OBVIOUS
<1>2. D # {}
    OBVIOUS
<1>3. PICK n \in D : \A m \in D : n <= m
  <2> HIDE DEF D
  <2> QED
    BY <1>1, <1>2, LeastNat
<1>4. PICK x \in S : n = x - b
    OBVIOUS
<1>5. \A y \in S : x =< y
    BY <1>3, <1>4
<1> QED
    BY <1>5 DEF Min

-----------------------------------------------------------------------------
(* Sums                                                                     *)

\* the element the library takes first, the function it defines, and its value
Picked(s) == CHOOSE x \in s : TRUE
SumsUp(w, S, it) ==
    it = [s \in SUBSET S |-> IF s = {} THEN 0 ELSE w[Picked(s)] + it[s \ {Picked(s)}]]
SetSum(w, S) == (CHOOSE it : SumsUp(w, S, it))[S]

LEMMA PickedIn == ASSUME NEW S, S # {} PROVE Picked(S) \in S
BY DEF Picked

(* Induction by a smallest counterexample: of some finite sets, one is such *)
(* that it is no longer among them without any one of its elements.         *)
LEMMA SmallestSet ==
    ASSUME NEW C, C # {}, \A s \in C : IsFiniteSet(s)
    PROVE  \E s \in C : \A x \in s : s \ {x} \notin C
<1> DEFINE N == {Cardinality(s) : s \in C}
<1>1. N \in SUBSET Nat
    BY FS_CardinalityType
<1>2. N # {}
    OBVIOUS
<1>3. PICK n \in N : \A m \in N : n <= m
  <2> HIDE DEF N
  <2> QED
    BY <1>1, <1>2, LeastNat
<1>4. PICK s \in C : n = Cardinality(s)
    OBVIOUS
<1>5. ASSUME NEW x \in s, s \ {x} \in C PROVE FALSE
  <2>1. Cardinality(s \ {x}) = Cardinality(s) - 1 /\ Cardinality(s) \in Nat
    BY FS_RemoveElement, FS_CardinalityType
  <2>2. Cardinality(s) <= Cardinality(s \ {x})
    BY <1>3, <1>4, <1>5
  <2> QED
    BY <2>1, <2>2
<1> QED
    BY <1>5

LEMMA SumsRestrict ==
    ASSUME NEW w, NEW S, NEW it, SumsUp(w, S, it), NEW T \in SUBSET S
    PROVE  SumsUp(w, T, [s \in SUBSET T |-> it[s]])
<1> DEFINE jt == [s \in SUBSET T |-> it[s]]
<1>1. ASSUME NEW s \in SUBSET T
      PROVE  jt[s] = IF s = {} THEN 0 ELSE w[Picked(s)] + jt[s \ {Picked(s)}]
  <2>1. it[s] = IF s = {} THEN 0 ELSE w[Picked(s)] + it[s \ {Picked(s)}]
    BY DEF SumsUp
  <2>2. jt[s] = it[s] /\ jt[s \ {Picked(s)}] = it[s \ {Picked(s)}]
    OBVIOUS
  <2> QED
    BY <2>1, <2>2
<1> QED
    BY <1>1 DEF SumsUp

LEMMA SumsUnique ==
    ASSUME NEW w, NEW S, IsFiniteSet(S), NEW T, NEW it, NEW jt,
           SumsUp(w, S, it), SumsUp(w, T, jt), T \subseteq S
    PROVE  \A s \in SUBSET T : it[s] = jt[s]
<1> DEFINE C == {s \in SUBSET T : it[s] # jt[s]}
<1> SUFFICES ASSUME C # {} PROVE FALSE
    OBVIOUS
<1>1. \A s \in C : IsFiniteSet(s)
    BY FS_Subset
<1>2. PICK s \in C : \A x \in s : s \ {x} \notin C
  <2> HIDE DEF C
  <2> QED
    BY <1>1, SmallestSet
<1>3. /\ it[s] = IF s = {} THEN 0 ELSE w[Picked(s)] + it[s \ {Picked(s)}]
      /\ jt[s] = IF s = {} THEN 0 ELSE w[Picked(s)] + jt[s \ {Picked(s)}]
    BY DEF SumsUp
<1>4. s # {}
    BY <1>3
<1>5. s \ {Picked(s)} \notin C /\ s \ {Picked(s)} \in SUBSET T
    BY <1>2, <1>4, PickedIn
<1> QED
    BY <1>3, <1>5

(* Every finite set has its sum function, whatever w maps its elements to.  *)
LEMMA SumsExist ==
    ASSUME NEW w, NEW S, IsFiniteSet(S)
    PROVE  \E it : SumsUp(w, S, it)
<1> DEFINE C == {s \in SUBSET S : ~\E it : SumsUp(w, s, it)}
<1> SUFFICES ASSUME C # {} PROVE FALSE
    OBVIOUS
<1>1. \A s \in C : IsFiniteSet(s)
    BY FS_Subset
<1>2. PICK T \in C : \A x \in T : T \ {x} \notin C
  <2> HIDE DEF C
  <2> QED
    BY <1>1, SmallestSet
<1>3. IsFiniteSet(T)
    BY <1>1
<1>4. ASSUME NEW u \in SUBSET T, u # T PROVE SumsUp(w, u, CHOOSE j : SumsUp(w, u, j))
  <2>1. PICK x \in T : x \notin u
    BY <1>4
  <2>2. T \ {x} \in SUBSET S /\ T \ {x} \notin C
    BY <1>2
  <2>3. PICK j : SumsUp(w, T \ {x}, j)
    BY <2>2
  <2>4. u \in SUBSET (T \ {x})
    BY <2>1
  <2>5. \E k : SumsUp(w, u, k)
    BY <2>3, <2>4, SumsRestrict
  <2> QED
    BY <2>5
<1> DEFINE it == [s \in SUBSET T |->
                     IF s = {} THEN 0 ELSE w[Picked(s)] + SetSum(w, s \ {Picked(s)})]
<1>5. ASSUME NEW u \in SUBSET T, u # T PROVE it[u] = SetSum(w, u)
  <2> DEFINE j == CHOOSE k : SumsUp(w, u, k)
             v == u \ {Picked(u)}
             l == CHOOSE k : SumsUp(w, v, k)
  <2>1. SumsUp(w, u, j)
    BY <1>4, <1>5
  <2>2. SetSum(w, u) = j[u]
    BY DEF SetSum
  <2>3. j[u] = IF u = {} THEN 0 ELSE w[Picked(u)] + j[v]
    BY <2>1 DEF SumsUp
  <2>4. CASE u = {}
    BY <2>2, <2>3, <2>4
  <2>5. CASE u # {}
    <3>1. v \in SUBSET T /\ v # T /\ v \subseteq u /\ IsFiniteSet(u)
      BY <2>5, PickedIn, <1>3, FS_Subset
    <3>2. SumsUp(w, v, l)
      BY <1>4, <3>1
    <3>3. j[v] = l[v]
      BY <2>1, <3>1, <3>2, SumsUnique
    <3>4. SetSum(w, v) = l[v]
      BY DEF SetSum
    <3>5. it[u] = w[Picked(u)] + SetSum(w, v)
      BY <2>5
    <3> QED
      BY <2>2, <2>3, <2>5, <3>3, <3>4, <3>5
  <2> QED
    BY <2>4, <2>5
<1>6. ASSUME NEW s \in SUBSET T
      PROVE  it[s] = IF s = {} THEN 0 ELSE w[Picked(s)] + it[s \ {Picked(s)}]
  <2>1. CASE s = {}
    BY <2>1
  <2>2. CASE s # {}
    <3>1. s \ {Picked(s)} \in SUBSET T /\ s \ {Picked(s)} # T
      BY <2>2, PickedIn
    <3>2. it[s \ {Picked(s)}] = SetSum(w, s \ {Picked(s)})
      BY <1>5, <3>1
    <3> QED
      BY <2>2, <3>2
  <2> QED
    BY <2>1, <2>2
<1>7. it = [s \in SUBSET T |-> IF s = {} THEN 0 ELSE w[Picked(s)] + it[s \ {Picked(s)}]]
    BY <1>6
<1>8. SumsUp(w, T, it)
    BY <1>7 DEF SumsUp
<1> QED
    BY <1>8

(* What any function that sums up S says of S is the sum of S: this is how  *)
(* a use of MapThenSumSet is read as a SetSum.                               *)
LEMMA SetSumAny ==
    ASSUME NEW w, NEW S, IsFiniteSet(S), NEW it, SumsUp(w, S, it), NEW T \in SUBSET S
    PROVE  it[T] = SetSum(w, T)
<1> DEFINE j == CHOOSE k : SumsUp(w, T, k)
<1>1. SumsUp(w, T, j)
    BY FS_Subset, SumsExist
<1>2. it[T] = j[T]
  <2> HIDE DEF j
  <2> QED
    BY <1>1, SumsUnique
<1> QED
    BY <1>2 DEF SetSum

LEMMA SetSumEmpty == ASSUME NEW w PROVE SetSum(w, {}) = 0
<1>1. PICK it : SumsUp(w, {}, it)
    BY SumsExist, FS_EmptySet
<1>2. it[{}] = 0
    BY <1>1 DEF SumsUp
<1>3. IsFiniteSet({}) /\ {} \in SUBSET {}
    BY FS_EmptySet
<1>4. it[{}] = SetSum(w, {})
    BY <1>1, <1>3, SetSumAny
<1> QED
    BY <1>2, <1>4

LEMMA SetSumPicked ==
    ASSUME NEW w, NEW S, IsFiniteSet(S), S # {}
    PROVE  SetSum(w, S) = w[Picked(S)] + SetSum(w, S \ {Picked(S)})
<1>1. PICK it : SumsUp(w, S, it)
    BY SumsExist
<1>2. it[S] = w[Picked(S)] + it[S \ {Picked(S)}]
    BY <1>1 DEF SumsUp
<1>3. it[S] = SetSum(w, S)
    BY <1>1, SetSumAny
<1>4. \A T \in SUBSET S : it[T] = SetSum(w, T)
    BY <1>1, SetSumAny
<1>5. S \ {Picked(S)} \in SUBSET S
    OBVIOUS
<1> QED
    BY <1>2, <1>3, <1>4, <1>5

(* A sum of integers is an integer, of natural numbers a natural number.    *)
LEMMA SetSumInt ==
    ASSUME NEW w, NEW S, IsFiniteSet(S), \A x \in S : w[x] \in Int
    PROVE  SetSum(w, S) \in Int
<1> DEFINE C == {s \in SUBSET S : SetSum(w, s) \notin Int}
<1> SUFFICES ASSUME C # {} PROVE FALSE
    OBVIOUS
<1>1. \A s \in C : IsFiniteSet(s)
    BY FS_Subset
<1>2. PICK s \in C : \A x \in s : s \ {x} \notin C
  <2> HIDE DEF C
  <2> QED
    BY <1>1, SmallestSet
<1>3. s # {}
    BY SetSumEmpty
<1>4. Picked(s) \in s /\ SetSum(w, s \ {Picked(s)}) \in Int
    BY <1>2, <1>3, PickedIn
<1>5. SetSum(w, s) = w[Picked(s)] + SetSum(w, s \ {Picked(s)})
    BY <1>1, <1>3, SetSumPicked
<1> QED
    BY <1>4, <1>5

LEMMA SetSumNat ==
    ASSUME NEW w, NEW S, IsFiniteSet(S), \A x \in S : w[x] \in Nat
    PROVE  SetSum(w, S) \in Nat
<1> DEFINE C == {s \in SUBSET S : SetSum(w, s) \notin Nat}
<1> SUFFICES ASSUME C # {} PROVE FALSE
    OBVIOUS
<1>1. \A s \in C : IsFiniteSet(s)
    BY FS_Subset
<1>2. PICK s \in C : \A x \in s : s \ {x} \notin C
  <2> HIDE DEF C
  <2> QED
    BY <1>1, SmallestSet
<1>3. s # {}
    BY SetSumEmpty
<1>4. Picked(s) \in s /\ SetSum(w, s \ {Picked(s)}) \in Nat
    BY <1>2, <1>3, PickedIn
<1>5. SetSum(w, s) = w[Picked(s)] + SetSum(w, s \ {Picked(s)})
    BY <1>1, <1>3, SetSumPicked
<1> QED
    BY <1>4, <1>5

(* The order of the choices does not matter: any element can be taken out   *)
(* of a sum of integers.                                                    *)
LEMMA SetSumRemove ==
    ASSUME NEW w, NEW S, IsFiniteSet(S), \A x \in S : w[x] \in Int, NEW x \in S
    PROVE  SetSum(w, S) = w[x] + SetSum(w, S \ {x})
<1> DEFINE C == {s \in SUBSET S : \E y \in s : SetSum(w, s) # w[y] + SetSum(w, s \ {y})}
<1> SUFFICES ASSUME C # {} PROVE FALSE
    OBVIOUS
<1>1. \A s \in C : IsFiniteSet(s)
    BY FS_Subset
<1>2. PICK s \in C : \A y \in s : s \ {y} \notin C
  <2> HIDE DEF C
  <2> QED
    BY <1>1, SmallestSet
<1>3. PICK y \in s : SetSum(w, s) # w[y] + SetSum(w, s \ {y})
    OBVIOUS
<1> DEFINE p == Picked(s)
<1>4. p \in s
    BY <1>3, PickedIn
<1>5. SetSum(w, s) = w[p] + SetSum(w, s \ {p})
    BY <1>1, <1>3, SetSumPicked
<1>6. p # y
    BY <1>3, <1>5
<1> HIDE DEF p
<1>7. SetSum(w, s \ {p}) = w[y] + SetSum(w, (s \ {p}) \ {y})
    BY <1>2, <1>4, <1>6
<1>8. SetSum(w, s \ {y}) = w[p] + SetSum(w, (s \ {y}) \ {p})
    BY <1>2, <1>4, <1>6
<1>9. (s \ {p}) \ {y} = (s \ {y}) \ {p}
    OBVIOUS
<1>10. SetSum(w, (s \ {p}) \ {y}) \in Int
  <2>1. (s \ {p}) \ {y} \in SUBSET S /\ IsFiniteSet((s \ {p}) \ {y})
    BY FS_Subset
  <2> QED
    BY <2>1, SetSumInt
<1>11. w[p] \in Int /\ w[y] \in Int
    BY <1>4
<1> DEFINE rest == SetSum(w, (s \ {p}) \ {y})
<1>12. SetSum(w, s) = w[p] + (w[y] + rest) /\ SetSum(w, s \ {y}) = w[p] + rest /\ rest \in Int
    BY <1>5, <1>7, <1>8, <1>9, <1>10
<1> HIDE DEF rest
<1> QED
    BY <1>3, <1>11, <1>12

(* A sum over two sets without a common element is the sum of their sums.   *)
LEMMA SetSumUnion ==
    ASSUME NEW w, NEW S, NEW T, IsFiniteSet(S), IsFiniteSet(T), S \cap T = {},
           \A x \in S \cup T : w[x] \in Int
    PROVE  SetSum(w, S \cup T) = SetSum(w, S) + SetSum(w, T)
<1> DEFINE C == {t \in SUBSET T : SetSum(w, S \cup t) # SetSum(w, S) + SetSum(w, t)}
<1> SUFFICES ASSUME C # {} PROVE FALSE
    OBVIOUS
<1>1. \A t \in C : IsFiniteSet(t)
    BY FS_Subset
<1>2. PICK t \in C : \A x \in t : t \ {x} \notin C
  <2> HIDE DEF C
  <2> QED
    BY <1>1, SmallestSet
<1>3. SetSum(w, S) \in Int
    BY SetSumInt
<1>4. PICK x \in t : TRUE
  <2>1. CASE t = {}
    <3>1. S \cup t = S
      BY <2>1
    <3> QED
      BY <1>2, <1>3, <2>1, <3>1, SetSumEmpty
  <2> QED
    BY <2>1
<1>5. /\ IsFiniteSet(S \cup t) /\ IsFiniteSet(t) /\ IsFiniteSet(t \ {x})
      /\ \A y \in S \cup t : w[y] \in Int
    BY <1>1, FS_Union, FS_RemoveElement
<1>6. SetSum(w, t) = w[x] + SetSum(w, t \ {x})
    BY <1>5, SetSumRemove
<1>7. (S \cup t) \ {x} = S \cup (t \ {x})
    OBVIOUS
<1>8. SetSum(w, S \cup t) = w[x] + SetSum(w, S \cup (t \ {x}))
    BY <1>5, <1>7, SetSumRemove
<1>9. SetSum(w, S \cup (t \ {x})) = SetSum(w, S) + SetSum(w, t \ {x})
    BY <1>2
<1>10. SetSum(w, t \ {x}) \in Int
    BY <1>5, SetSumInt
<1> QED
    BY <1>2, <1>3, <1>5, <1>6, <1>8, <1>9, <1>10

(* A sum of amounts that differ in nothing of S is the same sum.            *)
LEMMA SumStands ==
    ASSUME NEW S, IsFiniteSet(S), NEW v, NEW w, \A x \in S : v[x] = w[x]
    PROVE  SetSum(v, S) = SetSum(w, S)
<1> DEFINE C == {s \in SUBSET S : SetSum(v, s) # SetSum(w, s)}
<1> SUFFICES ASSUME C # {} PROVE FALSE
    OBVIOUS
<1>1. \A s \in C : IsFiniteSet(s)
    BY FS_Subset
<1>2. PICK s \in C : \A x \in s : s \ {x} \notin C
  <2> HIDE DEF C
  <2> QED
    BY <1>1, SmallestSet
<1>3. s # {}
    BY SetSumEmpty
<1>4. Picked(s) \in s /\ SetSum(v, s \ {Picked(s)}) = SetSum(w, s \ {Picked(s)})
    BY <1>2, <1>3, PickedIn
<1>5. SetSum(v, s) = v[Picked(s)] + SetSum(v, s \ {Picked(s)}) /\ SetSum(w, s) = w[Picked(s)] + SetSum(w, s \ {Picked(s)})
    BY <1>1, <1>3, SetSumPicked
<1> QED
    BY <1>4, <1>5

(* Elements that weigh nothing add nothing.                                 *)
LEMMA SetSumZeros ==
    ASSUME NEW w, NEW S, IsFiniteSet(S), \A x \in S : w[x] \in Int,
           NEW T \in SUBSET S, \A x \in S \ T : w[x] = 0
    PROVE  SetSum(w, S) = SetSum(w, T)
<1> DEFINE C == {s \in SUBSET S : T \subseteq s /\ SetSum(w, s) # SetSum(w, T)}
<1> SUFFICES ASSUME C # {} PROVE FALSE
    OBVIOUS
<1>1. \A s \in C : IsFiniteSet(s)
    BY FS_Subset
<1>2. PICK s \in C : \A x \in s : s \ {x} \notin C
  <2> HIDE DEF C
  <2> QED
    BY <1>1, SmallestSet
<1>3. PICK x \in s : x \notin T
    BY <1>2
<1>4. SetSum(w, s \ {x}) = SetSum(w, T)
    BY <1>2, <1>3
<1>5. SetSum(w, s) = w[x] + SetSum(w, s \ {x}) /\ w[x] = 0
    BY <1>1, <1>3, SetSumRemove
<1>6. SetSum(w, s \ {x}) \in Int
    BY <1>1, FS_RemoveElement, SetSumInt
<1> QED
    BY <1>4, <1>5, <1>6

(* Every element belongs to one class: the sums of the classes add up.      *)
LEMMA SetSumClasses ==
    ASSUME NEW w, NEW S, IsFiniteSet(S), \A x \in S : w[x] \in Int,
           NEW T, IsFiniteSet(T), NEW c, \A x \in S : c[x] \in T,
           NEW m, \A t \in T : m[t] = {x \in S : c[x] = t},
           NEW v, \A t \in T : v[t] = SetSum(w, m[t])
    PROVE  SetSum(v, T) = SetSum(w, S)
<1> DEFINE In(u) == {x \in S : c[x] \in u}
           C == {u \in SUBSET T : SetSum(v, u) # SetSum(w, In(u))}
<1>0. In(T) = S
    OBVIOUS
<1> SUFFICES ASSUME C # {} PROVE FALSE
    BY <1>0
<1>1. \A u \in C : IsFiniteSet(u)
    BY FS_Subset
<1>2. PICK u \in C : \A t \in u : u \ {t} \notin C
  <2> HIDE DEF C
  <2> QED
    BY <1>1, SmallestSet
<1>3. u # {}
  <2>1. In({}) = {}
    OBVIOUS
  <2> QED
    BY <1>2, <2>1, SetSumEmpty
<1>4. PICK t \in u : TRUE
    BY <1>3
<1> DEFINE one == {x \in S : c[x] = t}
           rest == In(u \ {t})
<1>5. IsFiniteSet(one) /\ IsFiniteSet(rest) /\ one \cap rest = {} /\ one \cup rest = In(u)
  <2>1. one \in SUBSET S /\ rest \in SUBSET S /\ one \cap rest = {} /\ one \cup rest = In(u)
    BY <1>4
  <2> HIDE DEF one, rest
  <2> QED
    BY <2>1, FS_Subset
<1>6. \A x \in one \cup rest : w[x] \in Int
    OBVIOUS
<1>7. v[t] = SetSum(w, one) /\ SetSum(v, u \ {t}) = SetSum(w, rest)
  <2>1. t \in T /\ m[t] = one
    BY <1>2, <1>4
  <2> HIDE DEF one
  <2> QED
    BY <1>2, <1>4, <2>1
<1>8. \A r \in u : v[r] \in Int
  <2> SUFFICES ASSUME NEW r \in u PROVE v[r] \in Int
    OBVIOUS
  <2>1. r \in T /\ m[r] \in SUBSET S
    BY <1>2
  <2>2. SetSum(w, m[r]) \in Int
    BY <2>1, FS_Subset, SetSumInt
  <2> QED
    BY <1>2, <2>2
<1>9. SetSum(v, u) = v[t] + SetSum(v, u \ {t})
    BY <1>1, <1>4, <1>8, SetSumRemove
<1> HIDE DEF one, rest
<1>10. SetSum(w, one \cup rest) = SetSum(w, one) + SetSum(w, rest)
    BY <1>5, <1>6, SetSumUnion
<1> QED
    BY <1>2, <1>5, <1>7, <1>9, <1>10

(* A sum of sums, of the first amounts and of the second.                   *)
LEMMA SetSumAdd ==
    ASSUME NEW S, IsFiniteSet(S), NEW u, NEW v, NEW w,
           \A x \in S : u[x] \in Int /\ v[x] \in Int /\ w[x] = u[x] + v[x]
    PROVE  SetSum(w, S) = SetSum(u, S) + SetSum(v, S)
<1> DEFINE C == {s \in SUBSET S : SetSum(w, s) # SetSum(u, s) + SetSum(v, s)}
<1> SUFFICES ASSUME C # {} PROVE FALSE
    OBVIOUS
<1>1. \A s \in C : IsFiniteSet(s)
    BY FS_Subset
<1>2. PICK s \in C : \A x \in s : s \ {x} \notin C
  <2> HIDE DEF C
  <2> QED
    BY <1>1, SmallestSet
<1>3. s # {}
  <2>1. SetSum(w, {}) = 0 /\ SetSum(u, {}) = 0 /\ SetSum(v, {}) = 0
    BY SetSumEmpty
  <2>2. SetSum(w, s) # SetSum(u, s) + SetSum(v, s)
    BY <1>2
  <2> HIDE DEF C
  <2> QED
    BY <2>1, <2>2
<1>4. PICK x \in s : TRUE
    BY <1>3
<1>5. IsFiniteSet(s) /\ \A y \in s : u[y] \in Int /\ v[y] \in Int /\ w[y] \in Int
    BY <1>1
<1>6. /\ SetSum(w, s) = w[x] + SetSum(w, s \ {x}) /\ SetSum(u, s) = u[x] + SetSum(u, s \ {x})
      /\ SetSum(v, s) = v[x] + SetSum(v, s \ {x})
    BY <1>4, <1>5, SetSumRemove
<1>7. SetSum(u, s \ {x}) \in Int /\ SetSum(v, s \ {x}) \in Int
    BY <1>5, FS_RemoveElement, SetSumInt
<1>8. SetSum(w, s \ {x}) = SetSum(u, s \ {x}) + SetSum(v, s \ {x})
    BY <1>2, <1>4
<1> QED
    BY <1>2, <1>4, <1>5, <1>6, <1>7, <1>8

(* A table adds up by its rows as it does by its columns.                   *)
Turned(g, h, A, B) == \A a \in A, b \in B : g[a][b] \in Int /\ h[b][a] = g[a][b]
RowSums(row, g, A, B) == \A a \in A : row[a] = SetSum(g[a], B)
LEMMA SetSumSwap ==
    ASSUME NEW A, IsFiniteSet(A), NEW B, IsFiniteSet(B), NEW g, NEW h, Turned(g, h, A, B),
           NEW row, RowSums(row, g, A, B), NEW sums, RowSums(sums, h, B, A)
    PROVE  SetSum(row, A) = SetSum(sums, B)
<1> USE DEF Turned, RowSums
<1> DEFINE cell(b) == h[b]
           col(s) == [b \in B |-> SetSum(cell(b), s)]
           C == {s \in SUBSET A : SetSum(row, s) # SetSum(col(s), B)}
<1>0. SetSum(col(A), B) = SetSum(sums, B)
  <2>1. \A b \in B : col(A)[b] = sums[b]
    OBVIOUS
  <2> HIDE DEF col
  <2> QED
    BY <2>1, SumStands
<1> SUFFICES ASSUME C # {} PROVE FALSE
    BY <1>0
<1>1. \A s \in C : IsFiniteSet(s)
    BY FS_Subset
<1>2. PICK s \in C : \A x \in s : s \ {x} \notin C
  <2> HIDE DEF C
  <2> QED
    BY <1>1, SmallestSet
<1>3. s # {}
  <2>1. \A b \in B : col({})[b] = 0
    BY SetSumEmpty
  <2>2. SetSum(col({}), B) = 0
    <3> HIDE DEF col
    <3>1. SetSum(col({}), B) = SetSum(col({}), {})
      BY <2>1, SetSumZeros
    <3> QED
      BY <3>1, SetSumEmpty
  <2>3. SetSum(row, {}) = 0
    BY SetSumEmpty
  <2> QED
    BY <1>2, <2>2, <2>3
<1>4. PICK x \in s : TRUE
    BY <1>3
<1>5. /\ IsFiniteSet(s) /\ IsFiniteSet(s \ {x})
      /\ \A a \in s : row[a] = SetSum(g[a], B) /\ row[a] \in Int
  <2>1. ASSUME NEW a \in s PROVE SetSum(g[a], B) \in Int
    BY <1>2, SetSumInt
  <2> QED
    BY <1>1, <1>2, <2>1, FS_RemoveElement
<1>6. SetSum(row, s) = row[x] + SetSum(row, s \ {x})
  <2>1. \A a \in s : row[a] \in Int
    BY <1>5
  <2> HIDE DEF C
  <2> QED
    BY <1>4, <1>5, <2>1, SetSumRemove
<1>7. SetSum(row, s \ {x}) = SetSum(col(s \ {x}), B)
    BY <1>2, <1>4
<1>8. ASSUME NEW b \in B
      PROVE  /\ g[x][b] \in Int /\ col(s \ {x})[b] \in Int
             /\ col(s)[b] = g[x][b] + col(s \ {x})[b]
  <2>1. \A a \in s : cell(b)[a] \in Int
    BY <1>2
  <2>2. cell(b)[x] = g[x][b] /\ g[x][b] \in Int
    BY <1>2, <1>4
  <2> HIDE DEF cell, C, col
  <2>3. SetSum(cell(b), s) = cell(b)[x] + SetSum(cell(b), s \ {x})
    BY <1>4, <1>5, <2>1, SetSumRemove
  <2>4. SetSum(cell(b), s \ {x}) \in Int
    BY <1>5, <2>1, SetSumInt
  <2>5. col(s)[b] = SetSum(cell(b), s) /\ col(s \ {x})[b] = SetSum(cell(b), s \ {x})
    BY <1>8 DEF col
  <2> QED
    BY <2>2, <2>3, <2>4, <2>5
<1>9. SetSum(col(s), B) = SetSum(g[x], B) + SetSum(col(s \ {x}), B)
  <2> DEFINE v == col(s \ {x})
             w == col(s)
  <2>1. \A b \in B : g[x][b] \in Int /\ v[b] \in Int /\ w[b] = g[x][b] + v[b]
    BY <1>8
  <2> HIDE DEF v, w
  <2>2. SetSum(w, B) = SetSum(g[x], B) + SetSum(v, B)
    BY <2>1, SetSumAdd
  <2> QED
    BY <2>2 DEF v, w
<1> QED
    BY <1>2, <1>4, <1>5, <1>6, <1>7, <1>9

(* A positive sum has a positive part.                                      *)
LEMMA SetSumPositive ==
    ASSUME NEW w, NEW S, IsFiniteSet(S), \A x \in S : w[x] \in Int, SetSum(w, S) > 0
    PROVE  \E x \in S : w[x] > 0
<1> DEFINE C == {s \in SUBSET S : SetSum(w, s) > 0 /\ \A x \in s : ~(w[x] > 0)}
<1> SUFFICES ASSUME C # {} PROVE FALSE
    OBVIOUS
<1>1. \A s \in C : IsFiniteSet(s)
    BY FS_Subset
<1>2. PICK s \in C : \A x \in s : s \ {x} \notin C
  <2> HIDE DEF C
  <2> QED
    BY <1>1, SmallestSet
<1>3. s # {}
    BY <1>2, SetSumEmpty
<1>4. PICK x \in s : TRUE
    BY <1>3
<1>5. IsFiniteSet(s) /\ IsFiniteSet(s \ {x}) /\ (\A y \in s : w[y] \in Int) /\ ~(w[x] > 0)
    BY <1>1, <1>2, <1>4, FS_RemoveElement
<1>6. SetSum(w, s) = w[x] + SetSum(w, s \ {x})
    BY <1>4, <1>5, SetSumRemove
<1>7. SetSum(w, s \ {x}) \in Int
    BY <1>5, SetSumInt
<1>8. SetSum(w, s) > 0 /\ ~(SetSum(w, s \ {x}) > 0)
    BY <1>2, <1>4
<1> QED
    BY <1>4, <1>5, <1>6, <1>7, <1>8

(* A finite set of integers that is not empty has its Max and its Min.      *)
LEMMA FiniteBounds ==
    ASSUME NEW S \in SUBSET Int, IsFiniteSet(S)
    PROVE  \E a, b \in Int : \A x \in S : a <= x /\ x <= b
<1> DEFINE C == {s \in SUBSET S : ~\E a, b \in Int : \A x \in s : a <= x /\ x <= b}
<1> SUFFICES ASSUME C # {} PROVE FALSE
    OBVIOUS
<1>1. \A s \in C : IsFiniteSet(s)
    BY FS_Subset
<1>2. PICK s \in C : \A x \in s : s \ {x} \notin C
  <2> HIDE DEF C
  <2> QED
    BY <1>1, SmallestSet
<1>3. s # {}
  <2>1. 0 \in Int
    OBVIOUS
  <2> QED
    BY <1>2, <2>1
<1>4. PICK x \in s : x \in Int
    BY <1>2, <1>3
<1>5. PICK a \in Int, b \in Int : \A y \in s \ {x} : a <= y /\ y <= b
    BY <1>2, <1>4
<1> DEFINE lo == IF a <= x THEN a ELSE x
           hi == IF x <= b THEN b ELSE x
<1>6. lo \in Int /\ hi \in Int /\ lo <= x /\ x <= hi /\ lo <= a /\ b <= hi
    BY <1>4
<1>7. \A y \in s : lo <= y /\ y <= hi
  <2> SUFFICES ASSUME NEW y \in s PROVE lo <= y /\ y <= hi
    OBVIOUS
  <2>1. y \in Int
    BY <1>2
  <2>2. CASE y = x
    BY <1>6, <2>2
  <2>3. CASE y # x
    <3>1. a <= y /\ y <= b
      BY <1>5, <2>3
    <3> HIDE DEF lo, hi
    <3> QED
      BY <1>6, <2>1, <3>1
  <2> QED
    BY <2>2, <2>3
<1> QED
    BY <1>2, <1>6, <1>7

LEMMA FiniteEdges ==
    ASSUME NEW S \in SUBSET Int, IsFiniteSet(S), S # {}
    PROVE  /\ Max(S) \in S /\ \A x \in S : x <= Max(S)
           /\ Min(S) \in S /\ \A x \in S : Min(S) <= x
<1>1. PICK a \in Int, b \in Int : \A x \in S : a <= x /\ x <= b
    BY FiniteBounds
<1> QED
    BY <1>1, MaxOfBounded, MinOfBounded

(* A sum of multiples is the multiple of the sum.                           *)
LEMMA SetSumTimes ==
    ASSUME NEW S, IsFiniteSet(S), NEW c \in Int, NEW u, NEW w, \A x \in S : u[x] \in Int /\ w[x] = c * u[x]
    PROVE  SetSum(w, S) = c * SetSum(u, S)
<1> DEFINE C == {s \in SUBSET S : SetSum(w, s) # c * SetSum(u, s)}
<1> SUFFICES ASSUME C # {} PROVE FALSE
    OBVIOUS
<1>1. \A s \in C : IsFiniteSet(s)
    BY FS_Subset
<1>2. PICK s \in C : \A x \in s : s \ {x} \notin C
  <2> HIDE DEF C
  <2> QED
    BY <1>1, SmallestSet
<1>3. s # {}
  <2>1. SetSum(w, {}) = 0 /\ SetSum(u, {}) = 0
    BY SetSumEmpty
  <2>2. SetSum(w, s) # c * SetSum(u, s)
    BY <1>2
  <2>3. c * 0 = 0
    OBVIOUS
  <2> HIDE DEF C
  <2> QED
    BY <2>1, <2>2, <2>3
<1>4. PICK x \in s : TRUE
    BY <1>3
<1>5. IsFiniteSet(s) /\ \A y \in s : u[y] \in Int /\ w[y] \in Int
    BY <1>1
<1>6. SetSum(w, s) = w[x] + SetSum(w, s \ {x}) /\ SetSum(u, s) = u[x] + SetSum(u, s \ {x})
    BY <1>4, <1>5, SetSumRemove
<1>7. SetSum(u, s \ {x}) \in Int
    BY <1>5, FS_RemoveElement, SetSumInt
<1>8. SetSum(w, s \ {x}) = c * SetSum(u, s \ {x})
    BY <1>2, <1>4
<1>9. w[x] = c * u[x] /\ u[x] \in Int /\ SetSum(w, s) # c * SetSum(u, s)
    BY <1>2, <1>4
<1> HIDE DEF C
<1> QED
  <2>1. \A a, b \in Int : c * (a + b) = c * a + c * b
    OBVIOUS
  <2> QED
    BY <1>6, <1>7, <1>8, <1>9, <2>1

(* The steps of a walk add up to what lies between its ends.                *)
LEMMA SetSumSteps ==
    ASSUME NEW n \in Nat, NEW g, \A i \in 0..n : g[i] \in Int,
           NEW f, \A i \in 0..(n - 1) : f[i] = g[i + 1] - g[i]
    PROVE  SetSum(f, 0..(n - 1)) = g[n] - g[0]
<1> DEFINE C == {m \in 0..n : SetSum(f, 0..(m - 1)) # g[m] - g[0]}
<1> SUFFICES ASSUME C # {} PROVE FALSE
    OBVIOUS
<1>1. PICK m \in C : \A k \in C : m <= k
  <2>1. C \in SUBSET Nat
    OBVIOUS
  <2> HIDE DEF C
  <2> QED
    BY <2>1, LeastNat
<1>2. m \in 0..n /\ SetSum(f, 0..(m - 1)) # g[m] - g[0]
    BY <1>1
<1>3. m # 0
  <2>1. 0..(0 - 1) = {} /\ SetSum(f, {}) = 0 /\ g[0] - g[0] = 0
    BY SetSumEmpty
  <2> QED
    BY <1>2, <2>1
<1>4. PICK l \in 0..(n - 1) : m = l + 1
    BY <1>2, <1>3
<1>5. SetSum(f, 0..(l - 1)) = g[l] - g[0]
    BY <1>1, <1>4
<1> HIDE DEF C
<1>6. PICK S : S = 0..l
    OBVIOUS
<1>7. IsFiniteSet(S) /\ l \in S /\ \A i \in S : f[i] \in Int
  <2>1. ASSUME NEW i \in S PROVE f[i] \in Int
    <3>1. i \in 0..(n - 1) /\ i \in 0..n /\ i + 1 \in 0..n
      BY <1>4, <1>6
    <3>2. f[i] = g[i + 1] - g[i] /\ g[i + 1] \in Int /\ g[i] \in Int
      BY <3>1
    <3> QED
      BY <3>2
  <2> QED
    BY <1>4, <1>6, <2>1, FS_Interval
<1>8. SetSum(f, S) = f[l] + SetSum(f, S \ {l})
  <2>1. \A x \in S : SetSum(f, S) = f[x] + SetSum(f, S \ {x})
    BY ONLY <1>7, SetSumRemove
  <2> QED
    BY ONLY <1>7, <2>1
<1>9. S \ {l} = 0..(l - 1) /\ S = 0..(m - 1)
    BY <1>4, <1>6
<1>10. f[l] = g[m] - g[l] /\ g[l] \in Int /\ g[m] \in Int /\ g[0] \in Int
    BY <1>4
<1>11. SetSum(f, S) = g[m] - g[0]
  <2>1. SetSum(f, S) = (g[m] - g[l]) + (g[l] - g[0])
    BY ONLY <1>5, <1>8, <1>9, <1>10
  <2>2. \A a, b, c \in Int : (a - b) + (b - c) = a - c
    OBVIOUS
  <2> QED
    BY ONLY <1>10, <2>1, <2>2
<1>12. SetSum(f, 0..(m - 1)) = g[m] - g[0]
    BY <1>9, <1>11
<1> QED
    BY <1>2, <1>12

(* What a function takes a finite set to is finite.                         *)
LEMMA FiniteImage == ASSUME NEW S, IsFiniteSet(S), NEW f PROVE IsFiniteSet({f[x] : x \in S})
<1>1. PICK T : T = {f[x] : x \in S}
    OBVIOUS
<1>2. [x \in S |-> f[x]] \in Surjection(S, T)
    BY <1>1 DEF Surjection
<1>3. IsFiniteSet(T)
    BY <1>2, FS_Surjection
<1> QED
    BY <1>1, <1>3

-----------------------------------------------------------------------------
(* Two numbers, products and quotients                                      *)

(* The larger and the smaller of two.                                       *)
LEMMA MinOfTwo ==
    ASSUME NEW a \in Int, NEW b \in Int
    PROVE  Min({a, b}) = (IF a <= b THEN a ELSE b)
<1>1. Min({a, b}) \in {a, b} /\ \A x \in {a, b} : Min({a, b}) <= x
  <2>1. {a, b} = {a} \cup {b}
    OBVIOUS
  <2>2. IsFiniteSet({a}) /\ IsFiniteSet({b})
    BY FS_Singleton
  <2>3. IsFiniteSet({a, b})
    BY ONLY <2>1, <2>2, FS_Union
  <2> QED
    BY <2>3, FiniteEdges
<1> QED
    BY <1>1

LEMMA MaxOfTwo ==
    ASSUME NEW a \in Int, NEW b \in Int
    PROVE  Max({a, b}) = (IF a <= b THEN b ELSE a)
<1>1. Max({a, b}) \in {a, b} /\ \A x \in {a, b} : x <= Max({a, b})
  <2>1. {a, b} = {a} \cup {b}
    OBVIOUS
  <2>2. IsFiniteSet({a}) /\ IsFiniteSet({b})
    BY FS_Singleton
  <2>3. IsFiniteSet({a, b})
    BY ONLY <2>1, <2>2, FS_Union
  <2> QED
    BY <2>3, FiniteEdges
<1> QED
    BY <1>1

(* A product grows with its factor.                                         *)
LEMMA ProductGrows ==
    ASSUME NEW a \in Int, NEW b \in Int, NEW c \in Nat, a <= b
    PROVE  a * c <= b * c
<1>1. (b - a) * c >= 0
    OBVIOUS
<1>2. (b - a) * c = b * c - a * c
    OBVIOUS
<1>3. a * c \in Int /\ b * c \in Int
    OBVIOUS
<1> QED
    BY ONLY <1>1, <1>2, <1>3

(* What a quotient lies between.                                            *)
LEMMA QuotientFits ==
    ASSUME NEW a \in Int, NEW w \in Nat \ {0}
    PROVE  /\ a \div w \in Int
           /\ \A i \in Int : a < (i + 1) * w => a \div w <= i
           /\ \A i \in Int : i * w <= a => i <= a \div w
<1>1. PICK q \in Int : q = a \div w
    OBVIOUS
<1>2. q * w <= a /\ a < (q + 1) * w
    BY <1>1
<1>3. ASSUME NEW i \in Int, a < (i + 1) * w PROVE q <= i
  <2> SUFFICES ASSUME i + 1 <= q PROVE FALSE
    OBVIOUS
  <2>1. (i + 1) * w <= q * w
    BY ProductGrows, i + 1 \in Int
  <2>2. (i + 1) * w \in Int /\ q * w \in Int
    OBVIOUS
  <2> QED
    BY ONLY <1>2, <1>3, <2>1, <2>2, a \in Int
<1>4. ASSUME NEW i \in Int, i * w <= a PROVE i <= q
  <2> SUFFICES ASSUME q + 1 <= i PROVE FALSE
    OBVIOUS
  <2>1. (q + 1) * w <= i * w
    BY ProductGrows, q + 1 \in Int
  <2>2. (q + 1) * w \in Int /\ i * w \in Int
    OBVIOUS
  <2> QED
    BY ONLY <1>2, <1>4, <2>1, <2>2, a \in Int
<1> QED
    BY <1>1, <1>3, <1>4

LEMMA QuotientOfProduct ==
    ASSUME NEW a \in Int, NEW w \in Nat \ {0}
    PROVE  (a * w) \div w = a
<1>1. PICK m \in Int : m = a * w
    OBVIOUS
<1>2. m < (a + 1) * w /\ a * w <= m
  <2>1. (a + 1) * w = a * w + w
    OBVIOUS
  <2> QED
    BY <1>1, <2>1
<1>3. m \div w \in Int /\ m \div w <= a /\ a <= m \div w
    BY <1>2, QuotientFits
<1> QED
    BY <1>1, <1>3

-----------------------------------------------------------------------------
(* Sequences                                                                *)

LEMMA SameHead ==
    ASSUME NEW n \in Nat, NEW f, NEW g, \A d \in 1..n : f[d] = g[d]
    PROVE  SubSeq(f, 1, n) = SubSeq(g, 1, n)
<1> DEFINE S == {f[d] : d \in 1..n}
           F == SubSeq(f, 1, n)
           G == SubSeq(g, 1, n)
<1>1. n \in Int /\ \A d \in 1..n : f[d] \in S /\ g[d] \in S
    OBVIOUS
<1>2. F \in Seq(S) /\ Len(F) = n /\ \A i \in 1..(n - 1 + 1) : F[i] = f[1 + i - 1]
    BY <1>1, SubSeqProperties
<1>3. G \in Seq(S) /\ Len(G) = n /\ \A i \in 1..(n - 1 + 1) : G[i] = g[1 + i - 1]
    BY <1>1, SubSeqProperties
<1>4. \A i \in 1..Len(F) : F[i] = G[i]
    BY <1>2, <1>3
<1> HIDE DEF S, F, G
<1>5. F = G
    BY <1>2, <1>3, <1>4, SeqEqual
<1> QED
    BY <1>5 DEF F, G
=============================================================================
