----------------------- MODULE TopkCommonWordsProofs -----------------------
(***************************************************************************)
(* The three jobs of TopkCommonWords, for all finite sets of words, all    *)
(* texts over them, every k, and any number of runs that fail or are       *)
(* killed: no count is lost or made, the list is the one asked for, and    *)
(* what an earlier run left behind does no harm.                           *)
(*                                                                         *)
(* The proofs need three things of the operators: that adding up a group   *)
(* of counts keeps their sum (GroupedFacts), that sorting puts an entry at *)
(* the place that the number of entries before it gives (SortedFacts), and *)
(* that the first two jobs, if none failed, leave the counts of both files *)
(* (JobsInv).  A sum is a recursion over a set, of which nothing can be    *)
(* proved by an induction scheme; SumIsMarks shows, by the smallest set it *)
(* would be wrong of, that it is the size of a set of tally marks, and sets *)
(* can be split and joined.                                                *)
(***************************************************************************)
EXTENDS TopkCommonWords, FiniteSetTheorems, SequenceTheorems, TLAPS

(***************************************************************************)
(* Sums of counts.  A sum of natural numbers is the number of marks that   *)
(* tally them, one mark <<x, n>> for each n up to f[x].                    *)
(***************************************************************************)
Tally(f, x) == {x} \X (1 .. f[x])
Marks(f, S) == UNION {Tally(f, x) : x \in S}
pick(S) == CHOOSE x \in S : TRUE

IsCounts(f) == IsFiniteSet(DOMAIN f) /\ \A x \in DOMAIN f : f[x] \in Nat

(* Every set of naturals has a least one, unless it is empty. *)
LEMMA LeastNat ==
  ASSUME NEW T, T \subseteq Nat, T # {}
  PROVE  \E x \in T : \A y \in T : x <= y
<1>1. \A R : IsWellFoundedOn(R, Nat) => \E x \in T : \A y \in T : ~ (<<y, x>> \in R)
  BY WFMin
<1>2. IsWellFoundedOn({xy \in Nat \X Nat : xy[1] < xy[2]}, Nat)
  BY NatLessThanWellFounded DEF OpToRel
<1>3. PICK x \in T : \A y \in T : ~ (<<y, x>> \in {xy \in Nat \X Nat : xy[1] < xy[2]})
  BY <1>1, <1>2
<1>4. ASSUME NEW y \in T, y < x PROVE FALSE
  <2>1. <<y, x>> \in Nat \X Nat
    OBVIOUS
  <2>2. <<y, x>>[1] = y /\ <<y, x>>[2] = x
    OBVIOUS
  <2>3. <<y, x>> \in {xy \in Nat \X Nat : xy[1] < xy[2]}
    BY <1>4, <2>1, <2>2
  <2> QED BY <1>3, <2>3
<1>5. \A y \in T : x <= y
  BY <1>4
<1> QED BY <1>5

(* As many marks as the number says. *)
LEMMA TallyFacts ==
  ASSUME NEW f, NEW x, f[x] \in Nat
  PROVE  IsFiniteSet(Tally(f, x)) /\ Cardinality(Tally(f, x)) = f[x]
<1>1. IsFiniteSet({x}) /\ Cardinality({x}) = 1
  BY FS_Singleton
<1>2. IsFiniteSet(1 .. f[x]) /\ Cardinality(1 .. f[x]) = f[x]
  <2>1. PICK n \in Nat : n = f[x]
    OBVIOUS
  <2>2. 1 \in Int /\ n \in Int
    OBVIOUS
  <2>3. IsFiniteSet(1 .. n) /\ Cardinality(1 .. n) = IF 1 > n THEN 0 ELSE n - 1 + 1
    BY <2>2, FS_Interval, ZenonT(60)
  <2>4. (IF 1 > n THEN 0 ELSE n - 1 + 1) = n
    OBVIOUS
  <2> QED BY <2>1, <2>3, <2>4
<1>3. IsFiniteSet({x} \X (1 .. f[x]))
      /\ Cardinality({x} \X (1 .. f[x])) = Cardinality({x}) * Cardinality(1 .. f[x])
  BY <1>1, <1>2, FS_Product
<1>4. 1 * f[x] = f[x]
  OBVIOUS
<1> QED BY <1>1, <1>2, <1>3, <1>4 DEF Tally

(* Finitely many marks tally finitely many numbers. *)
LEMMA MarksFinite ==
  ASSUME NEW f, NEW S, IsFiniteSet(S), \A x \in S : f[x] \in Nat
  PROVE  IsFiniteSet(Marks(f, S)) /\ Cardinality(Marks(f, S)) \in Nat
<1> DEFINE F == {Tally(f, x) : x \in S}
           t == [x \in S |-> Tally(f, x)]
<1>1. t \in Surjection(S, F)
  BY DEF Surjection
<1>2. IsFiniteSet(F)
  BY <1>1, FS_Surjection
<1>3. \A T \in F : IsFiniteSet(T)
  BY TallyFacts
<1>4. IsFiniteSet(Marks(f, S))
  BY <1>2, <1>3, FS_UNION DEF Marks
<1> QED BY <1>4, FS_CardinalityType

(* The marks of two sets apart are the marks of both. *)
LEMMA MarksUnion ==
  ASSUME NEW f, NEW S, NEW T, IsFiniteSet(S), IsFiniteSet(T), S \cap T = {},
         \A x \in S \cup T : f[x] \in Nat
  PROVE  Cardinality(Marks(f, S \cup T)) = Cardinality(Marks(f, S)) + Cardinality(Marks(f, T))
<1>1. Marks(f, S \cup T) = Marks(f, S) \cup Marks(f, T)
  BY DEF Marks
<1>2. Marks(f, S) \cap Marks(f, T) = {}
  BY DEF Marks, Tally
<1>3. IsFiniteSet(Marks(f, S)) /\ IsFiniteSet(Marks(f, T))
      /\ Cardinality(Marks(f, S)) \in Nat /\ Cardinality(Marks(f, T)) \in Nat
  BY MarksFinite
<1>4. Cardinality({}) = 0
  BY FS_EmptySet
<1>5. PICK A, B : A = Marks(f, S) /\ B = Marks(f, T)
  OBVIOUS
<1>6. Cardinality(A \cup B) = Cardinality(A) + Cardinality(B) - Cardinality(A \cap B)
  BY <1>3, <1>5, FS_Union
<1>7. A \cup B = Marks(f, S \cup T) /\ Cardinality(A \cap B) = 0
  BY <1>1, <1>2, <1>4, <1>5
<1>8. Cardinality(A) + Cardinality(B) - 0 = Cardinality(A) + Cardinality(B)
  BY <1>3, <1>5
<1> QED BY <1>5, <1>6, <1>7, <1>8

(* The marks of one number. *)
LEMMA MarksOfOne ==
  ASSUME NEW f, NEW x, f[x] \in Nat
  PROVE  Cardinality(Marks(f, {x})) = f[x]
<1>1. Marks(f, {x}) = Tally(f, x)
  BY DEF Marks
<1> QED BY <1>1, TallyFacts

(* The recursion that defines the sum over the subsets of a set. *)
IsSum(g, f, S) ==
  g = [s \in SUBSET S |-> IF s = {} THEN 0 ELSE f[pick(s)] + g[s \ {pick(s)}]]

LEMMA SumByRecursion ==
  ASSUME NEW f, NEW S, \E g : IsSum(g, f, S)
  PROVE  \E g : IsSum(g, f, S) /\ SumFunctionOnSet(f, S) = g[S]
<1>1. SumFunctionOnSet(f, S) = (CHOOSE iter : IsSum(iter, f, S))[S]
  BY DEF SumFunctionOnSet, FoldFunctionOnSet, MapThenFoldSet, pick, IsSum
<1>2. PICK g : g = (CHOOSE iter : IsSum(iter, f, S))
  OBVIOUS
<1>3. IsSum(g, f, S)
  BY <1>2 DEF IsSum
<1> QED BY <1>1, <1>2, <1>3

LEMMA SumIsMarks ==
  ASSUME NEW f, NEW S, IsFiniteSet(S), \A x \in S : f[x] \in Nat
  PROVE  SumFunctionOnSet(f, S) = Cardinality(Marks(f, S))
<1> DEFINE W(s) == Cardinality(Marks(f, s))
<1>0. ASSUME NEW s \in SUBSET S, s # {}
      PROVE  /\ pick(s) \in s /\ s \ {pick(s)} \in SUBSET S
             /\ IsFiniteSet(s) /\ IsFiniteSet(s \ {pick(s)})
             /\ Cardinality(s \ {pick(s)}) < Cardinality(s)
             /\ Cardinality(s) \in Nat /\ Cardinality(s \ {pick(s)}) \in Nat
             /\ f[pick(s)] \in Nat
             /\ W(s) = f[pick(s)] + W(s \ {pick(s)})
  <2>1. pick(s) \in s
    BY <1>0 DEF pick
  <2>2. PICK p : p = pick(s)
    OBVIOUS
  <2>3. IsFiniteSet(s) /\ Cardinality(s) \in Nat
    BY FS_Subset, FS_CardinalityType
  <2>4. IsFiniteSet(s \ {p}) /\ Cardinality(s \ {p}) = Cardinality(s) - 1
    BY <2>1, <2>2, <2>3, FS_RemoveElement
  <2>5. Cardinality(s \ {p}) \in Nat
    BY <2>4, FS_CardinalityType
  <2>6. IsFiniteSet({p}) /\ {p} \cap (s \ {p}) = {} /\ {p} \cup (s \ {p}) = s
    BY <2>1, <2>2, FS_Singleton
  <2>7. f[p] \in Nat
    BY <2>1, <2>2
  <2>8. W({p} \cup (s \ {p})) = W({p}) + W(s \ {p})
    BY <2>1, <2>2, <2>4, <2>6, MarksUnion
  <2>9. W({p}) = f[p]
    BY <2>7, MarksOfOne
  <2> QED BY <2>1, <2>2, <2>3, <2>4, <2>5, <2>6, <2>7, <2>8, <2>9
<1>1. W({}) = 0
  BY FS_EmptySet DEF Marks
<1> DEFINE h == [s \in SUBSET S |-> W(s)]
<1>2. IsSum(h, f, S)
  <2>1. ASSUME NEW s \in SUBSET S
        PROVE  h[s] = IF s = {} THEN 0 ELSE f[pick(s)] + h[s \ {pick(s)}]
    BY <1>0, <1>1
  <2> QED BY <2>1 DEF IsSum
<1>3. PICK g : IsSum(g, f, S) /\ SumFunctionOnSet(f, S) = g[S]
  BY <1>2, SumByRecursion
<1>4. ASSUME NEW s \in SUBSET S, g[s] # W(s) PROVE FALSE
  <2> DEFINE Bad == {n \in Nat : \E t \in SUBSET S : Cardinality(t) = n /\ g[t] # W(t)}
  <2>1. Cardinality(s) \in Nat
    BY FS_Subset, FS_CardinalityType
  <2>2. PICK n \in Bad : \A m \in Bad : n <= m
    BY <2>1, <1>4, LeastNat
  <2>3. PICK t \in SUBSET S : Cardinality(t) = n /\ g[t] # W(t)
    OBVIOUS
  <2>4. g[t] = IF t = {} THEN 0 ELSE f[pick(t)] + g[t \ {pick(t)}]
    BY <1>3 DEF IsSum
  <2>5. t # {}
    BY <2>3, <2>4, <1>1
  <2>6. t \ {pick(t)} \in SUBSET S /\ Cardinality(t \ {pick(t)}) \in Nat
        /\ Cardinality(t \ {pick(t)}) < n
        /\ W(t) = f[pick(t)] + W(t \ {pick(t)})
    BY <1>0, <2>3, <2>5
  <2>7. g[t \ {pick(t)}] = W(t \ {pick(t)})
    BY <2>2, <2>6
  <2> QED BY <2>3, <2>4, <2>5, <2>6, <2>7
<1> QED BY <1>3, <1>4

(* The sum over a set is a natural number. *)
LEMMA SumOnSet ==
  ASSUME NEW f, NEW S, IsFiniteSet(S), \A x \in S : f[x] \in Nat
  PROVE  SumFunctionOnSet(f, S) \in Nat
BY SumIsMarks, MarksFinite

(* Sums over sets apart add up. *)
LEMMA SumOnUnion ==
  ASSUME NEW f, NEW S, NEW T, IsFiniteSet(S), IsFiniteSet(T), S \cap T = {},
         \A x \in S \cup T : f[x] \in Nat
  PROVE  SumFunctionOnSet(f, S \cup T) = SumFunctionOnSet(f, S) + SumFunctionOnSet(f, T)
<1>1. PICK U : U = S \cup T
  OBVIOUS
<1>2. IsFiniteSet(U)
  BY <1>1, FS_Union
<1>3. SumFunctionOnSet(f, U) = Cardinality(Marks(f, U))
  BY <1>1, <1>2, SumIsMarks
<1>4. SumFunctionOnSet(f, S) = Cardinality(Marks(f, S))
      /\ SumFunctionOnSet(f, T) = Cardinality(Marks(f, T))
  BY SumIsMarks
<1> QED BY <1>1, <1>3, <1>4, MarksUnion

(* A sum depends on its numbers only. *)
LEMMA SumOnSame ==
  ASSUME NEW f, NEW g, NEW S, IsFiniteSet(S), \A x \in S : f[x] \in Nat /\ g[x] = f[x]
  PROVE  SumFunctionOnSet(g, S) = SumFunctionOnSet(f, S)
<1>1. Marks(g, S) = Marks(f, S)
  BY DEF Marks, Tally
<1> QED BY <1>1, SumIsMarks

(* The sum of one number, and so on for none, one, two and n ones. *)
LEMMA SumOnOne ==
  ASSUME NEW f, NEW x, f[x] \in Nat
  PROVE  SumFunctionOnSet(f, {x}) = f[x]
<1>1. IsFiniteSet({x})
  BY FS_Singleton
<1> QED BY <1>1, SumIsMarks, MarksOfOne

LEMMA SumOfNone ==
  ASSUME NEW c, DOMAIN c = {}
  PROVE  Sum(c) = 0
<1>1. Marks(c, {}) = {}
  BY DEF Marks
<1>2. IsFiniteSet({}) /\ Cardinality({}) = 0
  BY FS_EmptySet
<1>3. SumFunctionOnSet(c, {}) = 0
  BY <1>1, <1>2, SumIsMarks
<1> QED BY <1>3 DEF Sum, SumFunction

LEMMA SumOfOne ==
  ASSUME NEW c, NEW x, DOMAIN c = {x}, c[x] \in Nat
  PROVE  Sum(c) = c[x]
BY SumOnOne DEF Sum, SumFunction

LEMMA SumOfTwo ==
  ASSUME NEW c, NEW x, NEW y, x # y, DOMAIN c = {x, y}, c[x] \in Nat, c[y] \in Nat
  PROVE  Sum(c) = c[x] + c[y]
<1>1. IsFiniteSet({x}) /\ IsFiniteSet({y})
  BY FS_Singleton
<1>2. {x} \cap {y} = {} /\ {x} \cup {y} = {x, y}
  OBVIOUS
<1>3. SumFunctionOnSet(c, {x} \cup {y}) = SumFunctionOnSet(c, {x}) + SumFunctionOnSet(c, {y})
  BY <1>1, <1>2, SumOnUnion
<1> QED BY <1>2, <1>3, SumOnOne DEF Sum, SumFunction

LEMMA SumOfOnes ==
  ASSUME NEW n \in Nat
  PROVE  IsCounts(Ones(n)) /\ Sum(Ones(n)) = n
<1>1. PICK c : c = Ones(n)
  OBVIOUS
<1>2. DOMAIN c = 1 .. n /\ \A x \in 1 .. n : c[x] = 1
  BY <1>1 DEF Ones
<1>3. IsFiniteSet(1 .. n) /\ Cardinality(1 .. n) = n /\ IsFiniteSet(1 .. 1) /\ Cardinality(1 .. 1) = 1
  <2>1. \A m \in Nat : IsFiniteSet(1 .. m) /\ Cardinality(1 .. m) = m
    BY FS_Interval
  <2> QED BY <2>1
<1>4. Marks(c, 1 .. n) = (1 .. n) \X (1 .. 1)
  BY <1>2 DEF Marks, Tally
<1>5. Cardinality((1 .. n) \X (1 .. 1)) = Cardinality(1 .. n) * Cardinality(1 .. 1)
  BY <1>3, FS_Product
<1>6. n * 1 = n
  OBVIOUS
<1>7. SumFunctionOnSet(c, 1 .. n) = n
  <2>1. \A x \in 1 .. n : c[x] \in Nat
    BY <1>2
  <2>2. SumFunctionOnSet(c, 1 .. n) = Cardinality(Marks(c, 1 .. n))
    BY <1>3, <2>1, SumIsMarks
  <2> QED BY <1>3, <1>4, <1>5, <1>6, <2>2
<1> QED BY <1>1, <1>2, <1>3, <1>7 DEF IsCounts, Sum, SumFunction

(* Adding up a group of counts leaves their sum, and one place of the group. *)
LEMMA GroupedFacts ==
  ASSUME NEW c, IsCounts(c), NEW group \in SUBSET DOMAIN c, Cardinality(group) > 1
  PROVE  /\ IsCounts(Grouped(c, group))
         /\ Sum(Grouped(c, group)) = Sum(c)
         /\ \E place \in group : DOMAIN Grouped(c, group) = (DOMAIN c \ group) \cup {place}
<1> DEFINE part == Restrict(c, group)
           rest == DOMAIN c \ group
<1>1. IsFiniteSet(DOMAIN c) /\ \A x \in DOMAIN c : c[x] \in Nat
  BY DEF IsCounts
<1>2. IsFiniteSet(group) /\ IsFiniteSet(rest)
  BY <1>1, FS_Subset, FS_Difference
<1>3. group # {}
  BY FS_EmptySet
<1>4. PICK place : place = CHOOSE i \in group : TRUE
  OBVIOUS
<1>5. place \in group
  BY <1>3, <1>4
<1>6. PICK d : d = Grouped(c, group)
  OBVIOUS
<1>7. d = [i \in rest \cup {place} |-> IF i = place THEN Sum(part) ELSE c[i]]
  BY <1>4, <1>6 DEF Grouped, CombinedCount
<1>8. part = [i \in group |-> c[i]]
  BY DEF Restrict
<1>9. Sum(part) = SumFunctionOnSet(c, group)
  <2>1. PICK p : p = part
    OBVIOUS
  <2>2. DOMAIN p = group /\ \A x \in group : c[x] \in Nat /\ p[x] = c[x]
    BY <1>1, <1>8, <2>1
  <2>3. SumFunctionOnSet(p, group) = SumFunctionOnSet(c, group)
    BY <1>2, <2>2, SumOnSame
  <2> QED BY <2>1, <2>2, <2>3 DEF Sum, SumFunction
<1>10. SumFunctionOnSet(c, group) \in Nat
  BY <1>1, <1>2, SumOnSet
<1>11. DOMAIN d = rest \cup {place} /\ d[place] = SumFunctionOnSet(c, group)
       /\ \A x \in rest : d[x] = c[x] /\ c[x] \in Nat
  BY <1>1, <1>5, <1>7, <1>9
<1> HIDE DEF part, rest
<1>12. IsFiniteSet({place}) /\ rest \cap {place} = {}
  BY <1>5, FS_Singleton DEF rest
<1>13. IsFiniteSet(DOMAIN d)
  BY <1>2, <1>11, FS_AddElement
<1>14. \A x \in rest \cup {place} : d[x] \in Nat
  BY <1>10, <1>11
<1>15. SumFunctionOnSet(d, rest \cup {place}) = SumFunctionOnSet(d, rest) + SumFunctionOnSet(d, {place})
  BY <1>2, <1>12, <1>14, SumOnUnion
<1>16. SumFunctionOnSet(d, rest) = SumFunctionOnSet(c, rest)
  BY <1>2, <1>11, SumOnSame
<1>17. SumFunctionOnSet(d, {place}) = SumFunctionOnSet(c, group)
  BY <1>10, <1>11, SumOnOne
<1>18. rest \cap group = {} /\ rest \cup group = DOMAIN c
  BY DEF rest
<1>19. SumFunctionOnSet(c, rest \cup group) = SumFunctionOnSet(c, rest) + SumFunctionOnSet(c, group)
  BY <1>1, <1>2, <1>18, SumOnUnion
<1>20. Sum(d) = Sum(c)
  BY <1>11, <1>15, <1>16, <1>17, <1>18, <1>19 DEF Sum, SumFunction
<1>21. IsCounts(d)
  BY <1>11, <1>13, <1>14 DEF IsCounts
<1> QED BY <1>5, <1>6, <1>11, <1>20, <1>21 DEF rest

(***************************************************************************)
(* Sorted lists.  The place of an entry in a sorted list is one more than  *)
(* the number of the entries before it.                                    *)
(***************************************************************************)
AreEntries(S) ==
  /\ IsFiniteSet(S)
  /\ \A d \in S : d.word \in Nat /\ d.count \in Nat
  /\ \A d, e \in S : d.word = e.word => d = e

Before(S, d) == {e \in S : Precedes(e, d)}
PlaceIn(S, d) == Cardinality(Before(S, d)) + 1

IsSorted(s) == \A i, j \in DOMAIN s : i < j => Precedes(s[i], s[j])

(* The order of the list is total and strict on entries. *)
LEMMA PrecedesOrders ==
  ASSUME NEW S, AreEntries(S)
  PROVE  /\ \A d \in S : ~ Precedes(d, d)
         /\ \A d, e \in S : d # e => Precedes(d, e) \/ Precedes(e, d)
         /\ \A d, e \in S : ~ (Precedes(d, e) /\ Precedes(e, d))
         /\ \A c, d, e \in S : Precedes(c, d) /\ Precedes(d, e) => Precedes(c, e)
BY DEF AreEntries, Precedes

(* An entry's place is in the list, and after that of a better one. *)
LEMMA PlaceFacts ==
  ASSUME NEW S, AreEntries(S), NEW d \in S
  PROVE  /\ PlaceIn(S, d) \in 1 .. Cardinality(S)
         /\ \A e \in S : Precedes(d, e) => PlaceIn(S, d) < PlaceIn(S, e)
<1>1. IsFiniteSet(S) /\ Cardinality(S) \in Nat
  BY FS_CardinalityType DEF AreEntries
<1>2. ASSUME NEW T \in SUBSET S
      PROVE  IsFiniteSet(T) /\ Cardinality(T) \in Nat /\ Cardinality(T) <= Cardinality(S)
  <2>1. IsFiniteSet(T) /\ Cardinality(T) <= Cardinality(S)
    BY <1>1, FS_Subset
  <2> QED BY <2>1, FS_CardinalityType
<1>3. ASSUME NEW T \in SUBSET S, NEW U \in SUBSET T, NEW x \in T, x \notin U
      PROVE  Cardinality(U) < Cardinality(T)
  <2>1. IsFiniteSet(T) /\ Cardinality(T) \in Nat /\ Cardinality(U) \in Nat
    BY <1>2
  <2>2. Cardinality(U) <= Cardinality(T) /\ (Cardinality(T) = Cardinality(U) => T = U)
    BY <2>1, FS_Subset
  <2> QED BY <1>3, <2>1, <2>2
<1>4. Before(S, d) \in SUBSET S /\ d \notin Before(S, d)
  BY PrecedesOrders DEF Before
<1>5. PlaceIn(S, d) \in 1 .. Cardinality(S)
  <2>1. Cardinality(Before(S, d)) < Cardinality(S)
    BY <1>3, <1>4
  <2>2. Cardinality(Before(S, d)) \in Nat
    BY <1>2, <1>4
  <2> QED BY <1>1, <2>1, <2>2 DEF PlaceIn
<1>6. ASSUME NEW e \in S, Precedes(d, e)
      PROVE  PlaceIn(S, d) < PlaceIn(S, e)
  <2>1. Before(S, d) \in SUBSET Before(S, e) /\ d \in Before(S, e) /\ Before(S, e) \in SUBSET S
    BY <1>6, PrecedesOrders DEF Before
  <2>2. Cardinality(Before(S, d)) < Cardinality(Before(S, e))
    BY <1>3, <1>4, <2>1
  <2>3. Cardinality(Before(S, d)) \in Nat /\ Cardinality(Before(S, e)) \in Nat
    BY <1>2, <1>4, <2>1
  <2> QED BY <2>2, <2>3 DEF PlaceIn
<1> QED BY <1>5, <1>6

(* To put every entry at its place is one way to sort them ... *)
LEMMA SortedExists ==
  ASSUME NEW S, AreEntries(S)
  PROVE  \E s \in [1 .. Cardinality(S) -> S] : IsSorted(s)
<1> DEFINE n == Cardinality(S)
           r == [d \in S |-> PlaceIn(S, d)]
<1>1. IsFiniteSet(S) /\ n \in Nat
  BY FS_CardinalityType DEF AreEntries
<1>2. IsFiniteSet(1 .. n) /\ Cardinality(1 .. n) = n
  BY <1>1, FS_Interval
<1>3. r \in [S -> 1 .. n] /\ \A d, e \in S : Precedes(d, e) => r[d] < r[e]
  BY PlaceFacts
<1> HIDE DEF n, r
<1>4. \A d, e \in S : d # e => r[d] # r[e]
  <2>1. \A d \in S : r[d] \in Int
    BY <1>3
  <2> QED BY <1>3, <2>1, PrecedesOrders
<1>5. r \in Injection(S, 1 .. n)
  BY <1>3, <1>4 DEF Injection, IsInjective
<1>6. r \in Surjection(S, 1 .. n)
  BY <1>1, <1>2, <1>5, FS_Injection DEF n
<1>7. \A i \in 1 .. n : \E d \in S : r[d] = i
  BY <1>6 DEF Surjection
<1> DEFINE s == [i \in 1 .. n |-> CHOOSE d \in S : r[d] = i]
<1>8. \A i \in 1 .. n : s[i] \in S /\ r[s[i]] = i
  BY <1>7
<1>9. s \in [1 .. n -> S] /\ DOMAIN s = 1 .. n
  BY <1>8
<1> HIDE DEF s
<1>10. ASSUME NEW i \in 1 .. n, NEW j \in 1 .. n, i < j PROVE Precedes(s[i], s[j])
  <2>1. s[i] # s[j] /\ s[i] \in S /\ s[j] \in S
    BY <1>8, <1>10
  <2>2. ~ Precedes(s[j], s[i])
    BY <1>3, <1>8, <1>10, <2>1
  <2> QED BY <2>1, <2>2, PrecedesOrders
<1>11. IsSorted(s)
  BY <1>9, <1>10 DEF IsSorted
<1> QED BY <1>9, <1>11 DEF n

(* ... and any way to sort them does so. *)
LEMMA SortedFacts ==
  ASSUME NEW S, AreEntries(S)
  PROVE  /\ Cardinality(S) \in Nat
         /\ Sorted(S) \in [1 .. Cardinality(S) -> S]
         /\ \A d \in S : PlaceIn(S, d) \in 1 .. Cardinality(S) /\ Sorted(S)[PlaceIn(S, d)] = d
         /\ \A i \in 1 .. Cardinality(S) : PlaceIn(S, Sorted(S)[i]) = i
<1>1. PICK n : n = Cardinality(S)
  OBVIOUS
<1>2. IsFiniteSet(S) /\ n \in Nat
  BY <1>1, FS_CardinalityType DEF AreEntries
<1>3. PICK s : s = Sorted(S)
  OBVIOUS
<1>4. s \in [1 .. n -> S] /\ IsSorted(s)
  BY <1>1, <1>3, SortedExists DEF Sorted, IsSorted
<1>5. \A i, j \in 1 .. n : i < j => Precedes(s[i], s[j])
  BY <1>4 DEF IsSorted
<1>6. \A i \in 1 .. n : s[i] \in S
  BY <1>4
<1>7. \A i, j \in 1 .. n : s[i] = s[j] => i = j
  BY <1>5, <1>6, PrecedesOrders
<1>8. IsFiniteSet(1 .. n) /\ Cardinality(1 .. n) = n
  BY <1>2, FS_Interval
<1>9. s \in Injection(1 .. n, S)
  BY <1>4, <1>7 DEF Injection, IsInjective
<1>10. s \in Surjection(1 .. n, S)
  BY <1>1, <1>2, <1>8, <1>9, FS_Injection
<1>11. \A d \in S : \E i \in 1 .. n : s[i] = d
  BY <1>10 DEF Surjection
<1>12. ASSUME NEW i \in 1 .. n PROVE PlaceIn(S, s[i]) = i
  <2>1. i \in Nat /\ i - 1 \in Nat /\ 1 .. (i - 1) \subseteq 1 .. n
    BY <1>2
  <2>2. IsFiniteSet(1 .. (i - 1)) /\ Cardinality(1 .. (i - 1)) = i - 1
    BY <2>1, FS_Interval
  <2>3. \A j \in 1 .. n : Precedes(s[j], s[i]) <=> j \in 1 .. (i - 1)
    <3>1. ASSUME NEW j \in 1 .. n PROVE Precedes(s[j], s[i]) <=> j < i
      BY <1>5, <1>6, PrecedesOrders
    <3> QED BY <2>1, <3>1
  <2> DEFINE b == [j \in 1 .. (i - 1) |-> s[j]]
  <2>4. b \in Bijection(1 .. (i - 1), Before(S, s[i]))
    <3>1. \A j \in 1 .. (i - 1) : b[j] \in Before(S, s[i])
      BY <1>6, <2>1, <2>3 DEF Before
    <3>2. \A j, k \in 1 .. (i - 1) : b[j] = b[k] => j = k
      BY <1>7, <2>1
    <3>3. \A d \in Before(S, s[i]) : \E j \in 1 .. (i - 1) : b[j] = d
      BY <1>11, <2>3 DEF Before
    <3> QED BY <3>1, <3>2, <3>3 DEF Bijection, Injection, Surjection, IsInjective
  <2>5. Cardinality(Before(S, s[i])) = i - 1
    BY <2>2, <2>4, FS_Bijection DEF ExistsBijection
  <2> QED BY <2>1, <2>5 DEF PlaceIn
<1>13. ASSUME NEW d \in S PROVE PlaceIn(S, d) \in 1 .. n /\ s[PlaceIn(S, d)] = d
  BY <1>11, <1>12
<1> QED BY <1>1, <1>2, <1>3, <1>4, <1>12, <1>13

-----------------------------------------------------------------------------
(***************************************************************************)
(* The inductive invariant.  Each counting job that main has waited for    *)
(* left the counts of its file, or failed and left nothing; the records on *)
(* the move add up to what the files of the job have; and once the third   *)
(* job reduces, a word still has the records of both jobs unless the       *)
(* combiner has added them to one.                                         *)
(***************************************************************************)
TypeOK ==
  /\ at \in {"start", "submit", "shuffle", "clean", "ended"}
  /\ job \in 1 .. 3
  /\ input \in [Files -> Texts]
  /\ DOMAIN records = Words /\ records = [w \in Words |-> records[w]]
  /\ \A w \in Words : IsCounts(records[w])
  /\ inter \in [Files -> [Words -> Nat] \cup {Absent}]
  /\ status \in {"running", "success", "failure", "thrown", "killed"}
  /\ runs \in Nat
  /\ failed \subseteq Files /\ merged \subseteq Words

Zeros == [w \in Words |-> 0]
Counted(f) == [w \in Words |-> Count(f, w)]

WaitedFor(f) ==
  \/ f \notin failed /\ inter[f] = Counted(f)
  \/ f \in failed /\ inter[f] \in {Absent, Zeros}

JobsInv ==
  /\ at = "start" => failed = {} /\ merged = {}
  /\ at \in {"submit", "shuffle"} =>
       /\ \A f \in failed : f < job
       /\ \A f \in Files : f < job => WaitedFor(f)
       /\ \A f \in Files : f >= job => inter[f] = Absent
       /\ job \in Files => merged = {}
  /\ at = "submit" => merged = {}
  /\ at = "shuffle" /\ job = Combined => \A f \in Files : inter[f] # Absent

(* The records of a word before the combiner sees them. *)
FromBoth(w) == [f \in {f \in Files : inter[f][w] > 0} |-> inter[f][w]]

Unmerged ==
  at = "shuffle" /\ job = Combined =>
    \A w \in Words :
      \/ w \notin merged /\ records[w] = FromBoth(w)
      \/ w \in merged /\ \E place \in Files : DOMAIN records[w] = {place}

Candidates == {w \in Words : CommonTo(w)} \ merged
RankOf(w) == Cardinality({v \in Candidates : Ahead(v, w)}) + 1
Listed == {w \in Candidates : RankOf(w) <= kValue}

(* What TopKOfCommonWords says of the output. *)
IsTopK(output) ==
  /\ Len(output) = Cardinality(Listed)
  /\ \A w \in Listed : output[RankOf(w)] = [word |-> w, count |-> SmallerCount(w)]

OutcomeInv ==
  /\ status = "thrown" => at = "ended" /\ (outputDir # Absent \/ failed # {})
  /\ status = "success" => at \in {"clean", "ended"} /\ (failed = {} => IsTopK(outputDir))

Inv == TypeOK /\ JobsInv /\ CountsConserved /\ Unmerged /\ OutcomeInv

-----------------------------------------------------------------------------
(* Counts are natural numbers. *)
LEMMA CountType ==
  ASSUME TypeOK, NEW f \in Files, NEW w \in Words
  PROVE  Count(f, w) \in Nat /\ input[f][w] \in Nat
BY TopkAssumption DEF TypeOK, Count

(* The smaller of two numbers. *)
LEMMA MinOfTwo ==
  ASSUME NEW a \in Nat, NEW b \in Nat
  PROVE  Min({a, b}) = IF a < b THEN a ELSE b
<1>1. PICK m : m = IF a < b THEN a ELSE b
  OBVIOUS
<1>2. m \in {a, b} /\ m \in Nat /\ \A y \in {a, b} : m =< y
  BY <1>1
<1>3. \A x \in {a, b} : (\A y \in {a, b} : x =< y) => x = m
  BY <1>2
<1> QED BY <1>1, <1>2, <1>3 DEF Min

(* The third job reduces, and neither of the others failed. *)
Reducing == at = "shuffle" /\ job = Combined /\ failed = {}

Entry(w) == [word |-> w, count |-> SmallerCount(w)]

(* A word that both files have has a record of each. *)
LEMMA FromBothFacts ==
  ASSUME TypeOK, JobsInv, Reducing, NEW w \in Words
  PROVE  /\ FromBoth(w) = [f \in {f \in Files : Count(f, w) > 0} |-> Count(f, w)]
         /\ Cardinality(DOMAIN FromBoth(w)) = 2 <=> CommonTo(w)
         /\ CommonTo(w) => Min(Range(FromBoth(w))) = SmallerCount(w)
<1>1. inter[1] = Counted(1) /\ inter[2] = Counted(2)
  BY DEF JobsInv, Reducing, WaitedFor, Files, Combined
<1>2. inter[1][w] = Count(1, w) /\ inter[2][w] = Count(2, w)
  BY <1>1 DEF Counted
<1>3. PICK c : c = FromBoth(w)
  OBVIOUS
<1>4. c = [f \in {f \in Files : Count(f, w) > 0} |-> Count(f, w)]
  BY <1>2, <1>3 DEF FromBoth, Files
<1>5. Count(1, w) \in Nat /\ Count(2, w) \in Nat
  BY CountType DEF Files
<1>6. IsFiniteSet({1}) /\ Cardinality({1}) = 1 /\ IsFiniteSet({2}) /\ Cardinality({2}) = 1
      /\ Cardinality({}) = 0
  BY FS_Singleton, FS_EmptySet
<1>7. Cardinality({1} \cup {2}) = 2
  BY <1>6, FS_AddElement
<1>8. CASE CommonTo(w)
  <2>1. DOMAIN c = {1} \cup {2} /\ Range(c) = {Count(1, w), Count(2, w)}
    BY <1>4, <1>8 DEF CommonTo, Files, Range
  <2> QED BY <1>3, <1>4, <1>5, <1>7, <1>8, <2>1, MinOfTwo DEF SmallerCount
<1>9. CASE ~ CommonTo(w)
  <2>1. DOMAIN c = {} \/ DOMAIN c = {1} \/ DOMAIN c = {2}
    BY <1>4, <1>9 DEF CommonTo, Files
  <2> QED BY <1>3, <1>4, <1>6, <1>9, <2>1
<1> QED BY <1>8, <1>9

(* TopKReducer lists the common words the combiner did not merge. *)
LEMMA CommonWordsFacts ==
  ASSUME TypeOK, JobsInv, Unmerged, Reducing
  PROVE  CommonWords = {Entry(w) : w \in Candidates}
<1>1. ASSUME NEW w \in Words
      PROVE  Cardinality(DOMAIN records[w]) = 2 <=> w \in Candidates
  <2>1. CASE w \notin merged
    <3>1. records[w] = FromBoth(w)
      BY <2>1 DEF Unmerged, Reducing
    <3> QED BY <2>1, <3>1, FromBothFacts DEF Candidates
  <2>2. CASE w \in merged
    <3>1. PICK place : DOMAIN records[w] = {place}
      BY <2>2 DEF Unmerged, Reducing
    <3>2. Cardinality({place}) = 1
      BY FS_Singleton
    <3> QED BY <2>2, <3>1, <3>2 DEF Candidates
  <2> QED BY <2>1, <2>2
<1>2. ASSUME NEW w \in Candidates
      PROVE  w \in Words /\ Min(Range(records[w])) = SmallerCount(w)
  <2>1. records[w] = FromBoth(w) /\ w \in Words /\ CommonTo(w)
    BY DEF Unmerged, Reducing, Candidates
  <2> QED BY <2>1, FromBothFacts
<1>3. {v \in Words : Cardinality(DOMAIN records[v]) = 2} = Candidates
  BY <1>1 DEF Candidates
<1>4. CommonWords = {[word |-> w, count |-> Min(Range(records[w]))] : w \in Candidates}
  BY <1>3 DEF CommonWords
<1> QED BY <1>2, <1>4 DEF Entry

(* Entries order as the words do. *)
LEMMA EntryFacts ==
  ASSUME TypeOK
  PROVE  /\ IsFiniteSet(Candidates) /\ Candidates \subseteq Words
         /\ \A w \in Words : w \in Nat /\ SmallerCount(w) \in Nat
                              /\ Entry(w).word = w /\ Entry(w).count = SmallerCount(w)
         /\ \A v, w \in Words : Entry(v) = Entry(w) => v = w
         /\ \A v, w \in Words : Ahead(v, w) <=> Precedes(Entry(v), Entry(w))
<1>1. IsFiniteSet(Candidates) /\ Candidates \subseteq Words
  <2>1. Candidates \in SUBSET Words
    BY DEF Candidates
  <2> QED BY <2>1, TopkAssumption, FS_Subset
<1>2. ASSUME NEW w \in Words
      PROVE  w \in Nat /\ SmallerCount(w) \in Nat
             /\ Entry(w).word = w /\ Entry(w).count = SmallerCount(w)
  <2>1. Count(1, w) \in Nat /\ Count(2, w) \in Nat
    BY CountType DEF Files
  <2> QED BY <2>1, TopkAssumption DEF SmallerCount, Entry
<1>3. ASSUME NEW v \in Words, NEW w \in Words, Entry(v) = Entry(w) PROVE v = w
  BY <1>2, <1>3
<1>4. ASSUME NEW v \in Words, NEW w \in Words
      PROVE  Ahead(v, w) <=> Precedes(Entry(v), Entry(w))
  BY <1>2 DEF Ahead, Precedes
<1> QED BY <1>1, <1>2, <1>3, <1>4

(* What it sorts are entries. *)
LEMMA CommonWordsAreEntries ==
  ASSUME TypeOK, JobsInv, Unmerged, Reducing
  PROVE  AreEntries(CommonWords)
<1> DEFINE e == [w \in Candidates |-> Entry(w)]
<1>1. PICK S : S = CommonWords
  OBVIOUS
<1>2. S = {Entry(w) : w \in Candidates}
  BY <1>1, CommonWordsFacts
<1>3. e \in Surjection(Candidates, S)
  BY <1>2 DEF Surjection
<1>4. IsFiniteSet(S)
  BY <1>3, EntryFacts, FS_Surjection
<1> HIDE DEF e
<1>5. \A d \in S : \E w \in Words : d = Entry(w) /\ d.word = w /\ w \in Nat /\ d.count \in Nat
  BY <1>2, EntryFacts
<1> QED BY <1>1, <1>4, <1>5 DEF AreEntries

(* A word's rank is its entry's place. *)
LEMMA RankIsPlace ==
  ASSUME TypeOK, JobsInv, Unmerged, Reducing, NEW w \in Candidates
  PROVE  RankOf(w) = PlaceIn(CommonWords, Entry(w))
<1> DEFINE V == {v \in Candidates : Ahead(v, w)}
           b == [v \in V |-> Entry(v)]
<1>1. PICK S : S = CommonWords
  OBVIOUS
<1>2. S = {Entry(v) : v \in Candidates}
  BY <1>1, CommonWordsFacts
<1>3. w \in Words /\ Candidates \subseteq Words
  BY EntryFacts
<1>4. \A v \in Candidates : v \in V <=> Entry(v) \in Before(S, Entry(w))
  BY <1>2, <1>3, EntryFacts DEF Before
<1>5. b \in Bijection(V, Before(S, Entry(w)))
  <2>1. \A v \in V : b[v] \in Before(S, Entry(w))
    BY <1>4
  <2>2. \A u, v \in V : b[u] = b[v] => u = v
    BY <1>3, EntryFacts
  <2>3. \A d \in Before(S, Entry(w)) : \E v \in V : b[v] = d
    BY <1>2, <1>4 DEF Before
  <2> QED BY <2>1, <2>2, <2>3 DEF Bijection, Injection, Surjection, IsInjective
<1>6. IsFiniteSet(V)
  <2>1. V \in SUBSET Candidates
    OBVIOUS
  <2> QED BY <2>1, EntryFacts, FS_Subset
<1>7. Cardinality(Before(S, Entry(w))) = Cardinality(V)
  BY <1>5, <1>6, FS_Bijection DEF ExistsBijection
<1> QED BY <1>1, <1>7 DEF RankOf, PlaceIn

(* The list that ReduceCommon writes is the one that TopKOfCommonWords asks for. *)
LEMMA ListIsTopK ==
  ASSUME TypeOK, JobsInv, Unmerged, Reducing, NEW sorted, sorted = Sorted(CommonWords)
  PROVE  IsTopK(SubSeq(sorted, 1, IF Len(sorted) < kValue THEN Len(sorted) ELSE kValue))
<1>1. PICK S : S = CommonWords
  OBVIOUS
<1>2. AreEntries(S) /\ S = {Entry(w) : w \in Candidates}
  BY <1>1, CommonWordsAreEntries, CommonWordsFacts
<1>3. PICK n : n = Cardinality(S)
  OBVIOUS
<1>4. /\ n \in Nat /\ sorted \in [1 .. n -> S]
      /\ \A d \in S : PlaceIn(S, d) \in 1 .. n /\ sorted[PlaceIn(S, d)] = d
      /\ \A i \in 1 .. n : PlaceIn(S, sorted[i]) = i
  BY <1>1, <1>2, <1>3, SortedFacts
<1>5. sorted \in Seq(S) /\ Len(sorted) = n
  <2>1. sorted \in Seq(S)
    BY <1>4, SeqDef
  <2> QED BY <1>4, <2>1, LenProperties
<1>6. PICK m : m = IF Len(sorted) < kValue THEN Len(sorted) ELSE kValue
  OBVIOUS
<1>7. m \in Nat /\ m <= n /\ \A i \in 1 .. n : i <= kValue <=> i \in 1 .. m
  BY <1>4, <1>5, <1>6, TopkAssumption
<1>8. PICK output : output = SubSeq(sorted, 1, m)
  OBVIOUS
<1>9. Len(output) = m /\ \A i \in 1 .. m : output[i] = sorted[i]
  <2>1. output \in Seq(S) /\ Len(output) = (IF 1 <= m THEN m - 1 + 1 ELSE 0)
        /\ \A i \in 1 .. m - 1 + 1 : output[i] = sorted[1 + i - 1]
    BY <1>5, <1>7, <1>8, SubSeqProperties
  <2> QED BY <1>7, <2>1
<1>10. \A w \in Candidates :
         RankOf(w) \in 1 .. n /\ sorted[RankOf(w)] = Entry(w)
  <2>1. ASSUME NEW w \in Candidates PROVE RankOf(w) = PlaceIn(S, Entry(w)) /\ Entry(w) \in S
    BY <1>1, <1>2, RankIsPlace
  <2> QED BY <1>4, <2>1
<1>11. \A i \in 1 .. n : \E w \in Candidates : RankOf(w) = i
  <2>1. ASSUME NEW i \in 1 .. n PROVE \E w \in Candidates : RankOf(w) = i
    <3>1. sorted[i] \in S /\ PlaceIn(S, sorted[i]) = i
      BY <1>4
    <3>2. PICK w \in Candidates : sorted[i] = Entry(w)
      BY <1>2, <3>1
    <3>3. RankOf(w) = PlaceIn(S, Entry(w))
      BY <1>1, RankIsPlace
    <3> QED BY <3>1, <3>2, <3>3
  <2> QED BY <2>1
<1>12. \A w \in Listed : w \in Candidates /\ RankOf(w) \in 1 .. m
  BY <1>7, <1>10 DEF Listed
<1> DEFINE r == [w \in Listed |-> RankOf(w)]
<1>13. r \in Bijection(Listed, 1 .. m)
  <2>1. \A w \in Listed : r[w] \in 1 .. m
    BY <1>12
  <2>2. \A v, w \in Listed : r[v] = r[w] => v = w
    BY <1>10, <1>12, EntryFacts
  <2>3. \A i \in 1 .. m : \E w \in Listed : r[w] = i
    <3>1. ASSUME NEW i \in 1 .. m PROVE \E w \in Listed : RankOf(w) = i
      <4>1. i \in 1 .. n
        BY <1>4, <1>7
      <4>2. i <= kValue
        BY <1>7, <4>1
      <4> QED BY <1>11, <4>1, <4>2 DEF Listed
    <3> QED BY <3>1
  <2> QED BY <2>1, <2>2, <2>3 DEF Bijection, Injection, Surjection, IsInjective
<1>14. IsFiniteSet(Listed)
  <2>1. Listed \in SUBSET Candidates
    BY DEF Listed
  <2> QED BY <2>1, EntryFacts, FS_Subset
<1>15. IsFiniteSet(1 .. m) /\ Cardinality(1 .. m) = m
  BY <1>7, FS_Interval
<1>16. Cardinality(Listed) = m
  BY <1>13, <1>14, <1>15, FS_Bijection DEF ExistsBijection
<1>17. \A w \in Listed : output[RankOf(w)] = Entry(w)
  BY <1>9, <1>10, <1>12
<1> QED BY <1>6, <1>8, <1>9, <1>16, <1>17 DEF IsTopK, Entry

-----------------------------------------------------------------------------
(* Nothing has run yet. *)
LEMMA InitInv == Init => Inv
<1> SUFFICES ASSUME Init PROVE Inv
  OBVIOUS
<1>1. ASSUME NEW w \in Words PROVE IsCounts(records[w])
  <2>1. DOMAIN records[w] = {}
    BY DEF Init, NoRecords
  <2> QED BY <2>1, FS_EmptySet DEF IsCounts
<1>2. TypeOK
  BY <1>1 DEF Init, TypeOK, NoRecords
<1>3. JobsInv /\ CountsConserved /\ Unmerged /\ OutcomeInv
  BY DEF Init, JobsInv, CountsConserved, Unmerged, OutcomeInv
<1> QED BY <1>2, <1>3 DEF Inv

(* The properties of the records, of steps that leave none on the move. *)
LEMMA NoneOnTheMove ==
  ASSUME TypeOK, at' # "shuffle", records' = NoRecords
  PROVE  CountsConserved' /\ Unmerged' /\ DOMAIN records' = Words
         /\ records' = [w \in Words |-> records'[w]]
         /\ \A w \in Words : IsCounts(records[w])'
<1>1. ASSUME NEW w \in Words PROVE IsCounts(records[w])'
  <2>1. DOMAIN records'[w] = {}
    BY DEF NoRecords
  <2> QED BY <2>1, FS_EmptySet DEF IsCounts
<1> QED BY <1>1 DEF NoRecords, CountsConserved, Unmerged

(* main deletes the intermediate directories. *)
LEMMA StartInv == Inv /\ Start => Inv'
<1> SUFFICES ASSUME Inv, Start PROVE Inv'
  OBVIOUS
<1> USE DEF Inv, Start, data
<1>1. TypeOK'
  BY DEF TypeOK, Deleted
<1>2. JobsInv'
  BY DEF JobsInv, Deleted, Files, TypeOK
<1>3. CountsConserved' /\ Unmerged' /\ OutcomeInv'
  BY DEF CountsConserved, Unmerged, OutcomeInv
<1> QED BY <1>1, <1>2, <1>3

(* A counting job is submitted, or refused. *)
LEMMA SubmitCountInv == Inv /\ SubmitCount => Inv'
<1> SUFFICES ASSUME Inv, SubmitCount PROVE Inv'
  OBVIOUS
<1>1. inter[job] = Absent /\ job \in Files /\ at = "submit" /\ job \in Nat
  BY DEF SubmitCount, Inv, JobsInv, Files
<1> DEFINE emitted == [w \in Words |-> IF w \in Skipped THEN <<>> ELSE Ones(input[job][w])]
<1>2. MapTo(emitted)
  BY <1>1 DEF SubmitCount
<1>3. at' = "shuffle" /\ records' = emitted
      /\ UNCHANGED <<job, inter, outputDir, status, merged, input, runs, failed>>
  BY <1>2 DEF MapTo, data
<1>4. ASSUME NEW w \in Words
      PROVE  IsCounts(emitted[w]) /\ Sum(emitted[w]) = Count(job, w)
  <2>1. CASE w \in Skipped
    <3>1. DOMAIN emitted[w] = {}
      BY <2>1
    <3>2. Sum(emitted[w]) = 0 /\ IsCounts(emitted[w])
      BY <3>1, SumOfNone, FS_EmptySet DEF IsCounts
    <3> QED BY <2>1, <3>2 DEF Count
  <2>2. CASE w \notin Skipped
    <3>1. emitted[w] = Ones(input[job][w]) /\ input[job][w] \in Nat
      BY <1>1, <2>2, CountType DEF Inv
    <3> QED BY <2>2, <3>1, SumOfOnes DEF Count
  <2> QED BY <2>1, <2>2
<1>5. TypeOK'
  BY <1>3, <1>4 DEF Inv, TypeOK
<1>6. JobsInv'
  BY <1>1, <1>3 DEF Inv, JobsInv, WaitedFor, Counted, Count, Files, Combined
<1>7. CountsConserved'
  <2>1. ASSUME NEW w \in Words
        PROVE  Sum(emitted[w]) = CountInJob(1, w) + CountInJob(2, w)
    <3>1. job \notin failed
      BY <1>1 DEF Inv, JobsInv, Files
    <3>2. Count(job, w) \in Nat
      BY <1>1, CountType DEF Inv
    <3> QED BY <1>1, <1>4, <3>1, <3>2 DEF CountInJob, Files, Combined
  <2> QED BY <1>3, <2>1 DEF CountsConserved, CountInJob, Count
<1>8. Unmerged' /\ OutcomeInv'
  BY <1>1, <1>3 DEF Inv, Unmerged, OutcomeInv, Files, Combined
<1> QED BY <1>5, <1>6, <1>7, <1>8 DEF Inv

(* The records of a word add up to its count in both files. *)
LEMMA FromBothSum ==
  ASSUME NEW w \in Words, \A f \in Files : inter[f][w] \in Nat
  PROVE  IsCounts(FromBoth(w)) /\ Sum(FromBoth(w)) = inter[1][w] + inter[2][w]
<1>1. PICK c : c = FromBoth(w)
  OBVIOUS
<1>2. PICK a, b : a = inter[1][w] /\ b = inter[2][w]
  OBVIOUS
<1>3. a \in Nat /\ b \in Nat
  BY <1>2 DEF Files
<1>4. /\ DOMAIN c \subseteq {1, 2}
      /\ 1 \in DOMAIN c <=> a > 0
      /\ 2 \in DOMAIN c <=> b > 0
      /\ 1 \in DOMAIN c => c[1] = a
      /\ 2 \in DOMAIN c => c[2] = b
  BY <1>1, <1>2 DEF FromBoth, Files
<1>5. IsCounts(c)
  <2>1. IsFiniteSet({1} \cup {2})
    BY FS_Singleton, FS_AddElement
  <2>2. DOMAIN c \in SUBSET ({1} \cup {2})
    BY <1>4
  <2>3. IsFiniteSet(DOMAIN c)
    BY <2>1, <2>2, FS_Subset
  <2>4. \A x \in DOMAIN c : c[x] \in Nat
    BY <1>3, <1>4
  <2> QED BY <2>3, <2>4 DEF IsCounts
<1>6. CASE a > 0 /\ b > 0
  <2>1. DOMAIN c = {1, 2} /\ c[1] = a /\ c[2] = b
    BY <1>4, <1>6
  <2> QED BY <1>1, <1>2, <1>3, <1>5, <2>1, SumOfTwo
<1>7. CASE a > 0 /\ b = 0
  <2>1. DOMAIN c = {1} /\ c[1] = a
    BY <1>4, <1>7
  <2> QED BY <1>1, <1>2, <1>3, <1>5, <1>7, <2>1, SumOfOne
<1>8. CASE a = 0 /\ b > 0
  <2>1. DOMAIN c = {2} /\ c[2] = b
    BY <1>4, <1>8
  <2> QED BY <1>1, <1>2, <1>3, <1>5, <1>8, <2>1, SumOfOne
<1>9. CASE a = 0 /\ b = 0
  <2>1. DOMAIN c = {}
    BY <1>4, <1>9
  <2> QED BY <1>1, <1>2, <1>3, <1>5, <1>9, <2>1, SumOfNone
<1> QED BY <1>3, <1>6, <1>7, <1>8, <1>9

(* The third job is submitted, or refused. *)
LEMMA SubmitCombinedInv == Inv /\ SubmitCombined => Inv'
<1> SUFFICES ASSUME Inv, SubmitCombined PROVE Inv'
  OBVIOUS
<1>1. at = "submit" /\ job = 3 /\ merged = {} /\ \A f \in Files : WaitedFor(f)
  BY DEF SubmitCombined, Inv, JobsInv, Files, Combined
<1>2. CASE MissingInput \/ outputDir # Absent
  <2>1. Throw
    BY <1>2 DEF SubmitCombined
  <2>2. outputDir # Absent \/ failed # {}
    <3>1. ASSUME NEW f \in Files, inter[f] = Absent PROVE f \in failed
      <4>1. Counted(f) \in [Words -> Nat]
        BY CountType DEF Counted, Inv
      <4> QED BY <1>1, <3>1, <4>1, TopkAssumption DEF WaitedFor
    <3> QED BY <1>2, <3>1 DEF MissingInput
  <2>3. TypeOK' /\ JobsInv'
    BY <1>1, <2>1 DEF Throw, Inv, TypeOK, JobsInv, data
  <2>4. CountsConserved' /\ Unmerged' /\ OutcomeInv'
    BY <2>1, <2>2 DEF Throw, data, CountsConserved, Unmerged, OutcomeInv
  <2> QED BY <2>3, <2>4 DEF Inv
<1>3. CASE ~ (MissingInput \/ outputDir # Absent)
  <2> DEFINE emitted == [w \in Words |-> FromBoth(w)]
  <2>1. MapTo(emitted)
    BY <1>3 DEF SubmitCombined, FromBoth
  <2>2. at' = "shuffle" /\ records' = emitted
        /\ UNCHANGED <<job, inter, outputDir, status, merged, input, runs, failed>>
    BY <2>1 DEF MapTo, data
  <2>3. \A f \in Files : inter[f] # Absent /\ inter[f] \in [Words -> Nat]
    BY <1>3 DEF MissingInput, Inv, TypeOK
  <2>4. ASSUME NEW w \in Words
        PROVE  /\ IsCounts(emitted[w]) /\ Sum(emitted[w]) = inter[1][w] + inter[2][w]
               /\ inter[1][w] = CountInJob(1, w) /\ inter[2][w] = CountInJob(2, w)
    <3>1. \A f \in Files : inter[f][w] \in Nat
      BY <2>3
    <3>2. ASSUME NEW f \in Files PROVE inter[f][w] = CountInJob(f, w)
      BY <1>1, <2>3 DEF WaitedFor, CountInJob, Counted, Zeros, Combined
    <3>3. IsCounts(FromBoth(w)) /\ Sum(FromBoth(w)) = inter[1][w] + inter[2][w]
      BY <3>1, FromBothSum
    <3> QED BY <3>2, <3>3 DEF Files
  <2>5. TypeOK'
    BY <2>2, <2>4 DEF Inv, TypeOK
  <2>6. JobsInv'
    BY <1>1, <2>2, <2>3 DEF Inv, JobsInv, WaitedFor, Counted, Count
  <2>7. CountsConserved'
    BY <2>2, <2>4 DEF CountsConserved, CountInJob, Count
  <2>8. Unmerged'
    BY <1>1, <2>2 DEF Unmerged, FromBoth
  <2>9. OutcomeInv'
    BY <1>1, <2>2 DEF Inv, OutcomeInv
  <2> QED BY <2>5, <2>6, <2>7, <2>8, <2>9 DEF Inv
<1> QED BY <1>2, <1>3

(* The combiner adds up a group of records of a word. *)
LEMMA CombineInv ==
  ASSUME Inv, NEW w \in Words, Combine(w)
  PROVE  Inv'
<1> DEFINE c == records[w]
<1>1. PICK group \in SUBSET DOMAIN c :
        /\ Cardinality(group) > 1
        /\ records' = [records EXCEPT ![w] = Grouped(c, group)]
  BY DEF Combine
<1>2. at = "shuffle" /\ UNCHANGED <<at, job, inter, outputDir, status, input, runs, failed>>
      /\ merged' = IF job = Combined THEN merged \cup {w} ELSE merged
  BY DEF Combine, data
<1>3. IsCounts(c) /\ DOMAIN records = Words
  BY DEF Inv, TypeOK
<1>4. PICK d : d = Grouped(c, group)
  OBVIOUS
<1>5. /\ IsCounts(d) /\ Sum(d) = Sum(c)
      /\ \E place \in group : DOMAIN d = (DOMAIN c \ group) \cup {place}
  BY <1>1, <1>3, <1>4, GroupedFacts
<1>6. records' = [records EXCEPT ![w] = d]
  BY <1>1, <1>4
<1>7. DOMAIN records' = Words /\ records' = [v \in Words |-> records'[v]]
      /\ records'[w] = d /\ \A v \in Words \ {w} : records'[v] = records[v]
  BY <1>3, <1>6
<1>8. TypeOK'
  <2>1. \A v \in Words : IsCounts(records'[v])
    BY <1>5, <1>7 DEF Inv, TypeOK
  <2> QED BY <1>2, <1>7, <2>1 DEF Inv, TypeOK
<1>9. JobsInv'
  BY <1>2 DEF Inv, JobsInv, WaitedFor, Counted, Count, Files, Combined
<1>10. CountsConserved'
  <2>1. ASSUME NEW v \in Words
        PROVE  Sum(records'[v]) = CountInJob(1, v) + CountInJob(2, v)
    BY <1>2, <1>5, <1>7 DEF Inv, CountsConserved
  <2> QED BY <1>2, <2>1 DEF CountsConserved, CountInJob, Count
<1>11. Unmerged'
  <2> SUFFICES ASSUME job = Combined, NEW v \in Words
               PROVE  \/ v \notin merged' /\ records'[v] = FromBoth(v)
                      \/ v \in merged' /\ \E place \in Files : DOMAIN records'[v] = {place}
    BY <1>2 DEF Unmerged, FromBoth
  <2>1. CASE v # w
    BY <1>2, <1>7, <2>1 DEF Inv, Unmerged
  <2>2. CASE v = w
    <3>1. DOMAIN c \subseteq Files
      BY <1>2 DEF Inv, Unmerged, FromBoth
    <3>2. group = {1, 2} /\ DOMAIN c = {1, 2}
      <4>1. Cardinality({}) = 0 /\ Cardinality({1}) = 1 /\ Cardinality({2}) = 1
        BY FS_EmptySet, FS_Singleton
      <4>2. group = {} \/ group = {1} \/ group = {2} \/ group = {1, 2}
        BY <3>1 DEF Files
      <4> QED BY <1>1, <3>1, <4>1, <4>2 DEF Files
    <3>3. \E place \in Files : DOMAIN d = {place}
      BY <1>5, <3>2 DEF Files
    <3> QED BY <1>2, <1>7, <2>2, <3>3
  <2> QED BY <2>1, <2>2
<1>12. OutcomeInv'
  BY <1>2 DEF Inv, OutcomeInv
<1> QED BY <1>8, <1>9, <1>10, <1>11, <1>12 DEF Inv

(* What main does after a counting job, whatever it left in its directory. *)
LEMMA NextJobInv ==
  ASSUME Inv, at = "shuffle", job \in Files, NextJob,
         NEW left, inter' = [inter EXCEPT ![job] = left],
         \/ left = Counted(job) /\ failed' = failed
         \/ left \in {Absent, Zeros} /\ failed' = failed \cup {job}
  PROVE  Inv'
<1>1. /\ at' = "submit" /\ job' = job + 1 /\ records' = NoRecords
      /\ UNCHANGED <<outputDir, status, merged, input, runs>>
  BY DEF NextJob
<1>2. TypeOK
  BY DEF Inv
<1>3. CountsConserved' /\ Unmerged' /\ DOMAIN records' = Words
      /\ records' = [w \in Words |-> records'[w]]
      /\ \A w \in Words : IsCounts(records'[w])
  BY <1>1, <1>2, NoneOnTheMove
<1>4. left \in [Words -> Nat] \cup {Absent}
  BY CountType, <1>2 DEF Counted, Zeros
<1>5. TypeOK'
  BY <1>1, <1>2, <1>3, <1>4 DEF TypeOK, Files
<1>6. JobsInv'
  <2>1. job \in Nat /\ (\A f \in failed : f < job) /\ merged = {}
    BY DEF Inv, JobsInv, Files
  <2>2. \A f \in failed' : f < job'
    BY <1>1, <1>2, <2>1 DEF TypeOK, Files
  <2>3. ASSUME NEW f \in Files, f < job' PROVE WaitedFor(f)'
    <3>1. CASE f = job
      <4>1. inter'[f] = left
        BY <3>1, <1>2 DEF TypeOK
      <4>2. f \notin failed
        BY <2>1, <3>1
      <4> QED BY <1>1, <3>1, <4>1, <4>2 DEF WaitedFor, Counted, Count, Zeros
    <3>2. CASE f # job
      <4>1. f < job /\ inter'[f] = inter[f] /\ (f \in failed' <=> f \in failed)
        BY <1>1, <1>2, <2>1, <2>3, <3>2 DEF TypeOK, Files
      <4>2. WaitedFor(f)
        BY <4>1 DEF Inv, JobsInv
      <4> QED BY <1>1, <4>1, <4>2 DEF WaitedFor, Counted, Count, Zeros
    <3> QED BY <3>1, <3>2
  <2>4. ASSUME NEW f \in Files, f >= job' PROVE inter'[f] = Absent
    BY <1>1, <1>2, <2>4 DEF Inv, JobsInv, TypeOK, Files
  <2> QED BY <1>1, <2>1, <2>2, <2>3, <2>4 DEF JobsInv
<1>7. OutcomeInv'
  BY <1>1 DEF Inv, OutcomeInv
<1> QED BY <1>3, <1>5, <1>6, <1>7 DEF Inv

(* A counting job ends well. *)
LEMMA ReduceCountsInv == Inv /\ ReduceCounts => Inv'
<1> SUFFICES ASSUME Inv, ReduceCounts PROVE Inv'
  OBVIOUS
<1>1. at = "shuffle" /\ job \in Files /\ NextJob /\ failed' = failed
      /\ inter' = [inter EXCEPT ![job] = [w \in Words |-> Sum(records[w])]]
  BY DEF ReduceCounts
<1>2. ASSUME NEW w \in Words PROVE Sum(records[w]) = Count(job, w)
  <2>1. job \notin failed
    BY <1>1 DEF Inv, JobsInv, Files
  <2>2. Count(job, w) \in Nat
    BY <1>1, CountType DEF Inv
  <2> QED BY <1>1, <2>1, <2>2 DEF Inv, CountsConserved, CountInJob, Files, Combined
<1>3. [w \in Words |-> Sum(records[w])] = Counted(job)
  BY <1>2 DEF Counted
<1> QED BY <1>1, <1>3, NextJobInv

(* A counting job fails. *)
LEMMA CountingFailsInv == Inv /\ CountingFails => Inv'
<1> SUFFICES ASSUME Inv, CountingFails PROVE Inv'
  OBVIOUS
<1>1. PICK left \in {Absent, Zeros} : inter' = [inter EXCEPT ![job] = left]
  BY DEF CountingFails, Zeros
<1>2. at = "shuffle" /\ job \in Files /\ NextJob /\ failed' = failed \cup {job}
  BY DEF CountingFails
<1> QED BY <1>1, <1>2, NextJobInv

(* What the list must be depends on the files and the merged words only. *)
LEMMA TopKStays ==
  ASSUME UNCHANGED <<input, merged>>, NEW output, IsTopK(output), outputDir' = output
  PROVE  IsTopK(outputDir)'
<1>1. ASSUME NEW f, NEW w PROVE Count(f, w)' = Count(f, w)
  BY DEF Count
<1>2. ASSUME NEW w PROVE SmallerCount(w)' = SmallerCount(w)
  BY <1>1 DEF SmallerCount
<1>3. ASSUME NEW w PROVE CommonTo(w)' <=> CommonTo(w)
  BY <1>1 DEF CommonTo
<1>4. Candidates' = Candidates
  BY <1>3 DEF Candidates
<1>5. ASSUME NEW v, NEW w PROVE Ahead(v, w)' <=> Ahead(v, w)
  BY <1>2 DEF Ahead
<1>6. ASSUME NEW w PROVE RankOf(w)' = RankOf(w)
  <2>1. {v \in Candidates : Ahead(v, w)}' = {v \in Candidates : Ahead(v, w)}
    BY <1>4, <1>5
  <2> QED BY <2>1 DEF RankOf
<1>7. Listed' = Listed
  BY <1>4, <1>6 DEF Listed
<1> QED BY <1>2, <1>6, <1>7 DEF IsTopK

(* What main does after the third job, whatever that job reports. *)
LEMMA AfterCombinedInv ==
  ASSUME Inv, NEW output, NEW outcome, AfterCombined(output, outcome),
         \/ outcome = "failure"
         \/ outcome = "success" /\ (failed = {} => IsTopK(output))
  PROVE  Inv'
<1>1. /\ at = "shuffle" /\ job = Combined
      /\ at' = "clean" /\ outputDir' = output /\ status' = outcome
      /\ UNCHANGED <<job, records, inter, merged, input, runs, failed>>
  BY DEF AfterCombined, data
<1>2. TypeOK'
  BY <1>1 DEF Inv, TypeOK
<1>3. JobsInv' /\ CountsConserved' /\ Unmerged'
  BY <1>1 DEF JobsInv, CountsConserved, Unmerged
<1>4. IsTopK(output) => IsTopK(outputDir)'
  BY <1>1, TopKStays
<1>5. OutcomeInv'
  BY <1>1, <1>4 DEF OutcomeInv
<1> QED BY <1>2, <1>3, <1>5 DEF Inv

(* The third job ends well. *)
LEMMA ReduceCommonInv == Inv /\ ReduceCommon => Inv'
<1> SUFFICES ASSUME Inv, ReduceCommon PROVE Inv'
  OBVIOUS
<1>1. PICK sorted : sorted = Sorted(CommonWords)
  OBVIOUS
<1>2. PICK output : output = SubSeq(sorted, 1, IF Len(sorted) < kValue THEN Len(sorted) ELSE kValue)
  OBVIOUS
<1>3. AfterCombined(output, "success")
  BY <1>1, <1>2 DEF ReduceCommon
<1>4. failed = {} => IsTopK(output)
  BY <1>1, <1>2, <1>3, ListIsTopK DEF Inv, Reducing, AfterCombined
<1> QED BY <1>3, <1>4, AfterCombinedInv

(* The third job fails. *)
LEMMA CombinedFailsInv == Inv /\ CombinedFails => Inv'
BY AfterCombinedInv DEF CombinedFails

(* main deletes the intermediate directories at its end. *)
LEMMA CleanInv == Inv /\ Clean => Inv'
<1> SUFFICES ASSUME Inv, Clean PROVE Inv'
  OBVIOUS
<1>1. /\ at = "clean" /\ at' = "ended" /\ inter' = Deleted(inter) /\ records' = NoRecords
      /\ UNCHANGED <<job, outputDir, status, merged, input, runs, failed>>
  BY DEF Clean, data
<1>2. CountsConserved' /\ Unmerged' /\ DOMAIN records' = Words
      /\ records' = [w \in Words |-> records'[w]]
      /\ \A w \in Words : IsCounts(records'[w])
  BY <1>1, NoneOnTheMove DEF Inv
<1>3. TypeOK'
  BY <1>1, <1>2 DEF Inv, TypeOK, Deleted
<1>4. JobsInv'
  BY <1>1 DEF JobsInv
<1>5. IsTopK(outputDir) => IsTopK(outputDir)'
  <2>1. PICK output : output = outputDir
    OBVIOUS
  <2> QED BY <1>1, <2>1, TopKStays
<1>6. OutcomeInv'
  BY <1>1, <1>5 DEF Inv, OutcomeInv
<1> QED BY <1>2, <1>3, <1>4, <1>6 DEF Inv

(* A run is killed, at any point. *)
LEMMA KilledInv == Inv /\ Killed => Inv'
<1> SUFFICES ASSUME Inv, Killed PROVE Inv'
  OBVIOUS
<1>1. /\ at' = "ended" /\ status' = "killed" /\ records' = NoRecords
      /\ UNCHANGED <<job, inter, merged, input, runs, failed>>
  BY DEF Killed, data
<1>2. CountsConserved' /\ Unmerged' /\ DOMAIN records' = Words
      /\ records' = [w \in Words |-> records'[w]]
      /\ \A w \in Words : IsCounts(records'[w])
  BY <1>1, NoneOnTheMove DEF Inv
<1>3. TypeOK'
  BY <1>1, <1>2 DEF Inv, TypeOK
<1>4. JobsInv' /\ OutcomeInv'
  BY <1>1 DEF JobsInv, OutcomeInv
<1> QED BY <1>2, <1>3, <1>4 DEF Inv

(* Another run, with other files. *)
LEMMA AgainInv == Inv /\ Again => Inv'
<1> SUFFICES ASSUME Inv, Again PROVE Inv'
  OBVIOUS
<1>1. /\ at' = "start" /\ status' = "running" /\ runs' = runs + 1 /\ records' = NoRecords
      /\ input' \in [Files -> Texts] /\ failed' = {} /\ merged' = {}
      /\ UNCHANGED <<job, inter>>
  BY DEF Again
<1>2. CountsConserved' /\ Unmerged' /\ DOMAIN records' = Words
      /\ records' = [w \in Words |-> records'[w]]
      /\ \A w \in Words : IsCounts(records'[w])
  BY <1>1, NoneOnTheMove DEF Inv
<1>3. TypeOK'
  BY <1>1, <1>2 DEF Inv, TypeOK
<1>4. JobsInv' /\ OutcomeInv'
  BY <1>1 DEF JobsInv, OutcomeInv
<1> QED BY <1>2, <1>3, <1>4 DEF Inv

(* Nothing happens. *)
LEMMA StutterInv == Inv /\ UNCHANGED vars => Inv'
<1> SUFFICES ASSUME Inv, UNCHANGED vars PROVE Inv'
  OBVIOUS
<1>1. UNCHANGED <<at, job, records, inter, outputDir, status, merged, input, runs, failed>>
  BY DEF vars, data
<1>2. TypeOK'
  BY <1>1 DEF Inv, TypeOK
<1>3. JobsInv'
  BY <1>1 DEF Inv, JobsInv, WaitedFor, Counted, Count
<1>4. CountsConserved' /\ Unmerged'
  BY <1>1 DEF Inv, CountsConserved, CountInJob, Count, Unmerged, FromBoth
<1>5. IsTopK(outputDir) => IsTopK(outputDir)'
  <2>1. PICK output : output = outputDir
    OBVIOUS
  <2> QED BY <1>1, <2>1, TopKStays
<1>6. OutcomeInv'
  BY <1>1, <1>5 DEF Inv, OutcomeInv
<1> QED BY <1>2, <1>3, <1>4, <1>6 DEF Inv

(* Every step keeps the invariant. *)
LEMMA StepInv == Inv /\ [Next]_vars => Inv'
<1> SUFFICES ASSUME Inv, [Next]_vars PROVE Inv'
  OBVIOUS
<1>1. CASE Main
  BY <1>1, StartInv, SubmitCountInv, SubmitCombinedInv, ReduceCountsInv, ReduceCommonInv,
     CleanInv DEF Main
<1>2. CASE CountingFails \/ CombinedFails \/ Killed \/ Again
  BY <1>2, CountingFailsInv, CombinedFailsInv, KilledInv, AgainInv
<1>3. ASSUME NEW w \in Words, Combine(w) PROVE Inv'
  BY <1>3, CombineInv
<1>4. CASE UNCHANGED vars
  BY <1>4, StutterInv
<1> QED BY <1>1, <1>2, <1>3, <1>4 DEF Next

(* The invariant holds in every state. *)
LEMMA InvariantHolds == Spec => []Inv
<1> QED BY InitInv, StepInv, PTL DEF Spec

(***************************************************************************)
(* However often and on whichever records the combiner of the jobs runs,   *)
(* the records of a word add up to what the files of the job have of it,   *)
(* for any texts over any finite set of words.                             *)
(***************************************************************************)
THEOREM CountsAreConserved == Spec => []CountsConserved
<1>1. Inv => CountsConserved
  BY DEF Inv
<1> QED BY <1>1, InvariantHolds, PTL

(***************************************************************************)
(* TopKReducer writes the k best common words in order, but for those the  *)
(* combiner merged, whenever a run reports success and no job of it failed,*)
(* whatever earlier runs left behind.                                      *)
(***************************************************************************)
THEOREM BestWordsWritten == Spec => []TopKOfCommonWords
<1>1. Inv => TopKOfCommonWords
  BY DEF Inv, OutcomeInv, TopKOfCommonWords, IsTopK, Listed, RankOf, Candidates
<1> QED BY <1>1, InvariantHolds, PTL

(***************************************************************************)
(* What a killed or failed run left does not make Hadoop refuse a job of a *)
(* later one: main has deleted it.                                         *)
(***************************************************************************)
THEOREM LeftoversAreHarmless == Spec => []LeftoversDoNotStopIt
<1>1. Inv => LeftoversDoNotStopIt
  BY DEF Inv, OutcomeInv, LeftoversDoNotStopIt
<1> QED BY <1>1, InvariantHolds, PTL
=============================================================================
