--------------------------- MODULE Workspace_space ---------------------------
(***************************************************************************)
(* Proofs about the storage of Workspace: that total_size is the sum of    *)
(* what the workspaces have (Accounted), that a refusal finds nothing idle *)
(* to give up (RefusedOnlyWhenFull) and that storage is given up in the    *)
(* order of the idle list (GivesUpOldestFirst).                            *)
(*                                                                         *)
(* The first part is about sums.  Space is a recursive function over the   *)
(* subsets of the set it sums up; that there is such a function, that the  *)
(* order of summing is of no consequence, and what follows from these, is  *)
(* proved by the induction of module Induction.                            *)
(***************************************************************************)
EXTENDS Workspace_proofs, Induction

-----------------------------------------------------------------------------
(* Sums of sizes *)

SizeOf(r) == IF r.ws_ptr THEN r.cur_size ELSE 0

\* The element a sum takes out of a set first.
First(s) == CHOOSE x \in s : TRUE

\* A sum of sizes over the subsets of S, by the equation that defines it.
SumsUp(ws, D, g) ==
  g = [s \in D |-> IF s = {} THEN 0 ELSE SizeOf(ws[First(s)]) + g[s \ {First(s)}]]

LEMMA SumExists ==
  ASSUME NEW ws, NEW S, IsFiniteSet(S)
  PROVE  \E g : SumsUp(ws, SUBSET S, g)
<1> DEFINE Small(n) == {s \in SUBSET S : Cardinality(s) <= n}
           P == {n \in Nat : \E g : SumsUp(ws, Small(n), g)}
<1>1. \A s \in SUBSET S : IsFiniteSet(s) /\ Cardinality(s) \in Nat /\ Cardinality(s) <= Cardinality(S)
  BY FS_Subset, FS_CardinalityType
<1>2. \A s \in SUBSET S : s # {} => First(s) \in s
  BY DEF First
<1>3. \A s \in SUBSET S : s # {} => Cardinality(s \ {First(s)}) = Cardinality(s) - 1
  BY <1>1, <1>2, FS_RemoveElement
<1>4. 0 \in P
  <2> DEFINE g == [s \in Small(0) |-> 0]
  <2>1. \A s \in Small(0) : s = {}
    BY <1>1, FS_EmptySet
  <2>2. SumsUp(ws, Small(0), g)
    BY <2>1 DEF SumsUp
  <2> QED BY <2>2
<1>5. ASSUME NEW n \in Nat, n \in P PROVE n + 1 \in P
  <2>1. PICK g : SumsUp(ws, Small(n), g)
    BY <1>5
  <2> DEFINE h == [s \in Small(n + 1) |->
                     IF s = {} THEN 0 ELSE SizeOf(ws[First(s)]) + g[s \ {First(s)}]]
  <2>2. \A s \in Small(n) : h[s] = g[s] /\ s \in Small(n + 1)
    <3>1. \A s \in Small(n) : s \in Small(n + 1)
      BY <1>1
    <3> HIDE DEF Small
    <3> QED BY <2>1, <3>1 DEF SumsUp
  <2>3. ASSUME NEW s \in Small(n + 1), s # {} PROVE s \ {First(s)} \in Small(n)
    BY <1>1, <1>3, <2>3
  <2>4. SumsUp(ws, Small(n + 1), h)
    <3>1. \A s \in Small(n + 1) : s # {} => h[s \ {First(s)}] = g[s \ {First(s)}]
      BY <2>2, <2>3
    <3>2. \A s \in Small(n + 1) :
            h[s] = IF s = {} THEN 0 ELSE SizeOf(ws[First(s)]) + h[s \ {First(s)}]
      <4> HIDE DEF Small
      <4> QED BY <3>1
    <3>3. h = [s \in Small(n + 1) |-> h[s]]
      <4> HIDE DEF Small
      <4> QED OBVIOUS
    <3> HIDE DEF Small, h
    <3> QED BY <3>2, <3>3 DEF SumsUp
  <2> HIDE DEF Small, h
  <2> QED BY <2>4
<1>6. Nat \subseteq P
  <2> HIDE DEF P
  <2> QED BY <1>4, <1>5, EveryNumber
<1>7. Small(Cardinality(S)) = SUBSET S /\ Cardinality(S) \in P
  BY <1>1, <1>6
<1> QED BY <1>7

LEMMA SumsAgree ==
  ASSUME NEW ws, NEW S, IsFiniteSet(S), NEW T \in SUBSET S, NEW g, NEW h,
         SumsUp(ws, SUBSET S, g), SumsUp(ws, SUBSET T, h)
  PROVE  g[T] = h[T]
<1> DEFINE P == {n \in Nat : \A s \in SUBSET T : Cardinality(s) = n => g[s] = h[s]}
<1>1. \A s \in SUBSET S : IsFiniteSet(s) /\ Cardinality(s) \in Nat
  BY FS_Subset, FS_CardinalityType
<1>2. \A s \in SUBSET S : s # {} => First(s) \in s
  BY DEF First
<1>3. \A s \in SUBSET S : s # {} => Cardinality(s \ {First(s)}) = Cardinality(s) - 1
  BY <1>1, <1>2, FS_RemoveElement
<1>4. 0 \in P
  <2>1. \A s \in SUBSET T : Cardinality(s) = 0 => s = {}
    BY <1>1, FS_EmptySet
  <2>2. g[{}] = 0 /\ h[{}] = 0
    BY DEF SumsUp
  <2> QED BY <2>1, <2>2
<1>5. ASSUME NEW n \in Nat, n \in P PROVE n + 1 \in P
  <2> SUFFICES ASSUME NEW s \in SUBSET T, Cardinality(s) = n + 1 PROVE g[s] = h[s]
    OBVIOUS
  <2>1. s # {} /\ First(s) \in s
    <3>1. Cardinality({}) = 0 /\ n + 1 # 0
      BY FS_EmptySet
    <3>2. s # {}
      BY <3>1
    <3> QED BY <1>2, <3>2
  <2> DEFINE t == s \ {First(s)}
  <2>2. g[s] = SizeOf(ws[First(s)]) + g[t] /\ h[s] = SizeOf(ws[First(s)]) + h[t]
    BY <2>1 DEF SumsUp
  <2>3. t \in SUBSET T /\ Cardinality(t) = n
    <3>1. Cardinality(t) = Cardinality(s) - 1
      BY <1>3, <2>1
    <3> QED BY <3>1
  <2>4. g[t] = h[t]
    BY <1>5, <2>3
  <2> QED BY <2>2, <2>4
<1>6. Nat \subseteq P
  <2> HIDE DEF P
  <2> QED BY <1>4, <1>5, EveryNumber
<1> QED BY <1>1, <1>6

LEMMA SpaceSums ==
  ASSUME NEW ws, NEW S, IsFiniteSet(S)
  PROVE  \E g : SumsUp(ws, SUBSET S, g) /\ Space(ws, S) = g[S]
<1> DEFINE F(g) == [s \in SUBSET S |->
                      IF s = {} THEN 0 ELSE SizeOf(ws[First(s)]) + g[s \ {First(s)}]]
           sum == CHOOSE g : g = F(g)
<1>1. Space(ws, S) = sum[S]
  BY DEF Space, MapThenSumSet, MapThenFoldSet, SizeOf, First
<1>2. \E g : g = F(g)
  <2>1. PICK g : SumsUp(ws, SUBSET S, g)
    BY SumExists
  <2>2. g = F(g)
    BY <2>1 DEF SumsUp
  <2> HIDE DEF F
  <2> QED BY <2>2
<1>3. sum = F(sum)
  <2> HIDE DEF F
  <2> QED BY <1>2
<1>4. SumsUp(ws, SUBSET S, sum)
  <2> HIDE DEF sum
  <2> QED BY <1>3 DEF SumsUp
<1> QED BY <1>1, <1>4

\* The equations of Space, with the element the sum chooses.
LEMMA SpaceOfFirst ==
  ASSUME NEW ws, NEW S, IsFiniteSet(S)
  PROVE  /\ S = {} => Space(ws, S) = 0
         /\ S # {} => /\ First(S) \in S
                      /\ Space(ws, S) = SizeOf(ws[First(S)]) + Space(ws, S \ {First(S)})
<1>1. PICK g : SumsUp(ws, SUBSET S, g) /\ Space(ws, S) = g[S]
  BY SpaceSums
<1>2. CASE S = {}
  BY <1>1, <1>2 DEF SumsUp
<1>3. CASE S # {}
  <2> DEFINE T == S \ {First(S)}
  <2>1. First(S) \in S
    BY <1>3 DEF First
  <2>2. T \in SUBSET S /\ IsFiniteSet(T)
    BY FS_Subset
  <2>3. PICK h : SumsUp(ws, SUBSET T, h) /\ Space(ws, T) = h[T]
    BY <2>2, SpaceSums
  <2>4. g[T] = h[T]
    BY <1>1, <2>2, <2>3, SumsAgree
  <2>5. g[S] = SizeOf(ws[First(S)]) + g[T]
    BY <1>1, <1>3 DEF SumsUp
  <2> QED BY <1>1, <1>3, <2>1, <2>3, <2>4, <2>5
<1> QED BY <1>2, <1>3

\* Any element can be taken out first, and sums are natural numbers.
LEMMA SpaceOfAny ==
  ASSUME NEW ws, NEW U, IsFiniteSet(U), \A w \in U : SizeOf(ws[w]) \in Nat
  PROVE  /\ Space(ws, {}) = 0
         /\ \A S \in SUBSET U : Space(ws, S) \in Nat
         /\ \A S \in SUBSET U, w \in U :
              w \in S => Space(ws, S) = SizeOf(ws[w]) + Space(ws, S \ {w})
<1> DEFINE Good(S) == /\ Space(ws, S) \in Nat
                      /\ \A w \in S : Space(ws, S) = SizeOf(ws[w]) + Space(ws, S \ {w})
           P == {n \in Nat : \A S \in SUBSET U : Cardinality(S) <= n => Good(S)}
<1>1. \A S \in SUBSET U : IsFiniteSet(S) /\ Cardinality(S) \in Nat
  BY FS_Subset, FS_CardinalityType
<1>2. \A S \in SUBSET U : \A w \in S : Cardinality(S \ {w}) = Cardinality(S) - 1
  BY <1>1, FS_RemoveElement
<1>3. Space(ws, {}) = 0
  BY SpaceOfFirst, FS_EmptySet
<1>4. 0 \in P
  <2>1. \A S \in SUBSET U : Cardinality(S) <= 0 => S = {}
    BY <1>1, FS_EmptySet
  <2> QED BY <1>3, <2>1
<1>5. ASSUME NEW n \in Nat, n \in P PROVE n + 1 \in P
  <2> SUFFICES ASSUME NEW S \in SUBSET U, Cardinality(S) = n + 1 PROVE Good(S)
    <3> HIDE DEF Good
    <3> QED BY <1>1, <1>5
  <2> DEFINE f == First(S)
  <2>1. S # {}
    BY FS_EmptySet
  <2>2. f \in S /\ Space(ws, S) = SizeOf(ws[f]) + Space(ws, S \ {f})
    BY <1>1, <2>1, SpaceOfFirst
  <2> HIDE DEF f
  <2>3. \A w \in S : Good(S \ {w})
    <3> TAKE w \in S
    <3>1. Cardinality(S \ {w}) = Cardinality(S) - 1
      BY <1>2
    <3>2. Cardinality(S \ {w}) <= n
      BY <3>1
    <3> HIDE DEF Good
    <3> QED BY <1>5, <3>2
  <2>4. \A w \in S : /\ Space(ws, S \ {w}) \in Nat
                     /\ \A v \in S \ {w} : Space(ws, S \ {w}) = SizeOf(ws[v]) + Space(ws, (S \ {w}) \ {v})
    BY <2>3
  <2>5. ASSUME NEW w \in S, w # f PROVE Space(ws, S) = SizeOf(ws[w]) + Space(ws, S \ {w})
    <3> DEFINE R == (S \ {w}) \ {f}
    <3>1. R = (S \ {f}) \ {w}
      OBVIOUS
    <3>2. Space(ws, S \ {f}) = SizeOf(ws[w]) + Space(ws, R)
      BY <2>2, <2>4, <2>5, <3>1
    <3>3. Space(ws, S \ {w}) = SizeOf(ws[f]) + Space(ws, R)
      BY <2>2, <2>4, <2>5
    <3>4. SizeOf(ws[f]) \in Nat /\ SizeOf(ws[w]) \in Nat
      BY <2>2
    <3>5. Space(ws, R) \in Nat
      <4>1. Cardinality(R) = Cardinality(S \ {w}) - 1 /\ Cardinality(S \ {w}) = Cardinality(S) - 1
        BY <1>2, <2>2, <2>5
      <4>2. Cardinality(R) <= n /\ R \in SUBSET U
        BY <4>1
      <4> HIDE DEF R
      <4>3. Good(R)
        <5> HIDE DEF Good
        <5> QED BY <1>5, <4>2
      <4> QED BY <4>3
    <3> HIDE DEF R
    <3> QED BY <2>2, <3>2, <3>3, <3>4, <3>5
  <2>6. Space(ws, S) \in Nat
    BY <2>2, <2>4
  <2> QED BY <2>2, <2>5, <2>6
<1>6. Nat \subseteq P
  <2> HIDE DEF P
  <2> QED BY <1>4, <1>5, EveryNumber
<1> QED BY <1>1, <1>3, <1>6

\* What a sum is taken over: finitely many workspaces with sizes.
Sized(ws, U) == IsFiniteSet(U) /\ \A w \in U : SizeOf(ws[w]) \in Nat

LEMMA SpaceOfOne ==
  ASSUME NEW ws, NEW U, Sized(ws, U), NEW w \in U
  PROVE  Space(ws, {w}) = SizeOf(ws[w])
<1>1. Space(ws, {}) = 0 /\ Space(ws, {w}) = SizeOf(ws[w]) + Space(ws, {w} \ {w})
  BY SpaceOfAny DEF Sized
<1>2. {w} \ {w} = {} /\ SizeOf(ws[w]) \in Nat
  BY DEF Sized
<1> QED BY <1>1, <1>2

\* The sum over two sets that have nothing in common.
LEMMA SpaceSplit ==
  ASSUME NEW ws, NEW U, Sized(ws, U), NEW S \in SUBSET U
  PROVE  /\ Space(ws, S) \in Nat
         /\ \A T \in SUBSET U :
              /\ Space(ws, T) \in Nat
              /\ T \cap S = {} => Space(ws, S \cup T) = Space(ws, S) + Space(ws, T)
<1> DEFINE C == {R \in SUBSET U : R \cap S = {} => Space(ws, S \cup R) = Space(ws, S) + Space(ws, R)}
<1>1. /\ Space(ws, {}) = 0
      /\ \A R \in SUBSET U : Space(ws, R) \in Nat
      /\ \A R \in SUBSET U, w \in U :
           w \in R => Space(ws, R) = SizeOf(ws[w]) + Space(ws, R \ {w})
  BY SpaceOfAny DEF Sized
<1>2. \A w \in U : SizeOf(ws[w]) \in Nat
  BY DEF Sized
<1>3. {} \in C
  <2>1. S \cup {} = S
    OBVIOUS
  <2> QED BY <1>1, <2>1
<1>4. ASSUME NEW R \in SUBSET U, NEW x \in U, R \in C, x \notin R, (R \cup {x}) \cap S = {}
      PROVE  Space(ws, S \cup (R \cup {x})) = Space(ws, S) + Space(ws, R \cup {x})
  <2>1. Space(ws, S \cup R) = Space(ws, S) + Space(ws, R)
    BY <1>4
  <2>2. Space(ws, R \cup {x}) = SizeOf(ws[x]) + Space(ws, R)
    <3>1. (R \cup {x}) \ {x} = R /\ R \cup {x} \in SUBSET U
      BY <1>4
    <3> QED BY <1>1, <3>1
  <2>3. Space(ws, S \cup (R \cup {x})) = SizeOf(ws[x]) + Space(ws, S \cup R)
    <3>1. (S \cup (R \cup {x})) \ {x} = S \cup R /\ S \cup (R \cup {x}) \in SUBSET U
      BY <1>4
    <3> QED BY <1>1, <3>1
  <2>4. Space(ws, S) \in Nat /\ Space(ws, R) \in Nat /\ SizeOf(ws[x]) \in Nat
    BY <1>1, <1>2
  <2> QED BY <2>1, <2>2, <2>3, <2>4
<1>5. \A R \in SUBSET U, x \in U : R \in C /\ x \notin R => R \cup {x} \in C
  BY <1>4
<1>6. SUBSET U \subseteq C
  <2> HIDE DEF C
  <2> QED BY <1>3, <1>5, EverySubset DEF Sized
<1> QED BY <1>1, <1>6

\* The sum over a set in two parts.
LEMMA SpaceInParts ==
  ASSUME NEW ws, NEW U, Sized(ws, U), NEW S \in SUBSET U
  PROVE  /\ Space(ws, U \ S) \in Nat /\ Space(ws, S) \in Nat
         /\ Space(ws, U) = Space(ws, U \ S) + Space(ws, S)
         /\ Sized(ws, U \ S) /\ Sized(ws, S)
<1> DEFINE R == U \ S
<1>1. R \cup S = U
  OBVIOUS
<1>2. S \cap R = {} /\ R \in SUBSET U
  OBVIOUS
<1>3. Sized(ws, R) /\ Sized(ws, S)
  BY FS_Subset DEF Sized
<1> HIDE DEF R
<1>4. /\ Space(ws, R) \in Nat
      /\ \A T \in SUBSET U :
           /\ Space(ws, T) \in Nat
           /\ T \cap R = {} => Space(ws, R \cup T) = Space(ws, R) + Space(ws, T)
  BY <1>2, SpaceSplit
<1>5. Space(ws, S) \in Nat /\ Space(ws, R \cup S) = Space(ws, R) + Space(ws, S)
  BY <1>2, <1>4
<1> QED BY <1>1, <1>3, <1>4, <1>5 DEF R

\* A sum of sizes none of which is larger.
LEMMA SpaceNoMore ==
  ASSUME NEW ws, NEW new, NEW U, Sized(ws, U), Sized(new, U),
         \A w \in U : SizeOf(new[w]) <= SizeOf(ws[w])
  PROVE  /\ Space(new, U) \in Nat /\ Space(ws, U) \in Nat
         /\ Space(new, U) <= Space(ws, U)
<1> DEFINE C == {R \in SUBSET U : Space(new, R) <= Space(ws, R)}
<1>1. /\ Space(ws, {}) = 0
      /\ \A R \in SUBSET U : Space(ws, R) \in Nat
      /\ \A R \in SUBSET U, w \in U :
           w \in R => Space(ws, R) = SizeOf(ws[w]) + Space(ws, R \ {w})
  BY SpaceOfAny DEF Sized
<1>2. /\ Space(new, {}) = 0
      /\ \A R \in SUBSET U : Space(new, R) \in Nat
      /\ \A R \in SUBSET U, w \in U :
           w \in R => Space(new, R) = SizeOf(new[w]) + Space(new, R \ {w})
  <2>1. IsFiniteSet(U) /\ \A w \in U : SizeOf(new[w]) \in Nat
    BY DEF Sized
  <2> QED BY <2>1, SpaceOfAny
<1>3. \A w \in U : SizeOf(ws[w]) \in Nat /\ SizeOf(new[w]) \in Nat
  BY DEF Sized
<1>4. {} \in C
  BY <1>1, <1>2
<1>5. ASSUME NEW R \in SUBSET U, NEW x \in U, R \in C, x \notin R PROVE R \cup {x} \in C
  <2>1. (R \cup {x}) \ {x} = R /\ R \cup {x} \in SUBSET U
    BY <1>5
  <2>2. /\ Space(ws, R \cup {x}) = SizeOf(ws[x]) + Space(ws, R)
        /\ Space(new, R \cup {x}) = SizeOf(new[x]) + Space(new, R)
    BY <1>1, <1>2, <2>1
  <2>3. Space(ws, R) \in Nat /\ Space(new, R) \in Nat /\ Space(new, R) <= Space(ws, R)
    BY <1>1, <1>2, <1>5
  <2>4. SizeOf(new[x]) <= SizeOf(ws[x]) /\ SizeOf(ws[x]) \in Nat /\ SizeOf(new[x]) \in Nat
    BY <1>3
  <2>5. Space(new, R \cup {x}) <= Space(ws, R \cup {x})
    BY <2>2, <2>3, <2>4
  <2> QED BY <2>1, <2>5
<1>6. SUBSET U \subseteq C
  <2> HIDE DEF C
  <2> QED BY <1>4, <1>5, EverySubset DEF Sized
<1> QED BY <1>1, <1>2, <1>6

LEMMA SpaceSame ==
  ASSUME NEW ws, NEW new, NEW U, Sized(ws, U), \A w \in U : SizeOf(new[w]) = SizeOf(ws[w])
  PROVE  Space(new, U) \in Nat /\ Space(new, U) = Space(ws, U)
<1>1. Sized(new, U) /\ \A w \in U : SizeOf(ws[w]) \in Nat /\ SizeOf(new[w]) \in Nat
  BY DEF Sized
<1>2. /\ \A w \in U : SizeOf(new[w]) <= SizeOf(ws[w])
      /\ \A w \in U : SizeOf(ws[w]) <= SizeOf(new[w])
  BY <1>1
<1>3. Space(new, U) \in Nat /\ Space(ws, U) \in Nat /\ Space(new, U) <= Space(ws, U)
  BY <1>1, <1>2, SpaceNoMore
<1>4. Space(ws, U) <= Space(new, U)
  BY <1>1, <1>2, SpaceNoMore
<1> QED BY <1>3, <1>4

\* A sum of zeros.
LEMMA SpaceNone ==
  ASSUME NEW ws, NEW U, IsFiniteSet(U), \A w \in U : SizeOf(ws[w]) = 0
  PROVE  Space(ws, U) = 0
<1>1. Sized(ws, U)
  BY DEF Sized
<1> DEFINE C == {R \in SUBSET U : Space(ws, R) = 0}
<1>2. /\ Space(ws, {}) = 0
      /\ \A R \in SUBSET U, w \in U :
           w \in R => Space(ws, R) = SizeOf(ws[w]) + Space(ws, R \ {w})
  BY <1>1, SpaceOfAny DEF Sized
<1>3. {} \in C
  BY <1>2
<1>4. ASSUME NEW R \in SUBSET U, NEW x \in U, R \in C, x \notin R PROVE R \cup {x} \in C
  <2>1. (R \cup {x}) \ {x} = R /\ R \cup {x} \in SUBSET U
    BY <1>4
  <2>2. Space(ws, R \cup {x}) = SizeOf(ws[x]) + Space(ws, R)
    BY <1>2, <2>1
  <2> QED BY <1>4, <2>1, <2>2
<1>5. SUBSET U \subseteq C
  <2> HIDE DEF C
  <2> QED BY <1>3, <1>4, EverySubset
<1> QED BY <1>5

-----------------------------------------------------------------------------
(* The total and the limits *)

\* The total is the storage there is, and the threshold is within the maximum.
Account(s) ==
  /\ s.total_size = Space(s.ws, DOMAIN s.ws)
  /\ s.maximum_size \in Nat /\ s.threshold_size \in Nat
  /\ s.threshold_size <= s.maximum_size

\* No idle workspace has storage.
NothingIdle(s) == \A w \in Range(s.idle) : ~s.ws[w].ws_ptr

\* What is refused is refused when nothing idle has storage.
Justified(s) == s.ret = "refused" => NothingIdle(s)

LEMMA RecordsSized ==
  ASSUME NEW s, RecordsSound(s)
  PROVE  /\ Sized(s.ws, DOMAIN s.ws)
         /\ Space(s.ws, DOMAIN s.ws) \in Nat
<1>1. IsFiniteSet(DOMAIN s.ws)
  <2>1. IsFiniteSet(1 .. s.last_ws_id)
    BY FS_Interval DEF RecordsSound
  <2> QED BY <2>1, FS_Subset DEF RecordsSound
<1>2. \A w \in DOMAIN s.ws : SizeOf(s.ws[w]) \in Nat
  BY DEF RecordsSound, Records, SizeOf
<1>3. Space(s.ws, DOMAIN s.ws) \in Nat
  BY <1>1, <1>2, SpaceOfAny
<1> QED BY <1>1, <1>2, <1>3 DEF Sized

\* The storage there is, with one workspace set apart.
LEMMA SpaceWithout ==
  ASSUME NEW ws, NEW U, Sized(ws, U), NEW w \in U
  PROVE  /\ Space(ws, U \ {w}) \in Nat /\ SizeOf(ws[w]) \in Nat
         /\ Space(ws, U) = SizeOf(ws[w]) + Space(ws, U \ {w})
         /\ Sized(ws, U \ {w})
BY SpaceOfAny, FS_Subset DEF Sized

\* Changing one record changes the storage by what it has more.
LEMMA SpaceChanged ==
  ASSUME NEW ws, NEW new, NEW U, Sized(ws, U), Sized(new, U), NEW w \in U,
         \A v \in U \ {w} : new[v] = ws[v]
  PROVE  Space(new, U) = Space(ws, U) - SizeOf(ws[w]) + SizeOf(new[w])
<1>1. /\ Space(ws, U \ {w}) \in Nat /\ SizeOf(ws[w]) \in Nat
      /\ Space(ws, U) = SizeOf(ws[w]) + Space(ws, U \ {w})
      /\ Sized(ws, U \ {w})
  BY SpaceWithout
<1>2. /\ SizeOf(new[w]) \in Nat
      /\ Space(new, U) = SizeOf(new[w]) + Space(new, U \ {w})
  BY SpaceWithout
<1>3. Space(new, U \ {w}) = Space(ws, U \ {w})
  BY <1>1, SpaceSame
<1> QED BY <1>1, <1>2, <1>3

\* Only the storage the idle workspaces give up is taken from the total, and if
\* the amount does not fit even then, all of them have given theirs up.
LEMMA RoomCounted ==
  ASSUME NEW s, Sound(s), Account(s), NEW amount \in Int
  PROVE  LET r == MakeRoom(s, amount)
         IN  /\ Account(r)
             /\ r.maximum_size = s.maximum_size
             /\ ~Fits(r, amount) => NothingIdle(r)
<1> DEFINE over == s.total_size + amount - s.threshold_size
           U == DOMAIN s.ws
           given == {w \in GivenUp(s, over) : s.ws[w].ws_ptr}
           r == MakeRoom(s, amount)
<1>1. /\ Sound(r) /\ DOMAIN r.ws = U /\ r.idle = s.idle
      /\ \A w \in U : r.ws[w] = s.ws[w] \/ (~s.ws[w].in_use /\ r.ws[w] = Emptied(s.ws[w]))
  BY RoomMade
<1>2. r = [s EXCEPT !.ws = [w \in DOMAIN @ |-> IF w \in given THEN Emptied(@[w]) ELSE @[w]],
                    !.total_size = @ - Space(s.ws, given)]
  BY DEF MakeRoom, ReduceCurrentAlloc
<1>3. given \subseteq U
  <2>1. given \subseteq Range(s.idle)
    BY DEF GivenUp, Range
  <2> QED BY <2>1 DEF Sound, IdleSound
<1>4. \A k \in DOMAIN s.idle :
        s.ws[s.idle[k]].ws_ptr /\ s.idle[k] \notin given =>
          ~(Space(s.ws, {s.idle[l] : l \in k + 1 .. Len(s.idle)}) < over)
  BY DEF GivenUp
<1> HIDE DEF given
<1>5. Fields \subseteq DOMAIN s
  BY DEF Sound, RecordsSound
<1>6. /\ r.ws = [w \in U |-> IF w \in given THEN Emptied(s.ws[w]) ELSE s.ws[w]]
      /\ r.total_size = s.total_size - Space(s.ws, given)
      /\ r.maximum_size = s.maximum_size /\ r.threshold_size = s.threshold_size
      /\ r.ret = s.ret
  BY <1>2, <1>5 DEF Fields
<1> HIDE DEF r
<1>7. Sized(s.ws, U) /\ Sized(r.ws, U) /\ Space(s.ws, U) \in Nat /\ Space(r.ws, U) \in Nat
  BY <1>1, RecordsSized DEF Sound
<1>8. \A w \in U : ~Emptied(s.ws[w]).ws_ptr
  BY EmptiedIsRecord DEF Sound, RecordsSound
<1>9. Space(r.ws, U) = s.total_size - Space(s.ws, given)
  <2> DEFINE kept == U \ given
  <2>1. /\ Space(s.ws, kept) \in Nat /\ Space(s.ws, given) \in Nat
        /\ Space(s.ws, U) = Space(s.ws, kept) + Space(s.ws, given)
        /\ Sized(s.ws, kept) /\ Sized(s.ws, given)
    BY <1>3, <1>7, SpaceInParts
  <2>2. Space(r.ws, U) = Space(r.ws, kept) + Space(r.ws, given)
    BY <1>3, <1>7, SpaceInParts
  <2>3. Space(r.ws, given) = 0
    <3>1. \A w \in given : SizeOf(r.ws[w]) = 0
      BY <1>3, <1>6, <1>8 DEF SizeOf
    <3> QED BY <2>1, <3>1, SpaceNone DEF Sized
  <2>4. Space(r.ws, kept) = Space(s.ws, kept)
    <3>1. \A w \in kept : SizeOf(r.ws[w]) = SizeOf(s.ws[w])
      BY <1>6
    <3> QED BY <2>1, <3>1, SpaceSame
  <2> HIDE DEF kept
  <2>5. s.total_size = Space(s.ws, U)
    BY DEF Account
  <2> QED BY <2>1, <2>2, <2>3, <2>4, <2>5
<1>10. Account(r)
  BY <1>1, <1>6, <1>9 DEF Account
<1>11. ASSUME NEW w \in Range(r.idle), r.ws[w].ws_ptr PROVE Fits(r, amount)
  <2> DEFINE N == Len(s.idle)
             K == {k \in 1 .. N : r.ws[s.idle[k]].ws_ptr}
  <2>1. s.idle \in Seq(Nat) /\ N \in Nat /\ DOMAIN s.idle = 1 .. N
    BY DEF Sound, IdleSound
  <2>2. K # {} /\ K \in SUBSET (0 .. N)
    <3>1. PICK k \in 1 .. N : s.idle[k] = w
      BY <1>1, <1>11, <2>1 DEF Range
    <3> QED BY <1>11, <2>1, <3>1
  <2>3. PICK k \in K : \A j \in K : j <= k
    <3> HIDE DEF K, N
    <3> QED BY <2>1, <2>2, GreatestElement
  <2> DEFINE Behind == {s.idle[l] : l \in k + 1 .. N}
             front == U \ Behind
  <2>4. \A v \in Range(s.idle) : v \in U
    BY DEF Sound, IdleSound
  <2>5. Behind \subseteq U
    <3>1. \A l \in k + 1 .. N : l \in 1 .. N
      BY <2>1, <2>3
    <3>2. \A l \in 1 .. N : s.idle[l] \in U
      BY <2>1, <2>4 DEF Range
    <3> QED BY <3>1, <3>2
  <2>6. \A v \in Behind : ~r.ws[v].ws_ptr
    BY <2>1, <2>3
  <2>7. s.idle[k] \in U /\ s.ws[s.idle[k]].ws_ptr /\ s.idle[k] \notin given
    <3>1. s.idle[k] \in U
      BY <2>1, <2>3, <2>4 DEF Range
    <3> QED BY <1>6, <1>8, <2>3, <3>1
  <2>8. ~(Space(s.ws, Behind) < over)
    BY <1>4, <2>1, <2>3, <2>7
  <2> HIDE DEF Behind, N, K, U
  <2>9. /\ Space(s.ws, front) \in Nat /\ Space(s.ws, Behind) \in Nat
        /\ Space(s.ws, U) = Space(s.ws, front) + Space(s.ws, Behind)
        /\ Sized(s.ws, front) /\ Sized(s.ws, Behind)
    BY <1>7, <2>5, SpaceInParts
  <2>10. /\ Space(r.ws, U) = Space(r.ws, front) + Space(r.ws, Behind)
         /\ Sized(r.ws, front)
    BY <1>7, <2>5, SpaceInParts
  <2>11. Space(r.ws, Behind) = 0
    <3>1. \A v \in Behind : SizeOf(r.ws[v]) = 0
      BY <2>6 DEF SizeOf
    <3> QED BY <2>9, <3>1, SpaceNone DEF Sized
  <2>12. Space(r.ws, front) \in Nat /\ Space(r.ws, front) <= Space(s.ws, front)
    <3>1. \A v \in U : SizeOf(r.ws[v]) <= SizeOf(s.ws[v])
      <4> TAKE v \in U
      <4>1. SizeOf(s.ws[v]) \in Nat
        BY <1>7 DEF Sized
      <4>2. SizeOf(r.ws[v]) = SizeOf(s.ws[v]) \/ SizeOf(r.ws[v]) = 0
        BY <1>6, <1>8 DEF SizeOf
      <4> QED BY <4>1, <4>2
    <3>2. \A v \in front : SizeOf(r.ws[v]) <= SizeOf(s.ws[v])
      BY <3>1
    <3> HIDE DEF front
    <3> QED BY <2>9, <2>10, <3>2, SpaceNoMore
  <2>13. /\ s.total_size = Space(s.ws, U) /\ r.total_size = Space(r.ws, U)
         /\ s.threshold_size \in Nat /\ s.maximum_size \in Nat
         /\ s.threshold_size <= s.maximum_size /\ r.maximum_size = s.maximum_size
    BY <1>1, <1>6, <1>10 DEF Account, U
  <2>14. r.total_size <= s.threshold_size - amount
    BY <2>8, <2>9, <2>10, <2>11, <2>12, <2>13
  <2>15. r.total_size + amount <= s.maximum_size
    BY <1>7, <2>13, <2>14
  <2> QED BY <2>13, <2>15 DEF Fits
<1>12. ~Fits(r, amount) => NothingIdle(r)
  BY <1>11 DEF NothingIdle
<1> QED BY <1>6, <1>10, <1>12 DEF r

-----------------------------------------------------------------------------
(* The operations *)

\* A workspace taken off the idle list, of a total that is the storage there is.
LEMMA OffCounted ==
  ASSUME NEW s, Sound(s), NEW w
  PROVE  LET r == RemoveFromIdleList(s, w)
         IN  /\ r.total_size = s.total_size /\ r.ret = s.ret
             /\ r.maximum_size = s.maximum_size /\ r.threshold_size = s.threshold_size
BY DEF RemoveFromIdleList, Sound, RecordsSound, Fields

\* A workspace that is taken into use, before room is made for its storage.
Taken(s, w) == [RemoveFromIdleList(s, w) EXCEPT !.ws[w].in_use = TRUE]

LEMMA TakenCounted ==
  ASSUME NEW s, Sound(s), Account(s), NEW w \in DOMAIN s.ws
  PROVE  LET mine == Taken(s, w)
         IN  /\ Sound(mine) /\ DOMAIN mine.ws = DOMAIN s.ws
             /\ mine.ws[w] = [s.ws[w] EXCEPT !.in_use = TRUE]
             /\ \A v \in DOMAIN s.ws \ {w} : mine.ws[v] = s.ws[v]
             /\ w \notin Range(mine.idle) /\ Account(mine)
             /\ mine.idle = RemoveFromIdleList(s, w).idle
<1> DEFINE off == RemoveFromIdleList(s, w)
           mine == [off EXCEPT !.ws[w].in_use = TRUE]
           old == s.ws[w]
<1>1. old \in Records /\ (old.data_intact => old.ws_ptr)
  BY DEF Sound, RecordsSound, Records
<1>2. /\ Fields \subseteq DOMAIN off
      /\ off.ws = s.ws /\ off.last_ws_id = s.last_ws_id
      /\ off.idle \in Seq(Nat) /\ IsInjective(off.idle)
      /\ Range(off.idle) = Range(s.idle) \ {w}
      /\ PoolExact(off)
      /\ off.total_size = s.total_size
      /\ off.maximum_size = s.maximum_size /\ off.threshold_size = s.threshold_size
  BY TakenOff, OffCounted
<1> HIDE DEF off
<1>3. /\ mine.ws = [s.ws EXCEPT ![w] = [old EXCEPT !.in_use = TRUE]]
      /\ mine.last_ws_id = s.last_ws_id /\ mine.idle = off.idle
      /\ mine.slots = off.slots /\ mine.free = off.free
      /\ mine.total_size = s.total_size
      /\ mine.maximum_size = s.maximum_size /\ mine.threshold_size = s.threshold_size
      /\ Fields \subseteq DOMAIN mine
  BY <1>2 DEF Fields
<1> HIDE DEF mine
<1>4. [old EXCEPT !.in_use = TRUE] \in Records
  BY <1>1 DEF Records
<1> HIDE DEF old
<1>5. /\ DOMAIN mine.ws = DOMAIN s.ws
      /\ mine.ws[w] = [old EXCEPT !.in_use = TRUE]
      /\ \A v \in DOMAIN s.ws \ {w} : mine.ws[v] = s.ws[v]
      /\ mine.ws \in [DOMAIN mine.ws -> Records]
  BY <1>3, <1>4 DEF Sound, RecordsSound
<1>6. mine.ws[w].in_use /\ (mine.ws[w].data_intact => mine.ws[w].ws_ptr)
  BY <1>1, <1>5 DEF Records
<1>7. RecordsSound(mine)
  BY <1>3, <1>5, <1>6 DEF Sound, RecordsSound
<1>8. IdleSound(mine)
  BY <1>2, <1>3, <1>5, <1>6 DEF Sound, IdleSound
<1>9. PoolExact(mine)
  BY <1>2, <1>3 DEF PoolExact
<1>10. Account(mine)
  <2>1. \A v \in DOMAIN s.ws : SizeOf(mine.ws[v]) = SizeOf(s.ws[v])
    <3>1. SizeOf(mine.ws[w]) = SizeOf(old)
      BY <1>1, <1>5 DEF SizeOf, Records
    <3> QED BY <1>5, <3>1 DEF old
  <2>2. Space(mine.ws, DOMAIN s.ws) = Space(s.ws, DOMAIN s.ws)
    BY <2>1, RecordsSized, SpaceSame DEF Sound
  <2> QED BY <1>3, <1>5, <2>2 DEF Account
<1>11. Taken(s, w) = mine
  BY DEF Taken, mine, off
<1>12. mine.ws[w] = [s.ws[w] EXCEPT !.in_use = TRUE]
  BY <1>5 DEF old
<1>13. mine.idle = RemoveFromIdleList(s, w).idle
  BY <1>3 DEF off
<1>14. Sound(mine) /\ w \notin Range(mine.idle)
  BY <1>2, <1>3, <1>7, <1>8, <1>9 DEF Sound
<1> QED BY <1>5, <1>10, <1>11, <1>12, <1>13, <1>14

LEMMA UseCounted ==
  ASSUME NEW s, Sound(s), Account(s), NEW w \in DOMAIN s.ws
  PROVE  LET r == UseWorkspace(s, w)
         IN  Account(r) /\ Justified(r)
<1> DEFINE amount == IF s.ws[w].ws_ptr THEN 0 ELSE s.ws[w].cur_size
           mine == Taken(s, w)
           room == MakeRoom(mine, amount)
           old == s.ws[w]
           r == UseWorkspace(s, w)
<1>1. old \in Records /\ (old.data_intact => old.ws_ptr) /\ amount \in Nat
  BY DEF Sound, RecordsSound, Records
<1>2. /\ Sound(mine) /\ DOMAIN mine.ws = DOMAIN s.ws
      /\ mine.ws[w] = [old EXCEPT !.in_use = TRUE]
      /\ \A v \in DOMAIN s.ws \ {w} : mine.ws[v] = s.ws[v]
      /\ w \notin Range(mine.idle) /\ Account(mine)
  BY TakenCounted
<1>3. /\ Sound(room) /\ DOMAIN room.ws = DOMAIN mine.ws /\ room.idle = mine.idle
      /\ \A v \in DOMAIN mine.ws :
           room.ws[v] = mine.ws[v] \/ (~mine.ws[v].in_use /\ room.ws[v] = Emptied(mine.ws[v]))
      /\ Account(room)
      /\ ~Fits(room, amount) => NothingIdle(room)
  <2> HIDE DEF mine, amount
  <2> QED BY <1>1, <1>2, RoomMade, RoomCounted
<1> DEFINE got == [room EXCEPT !.ret = "ok"]
           no == [room EXCEPT !.ws[w].in_use = FALSE, !.ret = "refused"]
           new == [room EXCEPT !.ws[w].ws_ptr = TRUE, !.ws[w].data_intact = FALSE,
                               !.total_size = @ + amount, !.ret = "ok"]
<1>4. \/ r = [s EXCEPT !.ret = "busy"]
      \/ r = got
      \/ ~old.ws_ptr /\ ~Fits(room, amount) /\ r = no
      \/ ~old.ws_ptr /\ r = new
  BY DEF UseWorkspace, Taken
<1>5. mine.ws[w].in_use /\ room.ws[w] = [old EXCEPT !.in_use = TRUE]
  <2> HIDE DEF mine, room
  <2>1. mine.ws[w].in_use
    BY <1>1, <1>2 DEF Records
  <2> QED BY <1>2, <1>3, <2>1
<1>6. w \in DOMAIN room.ws /\ Fields \subseteq DOMAIN room /\ Fields \subseteq DOMAIN s
      /\ w \notin Range(room.idle)
  BY <1>2, <1>3 DEF Sound, RecordsSound
<1> HIDE DEF mine, room, r
<1>7. CASE r = [s EXCEPT !.ret = "busy"]
  BY <1>6, <1>7 DEF Fields, Account, Justified, r
<1>8. CASE r = got
  BY <1>3, <1>6, <1>8 DEF Fields, Account, Justified, r
<1>9. CASE ~old.ws_ptr /\ ((r = no /\ ~Fits(room, amount)) \/ r = new)
  <2>1. /\ DOMAIN r.ws = DOMAIN room.ws
        /\ \A v \in DOMAIN room.ws \ {w} : r.ws[v] = room.ws[v]
        /\ r.maximum_size = room.maximum_size /\ r.threshold_size = room.threshold_size
        /\ r.idle = room.idle
    <3>1. CASE r = no
      BY <1>6, <3>1 DEF Fields
    <3>2. CASE r = new
      BY <1>6, <3>2 DEF Fields
    <3> QED BY <1>9, <3>1, <3>2
  <2>2. room.ws[w] \in Records /\ ~room.ws[w].ws_ptr /\ room.ws[w].cur_size = amount
    BY <1>1, <1>5, <1>9 DEF Records
  <2>3. /\ Sized(room.ws, DOMAIN room.ws) /\ Space(room.ws, DOMAIN room.ws) \in Nat
    BY <1>3, RecordsSized DEF Sound
  <2>4. SizeOf(room.ws[w]) = 0
    BY <2>2 DEF SizeOf
  <2>5. CASE r = no /\ ~Fits(room, amount)
    <3>1. r.total_size = room.total_size /\ r.ws[w] = [room.ws[w] EXCEPT !.in_use = FALSE]
      BY <1>6, <2>5 DEF Fields
    <3>2. SizeOf(r.ws[w]) = 0
      BY <2>2, <3>1 DEF SizeOf, Records
    <3>3. \A v \in DOMAIN room.ws : SizeOf(r.ws[v]) = SizeOf(room.ws[v])
      BY <2>1, <2>4, <3>2
    <3>4. Space(r.ws, DOMAIN room.ws) = Space(room.ws, DOMAIN room.ws)
      BY <2>3, <3>3, SpaceSame
    <3>5. Account(r)
      BY <1>3, <2>1, <3>1, <3>4 DEF Account
    <3>6. NothingIdle(r)
      BY <1>3, <1>6, <2>1, <2>5 DEF NothingIdle, Sound, IdleSound
    <3> QED BY <3>5, <3>6 DEF Justified, r
  <2>6. CASE r = new
    <3>1. /\ r.total_size = room.total_size + amount /\ r.ret = "ok"
          /\ r.ws[w] = [room.ws[w] EXCEPT !.ws_ptr = TRUE, !.data_intact = FALSE]
      BY <1>6, <2>6 DEF Fields
    <3>2. SizeOf(r.ws[w]) = amount
      BY <2>2, <3>1 DEF SizeOf, Records
    <3>3. Sized(r.ws, DOMAIN room.ws)
      BY <1>1, <2>1, <2>3, <3>2 DEF Sized
    <3>4. Space(r.ws, DOMAIN room.ws) = Space(room.ws, DOMAIN room.ws) + amount
      <4>1. Space(r.ws, DOMAIN room.ws)
              = Space(room.ws, DOMAIN room.ws) - SizeOf(room.ws[w]) + SizeOf(r.ws[w])
        BY <1>6, <2>1, <2>3, <3>3, SpaceChanged
      <4> QED BY <1>1, <2>3, <2>4, <3>2, <4>1
    <3>5. Account(r)
      BY <1>3, <2>1, <3>1, <3>4 DEF Account
    <3> QED BY <3>1, <3>5 DEF Justified, r
  <2> QED BY <1>9, <2>5, <2>6
<1> QED BY <1>4, <1>7, <1>8, <1>9

LEMMA ResizeCounted ==
  ASSUME NEW s, Sound(s), Account(s), NEW w \in DOMAIN s.ws, s.ws[w].in_use, s.ws[w].ws_ptr,
         NEW amount \in Int, s.ws[w].cur_size + amount \in Nat \ {0}
  PROVE  LET r == ChangeWorkspaceSize(s, w, amount)
         IN  Account(r) /\ Justified(r)
<1> DEFINE room == MakeRoom(s, amount)
           old == s.ws[w]
           bigger == [room EXCEPT !.ws[w].cur_size = @ + amount,
                                  !.total_size = @ + amount, !.ret = "ok"]
           no == [room EXCEPT !.ret = "refused"]
           r == ChangeWorkspaceSize(s, w, amount)
<1>1. /\ Sound(room) /\ DOMAIN room.ws = DOMAIN s.ws /\ room.idle = s.idle
      /\ \A v \in DOMAIN s.ws :
           room.ws[v] = s.ws[v] \/ (~s.ws[v].in_use /\ room.ws[v] = Emptied(s.ws[v]))
      /\ Account(room)
      /\ ~Fits(room, amount) => NothingIdle(room)
  BY RoomMade, RoomCounted
<1>2. r = bigger \/ (r = no /\ ~Fits(room, amount))
  BY DEF ChangeWorkspaceSize
<1> HIDE DEF room, r
<1>3. /\ room.ws[w] = old /\ Fields \subseteq DOMAIN room /\ old \in Records
      /\ w \in DOMAIN room.ws
  BY <1>1 DEF Sound, RecordsSound
<1>4. CASE r = no /\ ~Fits(room, amount)
  BY <1>1, <1>3, <1>4 DEF Fields, Account, Justified, NothingIdle, r
<1>5. CASE r = bigger
  <2>1. /\ DOMAIN r.ws = DOMAIN room.ws
        /\ \A v \in DOMAIN room.ws \ {w} : r.ws[v] = room.ws[v]
        /\ r.maximum_size = room.maximum_size /\ r.threshold_size = room.threshold_size
        /\ r.total_size = room.total_size + amount /\ r.ret = "ok"
        /\ r.ws[w] = [room.ws[w] EXCEPT !.cur_size = @ + amount]
    BY <1>3, <1>5 DEF Fields
  <2>2. Sized(room.ws, DOMAIN room.ws) /\ Space(room.ws, DOMAIN room.ws) \in Nat
    BY <1>1, RecordsSized DEF Sound
  <2>3. SizeOf(room.ws[w]) = old.cur_size /\ SizeOf(r.ws[w]) = old.cur_size + amount
        /\ old.cur_size \in Nat
    BY <1>3, <2>1 DEF SizeOf, Records
  <2>4. Sized(r.ws, DOMAIN room.ws)
    BY <2>1, <2>2, <2>3 DEF Sized
  <2>5. Space(r.ws, DOMAIN room.ws)
          = Space(room.ws, DOMAIN room.ws) - SizeOf(room.ws[w]) + SizeOf(r.ws[w])
    BY <1>3, <2>1, <2>2, <2>4, SpaceChanged
  <2>6. Account(r)
    <3>1. room.total_size = Space(room.ws, DOMAIN room.ws)
      BY <1>1 DEF Account
    <3>2. r.total_size = Space(r.ws, DOMAIN r.ws)
      BY <2>1, <2>2, <2>3, <2>5, <3>1
    <3> QED BY <1>1, <2>1, <3>2 DEF Account
  <2> QED BY <2>1, <2>6 DEF Justified, r
<1> QED BY <1>2, <1>4, <1>5

\* The total follows what one workspace has more or less.
LEMMA OneCounted ==
  ASSUME NEW s, NEW r, RecordsSound(s), Account(s), NEW w \in DOMAIN s.ws,
         DOMAIN r.ws = DOMAIN s.ws, \A v \in DOMAIN s.ws \ {w} : r.ws[v] = s.ws[v],
         SizeOf(r.ws[w]) \in Nat,
         r.total_size = s.total_size - SizeOf(s.ws[w]) + SizeOf(r.ws[w]),
         r.maximum_size = s.maximum_size, r.threshold_size = s.threshold_size
  PROVE  Account(r)
<1>1. Sized(s.ws, DOMAIN s.ws) /\ Space(s.ws, DOMAIN s.ws) \in Nat
  BY RecordsSized
<1>2. Sized(r.ws, DOMAIN s.ws)
  BY <1>1 DEF Sized
<1>3. Space(r.ws, DOMAIN s.ws)
        = Space(s.ws, DOMAIN s.ws) - SizeOf(s.ws[w]) + SizeOf(r.ws[w])
  BY <1>1, <1>2, SpaceChanged
<1> QED BY <1>3 DEF Account

\* A workspace whose area map begins anew, before it gets its size.
Begun(s, w) == [s EXCEPT !.ws[w].data_intact = FALSE, !.ret = "ok"]

LEMMA BegunCounted ==
  ASSUME NEW s, Sound(s), Account(s), NEW w \in DOMAIN s.ws, s.ws[w].in_use, s.ws[w].ws_ptr
  PROVE  LET begun == Begun(s, w)
         IN  /\ Sound(begun) /\ DOMAIN begun.ws = DOMAIN s.ws /\ Account(begun)
             /\ begun.ws[w] = [s.ws[w] EXCEPT !.data_intact = FALSE] /\ begun.ret = "ok"
             /\ begun.idle = s.idle
             /\ \A v \in DOMAIN s.ws \ {w} : begun.ws[v] = s.ws[v]
<1> DEFINE old == s.ws[w]
           begun == Begun(s, w)
           new == [old EXCEPT !.data_intact = FALSE]
<1>1. /\ old \in Records /\ w \notin Range(s.idle) /\ Fields \subseteq DOMAIN s
      /\ RecordsSound(s) /\ SizeOf(old) \in Nat /\ s.total_size \in Nat
  BY RecordsSized DEF Sound, RecordsSound, IdleSound, Sized, Account
<1>2. /\ begun.idle = s.idle /\ begun.slots = s.slots /\ begun.free = s.free
      /\ begun.last_ws_id = s.last_ws_id /\ Fields \subseteq DOMAIN begun
      /\ begun.total_size = s.total_size /\ begun.ret = "ok"
      /\ begun.maximum_size = s.maximum_size /\ begun.threshold_size = s.threshold_size
  BY <1>1 DEF Begun, Fields
<1>3. begun.ws = [s.ws EXCEPT ![w] = new]
  BY <1>1 DEF Begun, Fields
<1>4. new \in Records /\ new.in_use /\ ~new.data_intact /\ SizeOf(new) = SizeOf(old)
  BY <1>1 DEF Records, SizeOf
<1> HIDE DEF begun, new
<1>5. /\ Sound(begun) /\ DOMAIN begun.ws = DOMAIN s.ws /\ begun.ws[w] = new
      /\ \A v \in DOMAIN s.ws \ {w} : begun.ws[v] = s.ws[v]
  BY <1>1, <1>2, <1>3, <1>4, RecordChanged
<1> HIDE DEF old
<1>6. begun.total_size = s.total_size - SizeOf(s.ws[w]) + SizeOf(begun.ws[w])
      /\ SizeOf(begun.ws[w]) \in Nat
  BY <1>1, <1>2, <1>4, <1>5 DEF old
<1>7. Account(begun)
  BY <1>1, <1>2, <1>5, <1>6, OneCounted
<1> QED BY <1>2, <1>5, <1>7 DEF begun, new, old

LEMMA ArinamCounted ==
  ASSUME NEW s, Sound(s), Account(s), NEW w \in DOMAIN s.ws, s.ws[w].in_use, s.ws[w].ws_ptr
  PROVE  LET r == Arinam(s, w)
         IN  Account(r) /\ Justified(r)
<1> DEFINE old == s.ws[w]
           begun == Begun(s, w)
           sized == IF old.cur_size = old.req_size THEN begun
                    ELSE ChangeWorkspaceSize(begun, w, old.req_size - old.cur_size)
           r == Arinam(s, w)
<1>1. old \in Records
  BY DEF Sound, RecordsSound
<1>2. /\ Sound(begun) /\ DOMAIN begun.ws = DOMAIN s.ws /\ Account(begun)
      /\ begun.ws[w] = [old EXCEPT !.data_intact = FALSE] /\ begun.ret = "ok"
  BY BegunCounted
<1>3. r = sized \/ (r = [sized EXCEPT !.ws[w].content = Partial] /\ sized.ret = "ok")
  BY DEF Arinam, Begun
<1> HIDE DEF begun, r
<1>4. /\ begun.ws[w] \in Records /\ begun.ws[w].in_use /\ begun.ws[w].ws_ptr
      /\ begun.ws[w].cur_size = old.cur_size
  BY <1>1, <1>2, ZenonT(60) DEF Records
<1>5. Sound(sized) /\ DOMAIN sized.ws = DOMAIN s.ws /\ Account(sized) /\ Justified(sized)
  <2>1. CASE sized = begun
    BY <1>2, <2>1 DEF Justified
  <2>2. CASE sized = ChangeWorkspaceSize(begun, w, old.req_size - old.cur_size)
    <3> DEFINE amount == old.req_size - old.cur_size
               t == ChangeWorkspaceSize(begun, w, amount)
    <3>1. amount \in Int /\ begun.ws[w].cur_size + amount \in Nat \ {0}
      BY <1>1, <1>4 DEF Records
    <3> HIDE DEF amount
    <3>2. Sound(t) /\ DOMAIN t.ws = DOMAIN begun.ws /\ Account(t) /\ Justified(t)
      <4>1. /\ Sound(begun) /\ w \in DOMAIN begun.ws /\ begun.ws[w].in_use
            /\ begun.ws[w].ws_ptr /\ Account(begun)
        BY <1>2, <1>4
      <4> HIDE DEF old, sized
      <4> QED BY <3>1, <4>1, ResizeKeeps, ResizeCounted
    <3> HIDE DEF t
    <3>3. sized = t
      BY <2>2 DEF t, amount
    <3> HIDE DEF sized
    <3> QED BY <1>2, <3>2, <3>3
  <2> QED BY <2>1, <2>2
<1> HIDE DEF sized
<1>6. CASE r = sized
  BY <1>5, <1>6 DEF r
<1>7. CASE r = [sized EXCEPT !.ws[w].content = Partial] /\ sized.ret = "ok"
  <2>0. /\ RecordsSound(sized) /\ Fields \subseteq DOMAIN sized /\ w \in DOMAIN sized.ws
        /\ sized.ws[w] \in Records /\ SizeOf(sized.ws[w]) \in Nat /\ sized.total_size \in Nat
    BY <1>5, RecordsSized DEF Sound, RecordsSound, Account, Sized
  <2>1. /\ r.total_size = sized.total_size /\ r.ret = "ok"
        /\ r.maximum_size = sized.maximum_size /\ r.threshold_size = sized.threshold_size
        /\ DOMAIN r.ws = DOMAIN sized.ws
        /\ \A v \in DOMAIN sized.ws \ {w} : r.ws[v] = sized.ws[v]
        /\ r.ws[w] = [sized.ws[w] EXCEPT !.content = Partial]
    BY <1>7, <2>0 DEF Fields
  <2>2. SizeOf(r.ws[w]) = SizeOf(sized.ws[w])
    BY <2>0, <2>1 DEF SizeOf, Records
  <2>3. r.total_size = sized.total_size - SizeOf(sized.ws[w]) + SizeOf(r.ws[w])
    BY <2>0, <2>1, <2>2
  <2>4. Account(r)
    BY <1>5, <2>0, <2>1, <2>2, <2>3, OneCounted
  <2> QED BY <2>1, <2>4 DEF Justified, r
<1> QED BY <1>3, <1>6, <1>7

LEMMA IdleCounted ==
  ASSUME NEW s, Sound(s), Account(s), NEW w \in DOMAIN s.ws, s.ws[w].in_use, s.ws[w].ws_ptr,
         NEW size \in Nat \ {0}
  PROVE  LET r == IdleWorkspace(s, w, size)
         IN  Account(r) /\ Justified(r)
<1> DEFINE idled == [s EXCEPT !.total_size = @ - (s.ws[w].cur_size - size),
                              !.ws[w].cur_size = size,
                              !.ws[w].in_use = FALSE,
                              !.ws[w].data_intact = TRUE,
                              !.ret = "ok"]
           more == Refilled(idled)
           r == IdleWorkspace(s, w, size)
<1>1. /\ s.ws[w] \in Records /\ Fields \subseteq DOMAIN s /\ RecordsSound(s)
      /\ s.total_size \in Nat
  BY RecordsSized DEF Sound, RecordsSound, Account
<1>2. r = [more EXCEPT !.free = @ - 1, !.idle = <<w>> \o @]
  BY DEF IdleWorkspace, AddToIdleList
<1>3. more = idled \/ more = [idled EXCEPT !.slots = @ + Chunk, !.free = Chunk]
  BY DEF Refilled
<1>4. /\ idled.total_size = s.total_size - (s.ws[w].cur_size - size) /\ idled.ret = "ok"
      /\ idled.maximum_size = s.maximum_size /\ idled.threshold_size = s.threshold_size
      /\ Fields \subseteq DOMAIN idled
  BY <1>1 DEF Fields
<1> HIDE DEF idled, more
<1>5. /\ more.total_size = idled.total_size /\ more.ret = idled.ret
      /\ more.maximum_size = idled.maximum_size /\ more.threshold_size = idled.threshold_size
      /\ Fields \subseteq DOMAIN more
  BY <1>3, <1>4 DEF Fields
<1>6. /\ r.total_size = s.total_size - (s.ws[w].cur_size - size) /\ r.ret = "ok"
      /\ r.maximum_size = s.maximum_size /\ r.threshold_size = s.threshold_size
  <2> HIDE DEF r
  <2> QED BY <1>2, <1>4, <1>5 DEF Fields
<1>7. /\ DOMAIN r.ws = DOMAIN s.ws /\ OthersKept(s, r, w)
      /\ r.ws[w] = Idled(s.ws[w], size)
      /\ \A v \in DOMAIN s.ws \ {w} : r.ws[v] = s.ws[v]
  <2>1. DOMAIN r.ws = DOMAIN s.ws /\ OthersKept(s, r, w) /\ r.ws[w] = Idled(s.ws[w], size)
    BY IdleKeeps
  <2>2. r.ws = idled.ws
    <3>1. more.ws = idled.ws
      BY <1>3, <1>4 DEF Fields
    <3> HIDE DEF r
    <3> QED BY <1>2, <1>5, <3>1 DEF Fields
  <2>3. \A v \in DOMAIN s.ws \ {w} : idled.ws[v] = s.ws[v]
    BY <1>1 DEF idled, Fields
  <2> QED BY <2>1, <2>2, <2>3
<1> HIDE DEF r
<1>8. /\ SizeOf(s.ws[w]) = s.ws[w].cur_size /\ SizeOf(r.ws[w]) = size
      /\ s.ws[w].cur_size \in Nat
  BY <1>1, <1>7 DEF SizeOf, Idled, Records
<1>9. r.total_size = s.total_size - SizeOf(s.ws[w]) + SizeOf(r.ws[w])
  BY <1>1, <1>6, <1>8
<1>10. Account(r)
  BY <1>1, <1>6, <1>7, <1>8, <1>9, OneCounted
<1> QED BY <1>6, <1>10 DEF Justified, r

LEMMA NewCounted ==
  ASSUME NEW s, Sound(s), Account(s), NEW owner \in {"plot", "map"}, NEW type \in Types,
         NEW size \in Nat \ {0}
  PROVE  LET r == NewWorkspace(s, owner, type, size)
         IN  Account(r) /\ Justified(r)
<1> DEFINE w == s.last_ws_id + 1
           r == NewWorkspace(s, owner, type, size)
<1>1. /\ Sound(r) /\ DOMAIN r.ws = DOMAIN s.ws \cup {w} /\ w \notin DOMAIN s.ws
      /\ r.ret = "ok"
      /\ \A v \in DOMAIN s.ws : r.ws[v] = s.ws[v]
  BY NewKeeps
<1>2. /\ r.total_size = s.total_size /\ ~r.ws[w].ws_ptr
      /\ r.maximum_size = s.maximum_size /\ r.threshold_size = s.threshold_size
  BY DEF NewWorkspace, Sound, RecordsSound, Fields
<1> HIDE DEF r, w
<1>3. Sized(r.ws, DOMAIN r.ws) /\ Sized(s.ws, DOMAIN s.ws)
  BY <1>1, RecordsSized DEF Sound
<1>4. DOMAIN r.ws \ {w} = DOMAIN s.ws /\ w \in DOMAIN r.ws
  BY <1>1
<1>5. /\ Space(r.ws, DOMAIN r.ws) = SizeOf(r.ws[w]) + Space(r.ws, DOMAIN s.ws)
  BY <1>3, <1>4, SpaceWithout
<1>6. SizeOf(r.ws[w]) = 0
  BY <1>2 DEF SizeOf
<1>7. Space(r.ws, DOMAIN s.ws) \in Nat /\ Space(r.ws, DOMAIN s.ws) = Space(s.ws, DOMAIN s.ws)
  BY <1>1, <1>3, SpaceSame
<1> QED BY <1>1, <1>2, <1>5, <1>6, <1>7 DEF Account, Justified, r

LEMMA FreeCounted ==
  ASSUME NEW s, Sound(s), Account(s), NEW w \in DOMAIN s.ws
  PROVE  LET r == FreeWorkspace(s, w)
         IN  Account(r) /\ Justified(r)
<1> DEFINE off == IF s.ws[w].in_use THEN s ELSE RemoveFromIdleList(s, w)
           r == FreeWorkspace(s, w)
<1>1. /\ off.total_size = s.total_size /\ Fields \subseteq DOMAIN off /\ off.ws = s.ws
      /\ off.maximum_size = s.maximum_size /\ off.threshold_size = s.threshold_size
  BY TakenOff, OffCounted DEF Sound, RecordsSound
<1>2. r = [off EXCEPT !.total_size = @ - Space(s.ws, {w}), !.ret = "ok",
                      !.ws = [v \in DOMAIN @ \ {w} |-> @[v]]]
  BY DEF FreeWorkspace
<1> HIDE DEF off
<1>3. /\ r.total_size = s.total_size - Space(s.ws, {w}) /\ r.ret = "ok"
      /\ r.maximum_size = s.maximum_size /\ r.threshold_size = s.threshold_size
      /\ DOMAIN r.ws = DOMAIN s.ws \ {w}
      /\ \A v \in DOMAIN s.ws \ {w} : r.ws[v] = s.ws[v]
  <2> HIDE DEF r
  <2> QED BY <1>1, <1>2 DEF Fields
<1> HIDE DEF r
<1>4. Sized(s.ws, DOMAIN s.ws)
  BY RecordsSized DEF Sound
<1>5. /\ Space(s.ws, DOMAIN s.ws \ {w}) \in Nat /\ SizeOf(s.ws[w]) \in Nat
      /\ Space(s.ws, DOMAIN s.ws) = SizeOf(s.ws[w]) + Space(s.ws, DOMAIN s.ws \ {w})
      /\ Sized(s.ws, DOMAIN s.ws \ {w})
      /\ Space(s.ws, {w}) = SizeOf(s.ws[w])
  BY <1>4, SpaceWithout, SpaceOfOne
<1>6. Space(r.ws, DOMAIN s.ws \ {w}) = Space(s.ws, DOMAIN s.ws \ {w})
  BY <1>3, <1>5, SpaceSame
<1> QED BY <1>3, <1>5, <1>6 DEF Account, Justified, r

-----------------------------------------------------------------------------
(* The steps *)

SpaceIInv == IInv /\ Account(wsp) /\ Justified(wsp)

Counted == Account(wsp)' /\ Justified(wsp)'

LEMMA InitCounts ==
  ASSUME Init PROVE SpaceIInv
<1>1. IInv
  BY InitEstablishes
<1>2. PICK l \in Limits :
        wsp = [ws |-> <<>>, idle |-> <<>>, slots |-> 0, free |-> 0, total_size |-> 0,
               maximum_size |-> l[1], threshold_size |-> IF l[2] > l[1] THEN l[1] ELSE l[2],
               last_ws_id |-> 0, ret |-> "ok"]
  BY DEF Init
<1>3. l[1] \in Nat /\ l[2] \in Nat
  BY LimitAssumption
<1>4. DOMAIN wsp.ws = {} /\ wsp.total_size = 0 /\ wsp.ret = "ok"
  BY <1>2
<1>5. Space(wsp.ws, {}) = 0
  BY SpaceOfFirst, FS_EmptySet
<1>6. /\ wsp.maximum_size = l[1]
      /\ wsp.threshold_size = IF l[2] > l[1] THEN l[1] ELSE l[2]
  BY <1>2
<1> QED BY <1>1, <1>3, <1>4, <1>5, <1>6 DEF SpaceIInv, Account, Justified

LEMMA SetValuesCounts ==
  ASSUME SpaceIInv, NEW l \in Limits, SetValues(l[1], l[2]) PROVE Counted
<1>1. l[1] \in Nat /\ l[2] \in Nat
  BY LimitAssumption
<1>2. /\ wsp'.ws = wsp.ws /\ wsp'.idle = wsp.idle /\ wsp'.ret = wsp.ret
      /\ wsp'.total_size = wsp.total_size /\ wsp'.maximum_size = l[1]
      /\ wsp'.threshold_size = IF l[2] > l[1] THEN l[1] ELSE l[2]
  BY DEF SetValues, SpaceIInv, IInv, Sound, RecordsSound, Fields
<1> QED BY <1>1, <1>2 DEF SpaceIInv, Counted, Account, Justified, NothingIdle

\* What a client holds is lent and has its storage.
LEMMA HeldIsLent ==
  ASSUME IInv, NEW w, w \in held \/ (Drawing /\ w = map.aws)
  PROVE  w \in DOMAIN wsp.ws /\ wsp.ws[w].in_use /\ wsp.ws[w].ws_ptr /\ wsp.ws[w] \in Records
BY DEF IInv, ClientsSound, Lent, Ids, Sound, RecordsSound

LEMMA EnlargeCounted ==
  ASSUME NEW s, Sound(s), Account(s), NEW w \in DOMAIN s.ws, s.ws[w].in_use, s.ws[w].ws_ptr
  PROVE  LET r == EnlargeWorkspace(s, w)
         IN  Account(r) /\ Justified(r)
<1> DEFINE amount == s.ws[w].cur_size
<1>1. amount \in Int /\ s.ws[w].cur_size + amount \in Nat \ {0}
  BY DEF Sound, RecordsSound, Records
<1>2. EnlargeWorkspace(s, w) = ChangeWorkspaceSize(s, w, amount)
  BY DEF EnlargeWorkspace
<1> HIDE DEF amount
<1> QED BY <1>1, <1>2, ResizeCounted

LEMMA PlotCounts ==
  ASSUME SpaceIInv, NEW w \in Plots,
         PlotUse(w) \/ PlotArinam(w) \/ PlotOverflow(w) \/ PlotIdle(w) \/ PlotFree(w)
  PROVE  Counted
<1>1. Sound(wsp) /\ Account(wsp) /\ w \in DOMAIN wsp.ws
  BY DEF SpaceIInv, IInv, Plots, Ids
<1>2. w \in held => wsp.ws[w].in_use /\ wsp.ws[w].ws_ptr /\ wsp.ws[w] \in Records
  BY HeldIsLent DEF SpaceIInv
<1>3. CASE PlotUse(w)
  BY <1>1, <1>3, UseCounted DEF PlotUse, Counted
<1>4. CASE PlotArinam(w)
  BY <1>1, <1>2, <1>4, ArinamCounted DEF PlotArinam, Counted
<1>5. CASE PlotOverflow(w)
  BY <1>1, <1>2, <1>5, EnlargeCounted DEF PlotOverflow, Counted
<1>6. CASE PlotIdle(w)
  <2>1. PICK size \in Trimmed(wsp.ws[w]) : wsp' = IdleWorkspace(wsp, w, size)
    BY <1>6 DEF PlotIdle
  <2>2. size \in Nat \ {0} /\ w \in held
    BY <1>2, <1>6, TrimmedSizes DEF PlotIdle
  <2> QED BY <1>1, <1>2, <2>1, <2>2, IdleCounted DEF Counted
<1>7. CASE PlotFree(w)
  BY <1>1, <1>7, FreeCounted DEF PlotFree, Counted
<1> QED BY <1>3, <1>4, <1>5, <1>6, <1>7

LEMMA SetUpAreamapCounts ==
  ASSUME SpaceIInv, NEW what \in {"fill", "grid"}, NEW size \in MapSizes,
         SetUpAreamap(what, size)
  PROVE  Counted
<1> DEFINE made == IF map.aws_id = NoId THEN NewWorkspace(wsp, "map", "AREAMAP", size) ELSE wsp
           aws == IF map.aws_id = NoId THEN made.last_ws_id ELSE map.aws_id
           used == UseWorkspace(made, aws)
           begun == [used EXCEPT !.ws[aws].req_size = size]
<1>1. Sound(wsp) /\ Account(wsp) /\ size \in Nat \ {0} /\ ClientsSound
  BY SizeAssumption DEF SpaceIInv, IInv
<1>2. wsp' = used \/ (wsp' = begun /\ used.ret = "ok")
  BY DEF SetUpAreamap
<1>3. Sound(made) /\ Account(made) /\ aws \in DOMAIN made.ws
  <2>1. CASE map.aws_id = NoId
    <3>1. made = NewWorkspace(wsp, "map", "AREAMAP", size) /\ aws = made.last_ws_id
      BY <2>1
    <3>2. "AREAMAP" \in Types /\ "map" \in {"plot", "map"}
      BY DEF Types
    <3> HIDE DEF made, used, begun, aws
    <3>3. /\ Sound(made) /\ DOMAIN made.ws = DOMAIN wsp.ws \cup {wsp.last_ws_id + 1}
          /\ made.last_ws_id = wsp.last_ws_id + 1
      BY <1>1, <3>1, NewMapWorkspace
    <3>4. Account(made)
      BY <1>1, <3>1, <3>2, NewCounted
    <3> QED BY <3>1, <3>3, <3>4
  <2>2. CASE map.aws_id # NoId
    BY <1>1, <2>2 DEF ClientsSound, Ids
  <2> QED BY <2>1, <2>2
<1> HIDE DEF made, aws
<1>4. Account(used) /\ Justified(used) /\ Sound(used) /\ DOMAIN used.ws = DOMAIN made.ws
  BY <1>3, UseCounted, UseKeeps
<1> HIDE DEF used
<1>5. CASE wsp' = used
  BY <1>4, <1>5 DEF Counted
<1>6. CASE wsp' = begun /\ used.ret = "ok"
  <2>1. /\ Fields \subseteq DOMAIN used /\ aws \in DOMAIN used.ws /\ RecordsSound(used)
        /\ used.ws[aws] \in Records /\ used.total_size \in Nat
    BY <1>3, <1>4, RecordsSized DEF Sound, RecordsSound, Account
  <2>2. /\ wsp'.total_size = used.total_size /\ wsp'.ret = "ok"
        /\ wsp'.maximum_size = used.maximum_size
        /\ wsp'.threshold_size = used.threshold_size
        /\ DOMAIN wsp'.ws = DOMAIN used.ws
        /\ \A v \in DOMAIN used.ws \ {aws} : wsp'.ws[v] = used.ws[v]
        /\ wsp'.ws[aws] = [used.ws[aws] EXCEPT !.req_size = size]
    BY <1>6, <2>1 DEF Fields
  <2> HIDE DEF begun
  <2>3. SizeOf(wsp'.ws[aws]) = SizeOf(used.ws[aws]) /\ SizeOf(used.ws[aws]) \in Nat
    BY <2>1, <2>2 DEF SizeOf, Records
  <2>4. wsp'.total_size = used.total_size - SizeOf(used.ws[aws]) + SizeOf(wsp'.ws[aws])
    BY <2>1, <2>2, <2>3
  <2>5. Account(wsp')
    BY <1>4, <2>1, <2>2, <2>3, <2>4, OneCounted
  <2> QED BY <2>2, <2>5 DEF Counted, Account, Justified
<1> QED BY <1>2, <1>5, <1>6

LEMMA MapCounts ==
  ASSUME SpaceIInv,
         MapArinam \/ MapBuilt \/ MapOverflow \/ MapError \/ MapDrawn \/ MapIdle \/ MapDestroy
  PROVE  Counted
<1>1. Sound(wsp) /\ Account(wsp) /\ Justified(wsp) /\ ClientsSound
  BY DEF SpaceIInv, IInv
<1>2. Drawing => /\ map.aws \in DOMAIN wsp.ws /\ wsp.ws[map.aws].in_use
                 /\ wsp.ws[map.aws].ws_ptr /\ wsp.ws[map.aws] \in Records
  BY HeldIsLent DEF SpaceIInv
<1>3. CASE MapArinam
  BY <1>1, <1>2, <1>3, ArinamCounted DEF MapArinam, Counted, Drawing
<1>4. CASE MapBuilt
  <2>1. wsp' = [wsp EXCEPT !.ws[map.aws].content = map.view] /\ Drawing
    BY <1>4 DEF MapBuilt, Drawing
  <2>2. /\ wsp'.total_size = wsp.total_size /\ wsp'.idle = wsp.idle /\ wsp'.ret = wsp.ret
        /\ wsp'.maximum_size = wsp.maximum_size
        /\ wsp'.threshold_size = wsp.threshold_size
        /\ DOMAIN wsp'.ws = DOMAIN wsp.ws
        /\ \A v \in DOMAIN wsp.ws \ {map.aws} : wsp'.ws[v] = wsp.ws[v]
        /\ wsp'.ws[map.aws] = [wsp.ws[map.aws] EXCEPT !.content = map.view]
    BY <1>1, <1>2, <2>1 DEF Sound, RecordsSound, Fields
  <2>3. SizeOf(wsp'.ws[map.aws]) = SizeOf(wsp.ws[map.aws]) /\ SizeOf(wsp.ws[map.aws]) \in Nat
        /\ wsp'.ws[map.aws].ws_ptr = wsp.ws[map.aws].ws_ptr
    BY <1>2, <2>1, <2>2 DEF SizeOf, Records
  <2>4. wsp.total_size \in Nat /\ RecordsSound(wsp)
    BY <1>1, RecordsSized DEF Sound, Account
  <2>5. wsp'.total_size = wsp.total_size - SizeOf(wsp.ws[map.aws]) + SizeOf(wsp'.ws[map.aws])
    BY <2>2, <2>3, <2>4
  <2>6. Account(wsp')
    <3>1. map.aws \in DOMAIN wsp.ws /\ SizeOf(wsp'.ws[map.aws]) \in Nat
      BY <1>2, <2>1, <2>3
    <3> QED BY <1>1, <2>2, <2>4, <2>5, <3>1, OneCounted
  <2>7. Justified(wsp')
    <3>1. \A w \in Range(wsp.idle) : w \in DOMAIN wsp.ws
      BY <1>1 DEF Sound, IdleSound
    <3>2. \A w \in DOMAIN wsp.ws : wsp'.ws[w].ws_ptr = wsp.ws[w].ws_ptr
      BY <2>2, <2>3
    <3> QED BY <1>1, <2>2, <3>1, <3>2 DEF Justified, NothingIdle
  <2> QED BY <2>6, <2>7 DEF Counted, Account, Justified, NothingIdle
<1>5. CASE MapOverflow
  BY <1>1, <1>2, <1>5, EnlargeCounted DEF MapOverflow, Counted, Drawing
<1>6. CASE MapError \/ MapDrawn
  BY <1>1, <1>6 DEF MapError, MapDrawn, Counted, Account, Justified, NothingIdle
<1>7. CASE MapIdle
  <2>1. PICK size \in Trimmed(wsp.ws[map.aws]) : wsp' = IdleWorkspace(wsp, map.aws, size)
    BY <1>7 DEF MapIdle
  <2>2. Drawing
    BY <1>7 DEF MapIdle, Drawing
  <2>3. size \in Nat \ {0}
    BY <1>2, <2>2, TrimmedSizes
  <2> QED BY <1>1, <1>2, <2>1, <2>2, <2>3, IdleCounted DEF Counted
<1>8. CASE MapDestroy
  <2>1. CASE map.aws_id = NoId
    BY <1>1, <1>8, <2>1 DEF MapDestroy, Counted, Account, Justified, NothingIdle
  <2>2. CASE map.aws_id # NoId
    <3>1. map.aws_id \in DOMAIN wsp.ws
      BY <1>1, <2>2 DEF ClientsSound, Ids
    <3> QED BY <1>1, <1>8, <2>2, <3>1, FreeCounted DEF MapDestroy, Counted
  <2> QED BY <2>1, <2>2
<1> QED BY <1>3, <1>4, <1>5, <1>6, <1>7, <1>8

LEMMA StepCounts ==
  ASSUME SpaceIInv, [Next]_vars PROVE SpaceIInv'
<1>1. IInv'
  BY StepKeeps DEF SpaceIInv
<1>2. Counted
  <2>1. CASE UNCHANGED vars
    BY <2>1 DEF vars, SpaceIInv, Counted, Account, Justified, NothingIdle
  <2>2. ASSUME NEW type \in Types, NEW size \in PlotSizes, PlotNew(type, size) PROVE Counted
    <3>1. size \in Nat \ {0}
      BY SizeAssumption
    <3> QED BY <2>2, <3>1, NewCounted DEF PlotNew, SpaceIInv, IInv, Counted
  <2>3. ASSUME NEW v \in Views, MapCreate(v) \/ ChangeView(v) PROVE Counted
    BY <2>3 DEF MapCreate, ChangeView, SpaceIInv, Counted, Account, Justified, NothingIdle
  <2> QED BY <2>1, <2>2, <2>3, SetValuesCounts, PlotCounts, SetUpAreamapCounts, MapCounts
          DEF Next
<1> QED BY <1>1, <1>2 DEF SpaceIInv, Counted

THEOREM SpaceInvariant ==
  Spec => []SpaceIInv
<1>1. Init => SpaceIInv
  BY InitCounts
<1>2. SpaceIInv /\ [Next]_vars => SpaceIInv'
  BY StepCounts
<1> QED BY <1>1, <1>2, PTL DEF Spec

\* The total that every limit is tested against is the storage the workspaces have,
\* after any use, trimming, enlarging and giving up, for any number of workspaces of
\* any sizes (_NhlUseWorkspace, ChangeWorkspaceSize, _NhlIdleWorkspace,
\* ReduceCurrentAlloc, _NhlFreeWorkspace).
THEOREM TotalStaysAccounted ==
  Spec => []Accounted
<1>1. SpaceIInv => Accounted
  BY DEF SpaceIInv, Account, Accounted, Ids
<1> QED BY <1>1, SpaceInvariant, PTL

\* A request is refused only when nothing idle has storage left to give up, because
\* what ReduceCurrentAlloc stops at leaves the total below the threshold, which
\* WorkspaceSetValues keeps within the maximum.
THEOREM RefusalsAreJustified ==
  Spec => []RefusedOnlyWhenFull
<1>1. SpaceIInv => RefusedOnlyWhenFull
  BY DEF SpaceIInv, Justified, NothingIdle, RefusedOnlyWhenFull
<1> QED BY <1>1, SpaceInvariant, PTL

-----------------------------------------------------------------------------
(* The order in which storage is given up *)

\* From s to r no workspace loses its storage but an idle one, and those that were
\* idled before it have none either, unless they were taken into use.
OldestFirst(s, r) ==
  \A w \in DOMAIN s.ws \cap DOMAIN r.ws :
    s.ws[w].ws_ptr /\ ~r.ws[w].ws_ptr =>
      \E k \in DOMAIN s.idle :
        /\ s.idle[k] = w
        /\ \A l \in k .. Len(s.idle) :
             s.idle[l] \in DOMAIN r.ws =>
               ~r.ws[s.idle[l]].ws_ptr \/ r.ws[s.idle[l]].in_use

\* What those behind in the list have is no more.
LEMMA SpaceWithin ==
  ASSUME NEW ws, NEW U, Sized(ws, U), NEW T \in SUBSET U, NEW S \in SUBSET T
  PROVE  Space(ws, S) \in Nat /\ Space(ws, T) \in Nat /\ Space(ws, S) <= Space(ws, T)
<1>1. Sized(ws, T) /\ Space(ws, T) \in Nat
  BY SpaceInParts
<1>2. /\ Space(ws, T \ S) \in Nat /\ Space(ws, S) \in Nat
      /\ Space(ws, T) = Space(ws, T \ S) + Space(ws, S)
  BY <1>1, SpaceInParts
<1> QED BY <1>1, <1>2

LEMMA RoomOldest ==
  ASSUME NEW s, Sound(s), Account(s), NEW amount \in Int
  PROVE  LET r == MakeRoom(s, amount)
         IN  \A w \in DOMAIN s.ws :
               s.ws[w].ws_ptr /\ ~r.ws[w].ws_ptr =>
                 \E k \in DOMAIN s.idle :
                   /\ s.idle[k] = w
                   /\ \A l \in k .. Len(s.idle) : ~r.ws[s.idle[l]].ws_ptr
<1> DEFINE over == s.total_size + amount - s.threshold_size
           U == DOMAIN s.ws
           Behind(k) == {s.idle[l] : l \in k + 1 .. Len(s.idle)}
           given == {w \in GivenUp(s, over) : s.ws[w].ws_ptr}
           r == MakeRoom(s, amount)
<1>1. /\ s.idle \in Seq(Nat) /\ Len(s.idle) \in Nat /\ DOMAIN s.idle = 1 .. Len(s.idle)
      /\ \A l \in 1 .. Len(s.idle) : s.idle[l] \in U
      /\ Fields \subseteq DOMAIN s
  BY DEF Sound, IdleSound, RecordsSound, Range
<1>2. /\ Sized(s.ws, U) /\ s.total_size \in Nat /\ s.threshold_size \in Nat /\ over \in Int
      /\ \A w \in U : s.ws[w] \in Records
  BY RecordsSized DEF Sound, RecordsSound, Account
<1>3. r = [s EXCEPT !.ws = [w \in DOMAIN @ |-> IF w \in given THEN Emptied(@[w]) ELSE @[w]],
                    !.total_size = @ - Space(s.ws, given)]
  BY DEF MakeRoom, ReduceCurrentAlloc
<1>4. given = {w \in {s.idle[k] : k \in {k \in DOMAIN s.idle : Space(s.ws, Behind(k)) < over}} :
                 s.ws[w].ws_ptr}
  BY DEF GivenUp
<1> HIDE DEF given, over
<1>5. r.ws = [w \in U |-> IF w \in given THEN Emptied(s.ws[w]) ELSE s.ws[w]]
  BY <1>1, <1>3 DEF Fields
<1>6. \A w \in U : r.ws[w].ws_ptr => s.ws[w].ws_ptr /\ w \notin given
  BY <1>2, <1>5, EmptiedIsRecord
<1> HIDE DEF r
<1>7. ASSUME NEW w \in U, s.ws[w].ws_ptr, ~r.ws[w].ws_ptr
      PROVE  \E k \in DOMAIN s.idle :
               /\ s.idle[k] = w
               /\ \A l \in k .. Len(s.idle) : ~r.ws[s.idle[l]].ws_ptr
  <2>1. w \in given
    BY <1>5, <1>7
  <2>2. PICK k \in 1 .. Len(s.idle) : s.idle[k] = w /\ Space(s.ws, Behind(k)) < over
    BY <1>1, <1>4, <2>1
  <2>3. ASSUME NEW l \in k .. Len(s.idle) PROVE ~r.ws[s.idle[l]].ws_ptr
    <3>1. l \in 1 .. Len(s.idle)
      BY <1>1, <2>2
    <3>2. Behind(k) \subseteq U
      <4>1. \A j \in k + 1 .. Len(s.idle) : j \in 1 .. Len(s.idle)
        BY <1>1, <2>2
      <4> QED BY <1>1, <4>1
    <3>3. Behind(l) \subseteq Behind(k)
      <4>1. \A j \in l + 1 .. Len(s.idle) : j \in k + 1 .. Len(s.idle)
        BY <1>1, <2>2, <3>1
      <4> QED BY <4>1
    <3> HIDE DEF Behind
    <3>4. /\ Space(s.ws, Behind(l)) \in Nat /\ Space(s.ws, Behind(k)) \in Nat
          /\ Space(s.ws, Behind(l)) <= Space(s.ws, Behind(k))
      BY <1>2, <3>2, <3>3, SpaceWithin
    <3>5. Space(s.ws, Behind(l)) < over
      BY <1>2, <2>2, <3>4
    <3>6. s.ws[s.idle[l]].ws_ptr => s.idle[l] \in given
      BY <1>1, <1>4, <3>1, <3>5
    <3> QED BY <1>1, <1>6, <3>1, <3>6
  <2> QED BY <1>1, <2>2, <2>3
<1> QED BY <1>7 DEF r

\* Where the workspaces of the idle list go when one is taken off it.
LEMMA OffOrder ==
  ASSUME NEW s, Sound(s), NEW w \in DOMAIN s.ws, NEW r, r.idle = RemoveFromIdleList(s, w).idle,
         NEW k \in DOMAIN r.idle
  PROVE  \E m \in DOMAIN s.idle :
           /\ s.idle[m] = r.idle[k]
           /\ \A l \in m .. Len(s.idle) :
                s.idle[l] = w \/ \E j \in k .. Len(r.idle) : r.idle[j] = s.idle[l]
<1>1. s.idle \in Seq(Nat) /\ IsInjective(s.idle) /\ Fields \subseteq DOMAIN s
  BY DEF Sound, IdleSound, RecordsSound
<1>2. Len(s.idle) \in Nat /\ DOMAIN s.idle = 1 .. Len(s.idle)
  BY <1>1
<1>3. CASE w \notin Range(s.idle)
  <2>1. r.idle = s.idle
    BY <1>3 DEF RemoveFromIdleList
  <2> QED BY <2>1
<1>4. CASE w \in Range(s.idle)
  <2>1. r.idle = RemoveFirst(s.idle, w)
    BY <1>1, <1>4 DEF RemoveFromIdleList, Fields
  <2>2. /\ r.idle \in Seq(Nat) /\ Len(r.idle) = Len(s.idle) - 1
        /\ \E p \in 1 .. Len(s.idle) :
             /\ s.idle[p] = w
             /\ \A j \in 1 .. Len(s.idle) - 1 :
                  r.idle[j] = IF j < p THEN s.idle[j] ELSE s.idle[j + 1]
    <3>1. /\ RemoveFirst(s.idle, w) \in Seq(Nat)
          /\ Len(RemoveFirst(s.idle, w)) = Len(s.idle) - 1
          /\ \E p \in 1 .. Len(s.idle) :
               /\ s.idle[p] = w
               /\ \A j \in 1 .. Len(s.idle) - 1 :
                    RemoveFirst(s.idle, w)[j] = IF j < p THEN s.idle[j] ELSE s.idle[j + 1]
      BY <1>1, <1>4, RemoveFirstAt
    <3> QED BY <2>1, <3>1
  <2>3. PICK p \in 1 .. Len(s.idle) :
          /\ s.idle[p] = w
          /\ \A j \in 1 .. Len(s.idle) - 1 :
               r.idle[j] = IF j < p THEN s.idle[j] ELSE s.idle[j + 1]
    BY <2>2
  <2>4. k \in 1 .. Len(s.idle) - 1
    BY <2>2, SMTT(60)
  <2> DEFINE m == IF k < p THEN k ELSE k + 1
  <2>5. m \in 1 .. Len(s.idle) /\ s.idle[m] = r.idle[k]
    BY <1>2, <2>3, <2>4
  <2>6. ASSUME NEW l \in m .. Len(s.idle), s.idle[l] # w
        PROVE  \E j \in k .. Len(r.idle) : r.idle[j] = s.idle[l]
    <3>1. l # p
      BY <2>3, <2>6
    <3>2. CASE l < p
      <4>1. l \in 1 .. Len(s.idle) - 1 /\ l \in k .. Len(r.idle)
        BY <1>2, <2>2, <2>4, <3>2
      <4> QED BY <2>3, <3>2, <4>1
    <3>3. CASE ~(l < p)
      <4>1. l - 1 \in 1 .. Len(s.idle) - 1 /\ l - 1 \in k .. Len(r.idle) /\ ~(l - 1 < p)
            /\ l - 1 + 1 = l
        BY <1>2, <2>2, <2>4, <3>1, <3>3
      <4> QED BY <2>3, <4>1
    <3> QED BY <3>2, <3>3
  <2> HIDE DEF m
  <2> QED BY <1>2, <2>5, <2>6
<1> QED BY <1>3, <1>4

LEMMA UseOldest ==
  ASSUME NEW s, Sound(s), Account(s), NEW w \in DOMAIN s.ws
  PROVE  OldestFirst(s, UseWorkspace(s, w))
<1> DEFINE amount == IF s.ws[w].ws_ptr THEN 0 ELSE s.ws[w].cur_size
           mine == Taken(s, w)
           room == MakeRoom(mine, amount)
           old == s.ws[w]
           r == UseWorkspace(s, w)
           got == [room EXCEPT !.ret = "ok"]
           no == [room EXCEPT !.ws[w].in_use = FALSE, !.ret = "refused"]
           new == [room EXCEPT !.ws[w].ws_ptr = TRUE, !.ws[w].data_intact = FALSE,
                               !.total_size = @ + amount, !.ret = "ok"]
<1>1. old \in Records /\ amount \in Int
  BY DEF Sound, RecordsSound, Records
<1>2. /\ Sound(mine) /\ DOMAIN mine.ws = DOMAIN s.ws /\ Account(mine)
      /\ mine.ws[w] = [old EXCEPT !.in_use = TRUE]
      /\ \A v \in DOMAIN s.ws \ {w} : mine.ws[v] = s.ws[v]
      /\ mine.idle = RemoveFromIdleList(s, w).idle
  BY TakenCounted
<1>3. \/ r = [s EXCEPT !.ret = "busy"]
      \/ old.ws_ptr /\ r = got
      \/ ~old.ws_ptr /\ r = no
      \/ r = new
  BY DEF UseWorkspace, Taken
<1> HIDE DEF mine, amount
<1>4. /\ Sound(room) /\ DOMAIN room.ws = DOMAIN s.ws /\ room.idle = mine.idle
      /\ \A v \in DOMAIN mine.ws :
           room.ws[v] = mine.ws[v] \/ (~mine.ws[v].in_use /\ room.ws[v] = Emptied(mine.ws[v]))
  BY <1>2, RoomMade
<1>5. \A v \in DOMAIN s.ws :
        mine.ws[v].ws_ptr /\ ~room.ws[v].ws_ptr =>
          \E k \in DOMAIN mine.idle :
            /\ mine.idle[k] = v
            /\ \A l \in k .. Len(mine.idle) : ~room.ws[mine.idle[l]].ws_ptr
  BY <1>1, <1>2, RoomOldest
<1> HIDE DEF room
<1>6. /\ room.ws[w] = [old EXCEPT !.in_use = TRUE] /\ w \in DOMAIN room.ws
      /\ Fields \subseteq DOMAIN room /\ Fields \subseteq DOMAIN s
  <2>1. mine.ws[w].in_use
    BY <1>1, <1>2 DEF Records
  <2> QED BY <1>2, <1>4, <2>1 DEF Sound, RecordsSound
<1> HIDE DEF r
<1>7. CASE r = [s EXCEPT !.ret = "busy"]
  BY <1>6, <1>7 DEF Fields, OldestFirst, r
<1>8. CASE (old.ws_ptr /\ r = got) \/ (~old.ws_ptr /\ r = no) \/ r = new
  <2>1. DOMAIN r.ws = DOMAIN s.ws /\ \A v \in DOMAIN s.ws \ {w} : r.ws[v] = room.ws[v]
    <3>1. CASE r = got
      BY <1>4, <1>6, <3>1 DEF Fields
    <3>2. CASE r = no
      BY <1>4, <1>6, <3>2 DEF Fields
    <3>3. CASE r = new
      BY <1>4, <1>6, <3>3 DEF Fields
    <3> QED BY <1>8, <3>1, <3>2, <3>3
  <2>2. /\ r.ws[w].in_use \/ ~r.ws[w].ws_ptr
        /\ old.ws_ptr => r.ws[w].ws_ptr
    <3>0. /\ room.ws[w] \in Records /\ room.ws[w].in_use
          /\ room.ws[w].ws_ptr = old.ws_ptr
      BY <1>1, <1>6 DEF Records
    <3>1. CASE old.ws_ptr /\ r = got
      BY <1>6, <3>0, <3>1 DEF Fields
    <3>2. CASE ~old.ws_ptr /\ r = no
      <4>1. r.ws[w] = [room.ws[w] EXCEPT !.in_use = FALSE]
        BY <1>6, <3>2 DEF Fields
      <4> QED BY <3>0, <3>2, <4>1 DEF Records
    <3>3. CASE r = new
      <4>1. r.ws[w] = [room.ws[w] EXCEPT !.ws_ptr = TRUE, !.data_intact = FALSE]
        BY <1>6, <3>3 DEF Fields
      <4> QED BY <3>0, <4>1 DEF Records
    <3> QED BY <1>8, <3>1, <3>2, <3>3
  <2> SUFFICES ASSUME NEW v \in DOMAIN s.ws, s.ws[v].ws_ptr, ~r.ws[v].ws_ptr
               PROVE  \E k \in DOMAIN s.idle :
                        /\ s.idle[k] = v
                        /\ \A l \in k .. Len(s.idle) :
                             ~r.ws[s.idle[l]].ws_ptr \/ r.ws[s.idle[l]].in_use
    BY DEF OldestFirst, r
  <2>3. v # w
    BY <2>2
  <2>4. mine.ws[v].ws_ptr /\ ~room.ws[v].ws_ptr
    BY <1>2, <2>1, <2>3
  <2>5. PICK k \in DOMAIN mine.idle :
          /\ mine.idle[k] = v
          /\ \A l \in k .. Len(mine.idle) : ~room.ws[mine.idle[l]].ws_ptr
    BY <1>5, <2>4
  <2>6. PICK m \in DOMAIN s.idle :
          /\ s.idle[m] = mine.idle[k]
          /\ \A l \in m .. Len(s.idle) :
               s.idle[l] = w \/ \E j \in k .. Len(mine.idle) : mine.idle[j] = s.idle[l]
    BY <1>2, OffOrder
  <2>7. ASSUME NEW l \in m .. Len(s.idle)
        PROVE  ~r.ws[s.idle[l]].ws_ptr \/ r.ws[s.idle[l]].in_use
    <3>1. CASE s.idle[l] = w
      BY <2>2, <3>1
    <3>2. CASE s.idle[l] # w
      <4>1. ~room.ws[s.idle[l]].ws_ptr
        BY <2>5, <2>6, <3>2
      <4>2. s.idle[l] \in DOMAIN s.ws
        <5>1. s.idle \in Seq(Nat) /\ l \in 1 .. Len(s.idle)
          BY DEF Sound, IdleSound
        <5> QED BY <5>1 DEF Sound, IdleSound, Range
      <4> QED BY <2>1, <3>2, <4>1, <4>2
    <3> QED BY <3>1, <3>2
  <2> QED BY <2>5, <2>6, <2>7
<1> QED BY <1>3, <1>7, <1>8 DEF r

LEMMA ResizeOldest ==
  ASSUME NEW s, Sound(s), Account(s), NEW w \in DOMAIN s.ws, s.ws[w].in_use,
         NEW amount \in Int
  PROVE  OldestFirst(s, ChangeWorkspaceSize(s, w, amount))
<1> DEFINE room == MakeRoom(s, amount)
           bigger == [room EXCEPT !.ws[w].cur_size = @ + amount,
                                  !.total_size = @ + amount, !.ret = "ok"]
           no == [room EXCEPT !.ret = "refused"]
           r == ChangeWorkspaceSize(s, w, amount)
<1>1. /\ Sound(room) /\ DOMAIN room.ws = DOMAIN s.ws
      /\ \A v \in DOMAIN s.ws :
           room.ws[v] = s.ws[v] \/ (~s.ws[v].in_use /\ room.ws[v] = Emptied(s.ws[v]))
      /\ \A v \in DOMAIN s.ws :
           s.ws[v].ws_ptr /\ ~room.ws[v].ws_ptr =>
             \E k \in DOMAIN s.idle :
               /\ s.idle[k] = v
               /\ \A l \in k .. Len(s.idle) : ~room.ws[s.idle[l]].ws_ptr
  BY RoomMade, RoomOldest
<1>2. r = bigger \/ r = no
  BY DEF ChangeWorkspaceSize
<1> HIDE DEF room, r
<1>3. /\ room.ws[w] = s.ws[w] /\ room.ws[w] \in Records /\ Fields \subseteq DOMAIN room
      /\ w \in DOMAIN room.ws
  BY <1>1 DEF Sound, RecordsSound
<1>4. /\ DOMAIN r.ws = DOMAIN s.ws
      /\ \A v \in DOMAIN s.ws : r.ws[v].ws_ptr = room.ws[v].ws_ptr
  <2>1. CASE r = no
    BY <1>1, <1>3, <2>1 DEF Fields
  <2>2. CASE r = bigger
    <3>1. /\ DOMAIN r.ws = DOMAIN room.ws
          /\ \A v \in DOMAIN room.ws \ {w} : r.ws[v] = room.ws[v]
          /\ r.ws[w] = [room.ws[w] EXCEPT !.cur_size = @ + amount]
      BY <1>3, <2>2 DEF Fields
    <3>2. r.ws[w].ws_ptr = room.ws[w].ws_ptr
      BY <1>3, <3>1 DEF Records
    <3> QED BY <1>1, <3>1, <3>2
  <2> QED BY <1>2, <2>1, <2>2
<1>5. \A k \in DOMAIN s.idle : \A l \in k .. Len(s.idle) : s.idle[l] \in DOMAIN s.ws
  <2>1. s.idle \in Seq(Nat)
    BY DEF Sound, IdleSound
  <2>2. \A l \in 1 .. Len(s.idle) : s.idle[l] \in DOMAIN s.ws
    BY <2>1 DEF Sound, IdleSound, Range
  <2> QED BY <2>1, <2>2
<1> QED BY <1>1, <1>4, <1>5 DEF OldestFirst, r

LEMMA ArinamOldest ==
  ASSUME NEW s, Sound(s), Account(s), NEW w \in DOMAIN s.ws, s.ws[w].in_use, s.ws[w].ws_ptr
  PROVE  OldestFirst(s, Arinam(s, w))
<1> DEFINE old == s.ws[w]
           begun == Begun(s, w)
           sized == IF old.cur_size = old.req_size THEN begun
                    ELSE ChangeWorkspaceSize(begun, w, old.req_size - old.cur_size)
           r == Arinam(s, w)
<1>1. old \in Records /\ old.req_size - old.cur_size \in Int
  BY DEF Sound, RecordsSound, Records
<1>2. /\ Sound(begun) /\ DOMAIN begun.ws = DOMAIN s.ws /\ Account(begun)
      /\ begun.ws[w] = [old EXCEPT !.data_intact = FALSE]
      /\ begun.idle = s.idle
      /\ \A v \in DOMAIN s.ws \ {w} : begun.ws[v] = s.ws[v]
  BY BegunCounted
<1>3. r = sized \/ r = [sized EXCEPT !.ws[w].content = Partial]
  BY DEF Arinam, Begun
<1> HIDE DEF begun, r
<1>4. begun.ws[w].in_use /\ begun.ws[w].ws_ptr = old.ws_ptr
  BY <1>1, <1>2 DEF Records
<1>5. OldestFirst(begun, sized) /\ Sound(sized) /\ DOMAIN sized.ws = DOMAIN s.ws
  <2>1. CASE sized = begun
    BY <1>2, <2>1 DEF OldestFirst
  <2>2. CASE sized = ChangeWorkspaceSize(begun, w, old.req_size - old.cur_size)
    <3>1. begun.ws[w].cur_size + (old.req_size - old.cur_size) \in Nat \ {0}
      BY <1>1, <1>2 DEF Records
    <3> DEFINE amount == old.req_size - old.cur_size
    <3>2. amount \in Int /\ begun.ws[w].cur_size + amount \in Nat \ {0}
      BY <1>1, <3>1
    <3> HIDE DEF amount
    <3>3. LET t == ChangeWorkspaceSize(begun, w, amount)
          IN  OldestFirst(begun, t) /\ Sound(t) /\ DOMAIN t.ws = DOMAIN begun.ws
      <4>1. Sound(begun) /\ w \in DOMAIN begun.ws /\ begun.ws[w].in_use /\ Account(begun)
        BY <1>2, <1>4
      <4> HIDE DEF sized, old
      <4> QED BY <3>2, <4>1, ResizeOldest, ResizeKeeps
    <3>4. sized = ChangeWorkspaceSize(begun, w, amount)
      BY <2>2 DEF amount
    <3> HIDE DEF sized
    <3> QED BY <1>2, <3>3, <3>4
  <2> QED BY <2>1, <2>2
<1> HIDE DEF sized
<1>6. \A v \in DOMAIN s.ws : begun.ws[v].ws_ptr = s.ws[v].ws_ptr
  BY <1>2, <1>4
<1>7. OldestFirst(s, sized)
  BY <1>2, <1>5, <1>6 DEF OldestFirst
<1>8. /\ DOMAIN r.ws = DOMAIN sized.ws
      /\ \A v \in DOMAIN sized.ws :
           r.ws[v].ws_ptr = sized.ws[v].ws_ptr /\ r.ws[v].in_use = sized.ws[v].in_use
  <2>1. CASE r = sized
    BY <2>1
  <2>2. CASE r = [sized EXCEPT !.ws[w].content = Partial]
    <3>1. Fields \subseteq DOMAIN sized /\ w \in DOMAIN sized.ws /\ sized.ws[w] \in Records
      BY <1>5 DEF Sound, RecordsSound
    <3>2. /\ DOMAIN r.ws = DOMAIN sized.ws
          /\ \A v \in DOMAIN sized.ws \ {w} : r.ws[v] = sized.ws[v]
          /\ r.ws[w] = [sized.ws[w] EXCEPT !.content = Partial]
      BY <2>2, <3>1 DEF Fields
    <3>3. r.ws[w].ws_ptr = sized.ws[w].ws_ptr /\ r.ws[w].in_use = sized.ws[w].in_use
      BY <3>1, <3>2 DEF Records
    <3> QED BY <3>2, <3>3
  <2> QED BY <1>3, <2>1, <2>2
<1> QED BY <1>5, <1>7, <1>8 DEF OldestFirst, r

\* A step that takes no storage.
LEMMA NothingTaken ==
  ASSUME NEW s, NEW r,
         \A w \in DOMAIN s.ws \cap DOMAIN r.ws : s.ws[w].ws_ptr => r.ws[w].ws_ptr
  PROVE  OldestFirst(s, r)
BY DEF OldestFirst

LEMMA EnlargeOldest ==
  ASSUME NEW s, Sound(s), Account(s), NEW w \in DOMAIN s.ws, s.ws[w].in_use
  PROVE  OldestFirst(s, EnlargeWorkspace(s, w))
<1> DEFINE amount == s.ws[w].cur_size
<1>1. amount \in Int
  BY DEF Sound, RecordsSound, Records
<1>2. EnlargeWorkspace(s, w) = ChangeWorkspaceSize(s, w, amount)
  BY DEF EnlargeWorkspace
<1> HIDE DEF amount
<1> QED BY <1>1, <1>2, ResizeOldest

LEMMA IdleTakesNothing ==
  ASSUME NEW s, Sound(s), NEW w \in DOMAIN s.ws, s.ws[w].in_use, s.ws[w].ws_ptr,
         NEW size \in Nat \ {0}
  PROVE  OldestFirst(s, IdleWorkspace(s, w, size))
<1> DEFINE r == IdleWorkspace(s, w, size)
           idled == [s EXCEPT !.total_size = @ - (s.ws[w].cur_size - size),
                              !.ws[w].cur_size = size,
                              !.ws[w].in_use = FALSE,
                              !.ws[w].data_intact = TRUE,
                              !.ret = "ok"]
           more == Refilled(idled)
<1>1. Fields \subseteq DOMAIN s /\ s.ws[w] \in Records
  BY DEF Sound, RecordsSound
<1>2. /\ \A v \in DOMAIN s.ws \ {w} : idled.ws[v] = s.ws[v]
      /\ Fields \subseteq DOMAIN idled
  BY <1>1 DEF Fields
<1>3. r = [more EXCEPT !.free = @ - 1, !.idle = <<w>> \o @]
  BY DEF IdleWorkspace, AddToIdleList
<1>4. more = idled \/ more = [idled EXCEPT !.slots = @ + Chunk, !.free = Chunk]
  BY DEF Refilled
<1> HIDE DEF idled, more
<1>5. more.ws = idled.ws /\ Fields \subseteq DOMAIN more
  BY <1>2, <1>4 DEF Fields
<1>6. DOMAIN r.ws = DOMAIN s.ws /\ r.ws[w] = Idled(s.ws[w], size)
  BY IdleKeeps
<1> HIDE DEF r
<1>7. r.ws = idled.ws
  BY <1>3, <1>5 DEF Fields
<1>8. r.ws[w].ws_ptr
  BY <1>1, <1>6 DEF Idled, Records
<1>9. \A v \in DOMAIN s.ws \cap DOMAIN r.ws : s.ws[v].ws_ptr => r.ws[v].ws_ptr
  BY <1>2, <1>6, <1>7, <1>8
<1> QED BY <1>9, NothingTaken DEF r

LEMMA FreeTakesNothing ==
  ASSUME NEW s, Sound(s), NEW w \in DOMAIN s.ws
  PROVE  OldestFirst(s, FreeWorkspace(s, w))
<1> DEFINE off == IF s.ws[w].in_use THEN s ELSE RemoveFromIdleList(s, w)
           r == FreeWorkspace(s, w)
<1>1. Fields \subseteq DOMAIN off /\ off.ws = s.ws
  BY TakenOff DEF Sound, RecordsSound
<1>2. r = [off EXCEPT !.total_size = @ - Space(s.ws, {w}), !.ret = "ok",
                      !.ws = [v \in DOMAIN @ \ {w} |-> @[v]]]
  BY DEF FreeWorkspace
<1> HIDE DEF off, r
<1>3. r.ws = [v \in DOMAIN s.ws \ {w} |-> s.ws[v]]
  BY <1>1, <1>2 DEF Fields
<1>4. \A v \in DOMAIN s.ws \cap DOMAIN r.ws : s.ws[v].ws_ptr => r.ws[v].ws_ptr
  BY <1>3
<1> QED BY <1>4, NothingTaken DEF r

LEMMA SetUpAreamapOldest ==
  ASSUME SpaceIInv, NEW what \in {"fill", "grid"}, NEW size \in MapSizes,
         SetUpAreamap(what, size)
  PROVE  OldestFirst(wsp, wsp')
<1> DEFINE made == IF map.aws_id = NoId THEN NewWorkspace(wsp, "map", "AREAMAP", size) ELSE wsp
           aws == IF map.aws_id = NoId THEN made.last_ws_id ELSE map.aws_id
           used == UseWorkspace(made, aws)
           begun == [used EXCEPT !.ws[aws].req_size = size]
<1>1. Sound(wsp) /\ Account(wsp) /\ size \in Nat \ {0} /\ ClientsSound
  BY SizeAssumption DEF SpaceIInv, IInv
<1>2. wsp' = used \/ wsp' = begun
  BY DEF SetUpAreamap
<1>3. /\ Sound(made) /\ Account(made) /\ aws \in DOMAIN made.ws /\ made.idle = wsp.idle
      /\ \A v \in DOMAIN wsp.ws : v \in DOMAIN made.ws /\ made.ws[v] = wsp.ws[v]
  <2>1. CASE map.aws_id = NoId
    <3>1. made = NewWorkspace(wsp, "map", "AREAMAP", size) /\ aws = made.last_ws_id
      BY <2>1
    <3>2. "AREAMAP" \in Types /\ "map" \in {"plot", "map"}
      BY DEF Types
    <3> HIDE DEF made, used, begun, aws
    <3>3. /\ Sound(made) /\ DOMAIN made.ws = DOMAIN wsp.ws \cup {wsp.last_ws_id + 1}
          /\ made.last_ws_id = wsp.last_ws_id + 1
          /\ \A v \in DOMAIN wsp.ws : made.ws[v] = wsp.ws[v]
      BY <1>1, <3>1, NewMapWorkspace
    <3>4. Account(made)
      BY <1>1, <3>1, <3>2, NewCounted
    <3>5. made.idle = wsp.idle
      BY <1>1, <3>1 DEF NewWorkspace, Sound, RecordsSound, Fields
    <3> QED BY <3>1, <3>3, <3>4, <3>5
  <2>2. CASE map.aws_id # NoId
    BY <1>1, <2>2 DEF ClientsSound, Ids
  <2> QED BY <2>1, <2>2
<1> HIDE DEF made, aws
<1>4. OldestFirst(made, used) /\ Sound(used) /\ DOMAIN used.ws = DOMAIN made.ws
  BY <1>3, UseOldest, UseKeeps
<1> HIDE DEF used
<1>5. /\ DOMAIN wsp'.ws = DOMAIN used.ws
      /\ \A v \in DOMAIN used.ws :
           wsp'.ws[v].ws_ptr = used.ws[v].ws_ptr /\ wsp'.ws[v].in_use = used.ws[v].in_use
  <2>1. CASE wsp' = used
    BY <2>1
  <2>2. CASE wsp' = begun
    <3>1. Fields \subseteq DOMAIN used /\ aws \in DOMAIN used.ws /\ used.ws[aws] \in Records
      BY <1>3, <1>4 DEF Sound, RecordsSound
    <3>2. /\ DOMAIN wsp'.ws = DOMAIN used.ws
          /\ \A v \in DOMAIN used.ws \ {aws} : wsp'.ws[v] = used.ws[v]
          /\ wsp'.ws[aws] = [used.ws[aws] EXCEPT !.req_size = size]
      BY <2>2, <3>1 DEF Fields
    <3>3. wsp'.ws[aws].ws_ptr = used.ws[aws].ws_ptr
          /\ wsp'.ws[aws].in_use = used.ws[aws].in_use
      BY <3>1, <3>2 DEF Records
    <3> QED BY <3>2, <3>3
  <2> QED BY <1>2, <2>1, <2>2
<1> QED BY <1>3, <1>4, <1>5 DEF OldestFirst

LEMMA PlotOldest ==
  ASSUME SpaceIInv, NEW w \in Plots,
         PlotUse(w) \/ PlotArinam(w) \/ PlotOverflow(w) \/ PlotIdle(w) \/ PlotFree(w)
  PROVE  OldestFirst(wsp, wsp')
<1>1. Sound(wsp) /\ Account(wsp) /\ w \in DOMAIN wsp.ws
  BY DEF SpaceIInv, IInv, Plots, Ids
<1>2. w \in held => wsp.ws[w].in_use /\ wsp.ws[w].ws_ptr /\ wsp.ws[w] \in Records
  BY HeldIsLent DEF SpaceIInv
<1>3. CASE PlotUse(w)
  BY <1>1, <1>3, UseOldest DEF PlotUse
<1>4. CASE PlotArinam(w)
  BY <1>1, <1>2, <1>4, ArinamOldest DEF PlotArinam
<1>5. CASE PlotOverflow(w)
  BY <1>1, <1>2, <1>5, EnlargeOldest DEF PlotOverflow
<1>6. CASE PlotIdle(w)
  <2>1. PICK size \in Trimmed(wsp.ws[w]) : wsp' = IdleWorkspace(wsp, w, size)
    BY <1>6 DEF PlotIdle
  <2>2. size \in Nat \ {0} /\ w \in held
    BY <1>2, <1>6, TrimmedSizes DEF PlotIdle
  <2> QED BY <1>1, <1>2, <2>1, <2>2, IdleTakesNothing
<1>7. CASE PlotFree(w)
  BY <1>1, <1>7, FreeTakesNothing DEF PlotFree
<1> QED BY <1>3, <1>4, <1>5, <1>6, <1>7

LEMMA MapOldest ==
  ASSUME SpaceIInv,
         MapArinam \/ MapBuilt \/ MapOverflow \/ MapError \/ MapDrawn \/ MapIdle \/ MapDestroy
  PROVE  OldestFirst(wsp, wsp')
<1>1. Sound(wsp) /\ Account(wsp) /\ ClientsSound
  BY DEF SpaceIInv, IInv
<1>2. Drawing => /\ map.aws \in DOMAIN wsp.ws /\ wsp.ws[map.aws].in_use
                 /\ wsp.ws[map.aws].ws_ptr /\ wsp.ws[map.aws] \in Records
  BY HeldIsLent DEF SpaceIInv
<1>3. CASE MapArinam
  BY <1>1, <1>2, <1>3, ArinamOldest DEF MapArinam, Drawing
<1>4. CASE MapBuilt
  <2>1. wsp' = [wsp EXCEPT !.ws[map.aws].content = map.view] /\ Drawing
    BY <1>4 DEF MapBuilt, Drawing
  <2>2. /\ \A v \in DOMAIN wsp.ws \ {map.aws} : wsp'.ws[v] = wsp.ws[v]
        /\ wsp'.ws[map.aws] = [wsp.ws[map.aws] EXCEPT !.content = map.view]
    BY <1>1, <1>2, <2>1 DEF Sound, RecordsSound, Fields
  <2>3. wsp'.ws[map.aws].ws_ptr
    BY <1>2, <2>1, <2>2 DEF Records
  <2>4. \A v \in DOMAIN wsp.ws \cap DOMAIN wsp'.ws : wsp.ws[v].ws_ptr => wsp'.ws[v].ws_ptr
    BY <2>2, <2>3
  <2> QED BY <2>4, NothingTaken
<1>5. CASE MapOverflow
  BY <1>1, <1>2, <1>5, EnlargeOldest DEF MapOverflow, Drawing
<1>6. CASE MapError \/ MapDrawn
  BY <1>6, NothingTaken DEF MapError, MapDrawn
<1>7. CASE MapIdle
  <2>1. PICK size \in Trimmed(wsp.ws[map.aws]) : wsp' = IdleWorkspace(wsp, map.aws, size)
    BY <1>7 DEF MapIdle
  <2>2. Drawing
    BY <1>7 DEF MapIdle, Drawing
  <2>3. size \in Nat \ {0}
    BY <1>2, <2>2, TrimmedSizes
  <2> QED BY <1>1, <1>2, <2>1, <2>2, <2>3, IdleTakesNothing
<1>8. CASE MapDestroy
  <2>1. CASE map.aws_id = NoId
    BY <1>8, <2>1, NothingTaken DEF MapDestroy
  <2>2. CASE map.aws_id # NoId
    <3>1. map.aws_id \in DOMAIN wsp.ws
      BY <1>1, <2>2 DEF ClientsSound, Ids
    <3> QED BY <1>1, <1>8, <2>2, <3>1, FreeTakesNothing DEF MapDestroy
  <2> QED BY <2>1, <2>2
<1> QED BY <1>3, <1>4, <1>5, <1>6, <1>7, <1>8

LEMMA StepOldest ==
  ASSUME SpaceIInv, [Next]_vars PROVE OldestFirst(wsp, wsp')
<1>1. CASE UNCHANGED vars
  BY <1>1, NothingTaken DEF vars
<1>2. ASSUME NEW l \in Limits, SetValues(l[1], l[2]) PROVE OldestFirst(wsp, wsp')
  <2>1. wsp'.ws = wsp.ws
    BY <1>2 DEF SetValues, SpaceIInv, IInv, Sound, RecordsSound, Fields
  <2> QED BY <2>1, NothingTaken
<1>3. ASSUME NEW type \in Types, NEW size \in PlotSizes, PlotNew(type, size)
      PROVE  OldestFirst(wsp, wsp')
  <2>1. /\ size \in Nat \ {0} /\ wsp' = NewWorkspace(wsp, "plot", type, size) /\ Sound(wsp)
        /\ "plot" \in {"plot", "map"}
    BY <1>3, SizeAssumption DEF PlotNew, SpaceIInv, IInv
  <2>2. \A v \in DOMAIN wsp.ws : wsp'.ws[v] = wsp.ws[v]
    BY <2>1, NewKeeps
  <2> QED BY <2>2, NothingTaken
<1>4. ASSUME NEW v \in Views, MapCreate(v) \/ ChangeView(v) PROVE OldestFirst(wsp, wsp')
  BY <1>4, NothingTaken DEF MapCreate, ChangeView
<1> QED BY <1>1, <1>2, <1>3, <1>4, PlotOldest, SetUpAreamapOldest, MapOldest DEF Next

\* No step takes the storage of a workspace in use, and of the idle ones those that
\* were idled longest ago lose theirs first, whatever their sizes and however the list
\* was built (ReduceCurrentAlloc, AddToIdleList, RemoveFromIdleList).
THEOREM OldestGivenUpFirst ==
  Spec => GivesUpOldestFirst
<1>1. SpaceIInv /\ [Next]_vars =>
        [\A w \in Ids \cap DOMAIN wsp'.ws :
           wsp.ws[w].ws_ptr /\ ~wsp'.ws[w].ws_ptr =>
             \E k \in DOMAIN wsp.idle :
               /\ wsp.idle[k] = w
               /\ \A l \in k .. Len(wsp.idle) :
                    LET v == wsp.idle[l]
                    IN  v \in DOMAIN wsp'.ws => ~wsp'.ws[v].ws_ptr \/ wsp'.ws[v].in_use]_vars
  BY StepOldest DEF OldestFirst, Ids
<1> QED BY <1>1, SpaceInvariant, PTL DEF Spec, GivesUpOldestFirst
=============================================================================
