--------------------------- MODULE GesturesProofs ---------------------------
(***************************************************************************)
(* Theorems about the push cascade and the gestures built on it: for any   *)
(* number of blocks and slots, any day, any number of requests and patches *)
(* in flight.                                                              *)
(*                                                                         *)
(* The cascade is a fold, and what it computes is proved by a smallest     *)
(* counterexample: if the sweep (or the taking of a deficit) went wrong on *)
(* some set of blocks, it went wrong on a smallest one, and one step back  *)
(* it was right.  PushIsPushed sums that up: from a legal layout, what     *)
(* Push returns is legal, displaces no block farther than needed and       *)
(* compresses the closest blocks first.                                    *)
(*                                                                         *)
(* The gestures are then four invariants, each on top of the ones before:  *)
(* types, with the service's own invariant (GTypes); a pointer gesture and *)
(* the column it works on (PointerInv); what a gesture proposes is made    *)
(* from its start by Push (ProposeInv); and either the column a cancelled  *)
(* gesture goes back to is the stored one (ConvergeInv) or, with no other  *)
(* tab, every gesture starts from a legal column (SourceInv).              *)
(*                                                                         *)
(* The last part composes gestures: from a legal column they can rearrange *)
(* its blocks into any legal layout (LegalAreReached).                     *)
(***************************************************************************)
EXTENDS Gestures, DayPlanProofs

-----------------------------------------------------------------------------
(* Finite sets.                                                            *)

\* A non-empty family of subsets of a finite set has a smallest member.
LEMMA LeastSet ==
  ASSUME NEW S, IsFiniteSet(S), NEW C \in SUBSET (SUBSET S), C # {}
  PROVE  \E T \in C : \A U \in C : U \subseteq T => U = T
<1> DEFINE sizes == {n \in Nat : \E T \in C : n = Cardinality(T)}
<1>1. \A T \in C : IsFiniteSet(T) /\ Cardinality(T) \in Nat
  BY FS_Subset, FS_CardinalityType
<1>2. sizes # {} /\ sizes \subseteq Nat
  BY <1>1
<1> HIDE DEF sizes
<1>3. PICK n \in sizes : \A m \in sizes : n <= m
  BY <1>2, LeastNat
<1>4. PICK T \in C : n = Cardinality(T)
  BY <1>3 DEF sizes
<1>5. ASSUME NEW U \in C, U \subseteq T PROVE U = T
  <2>1. Cardinality(U) \in sizes
    BY <1>1 DEF sizes
  <2>2. Cardinality(T) <= Cardinality(U)
    BY <1>3, <1>4, <2>1
  <2>3. Cardinality(U) <= Cardinality(T) /\ (Cardinality(T) = Cardinality(U) => T = U)
    BY <1>1, <1>5, FS_Subset
  <2> QED BY <1>1, <2>2, <2>3
<1> QED BY <1>5

\* What it takes for g to be the fold of a step over the subsets of S up to n members.
FoldTo(g, S, base, pick, step, n) ==
  \A T \in SUBSET S : Cardinality(T) <= n =>
    g[T] = IF T = {} THEN base ELSE step[pick[T]][g[T \ {pick[T]}]]

Foldable(S, Out, base, pick, step) ==
  /\ IsFiniteSet(S) /\ base \in Out /\ step \in [S -> [Out -> Out]]
  /\ \A T \in SUBSET S : T # {} => pick[T] \in T

LEMMA FoldExists ==
  ASSUME NEW S, NEW Out, NEW base, NEW pick, NEW step, Foldable(S, Out, base, pick, step)
  PROVE  \E g \in [SUBSET S -> Out] : FoldTo(g, S, base, pick, step, Cardinality(S))
<1> USE DEF Foldable
<1> DEFINE Good(n) == \E g \in [SUBSET S -> Out] : FoldTo(g, S, base, pick, step, n)
           Bad == {n \in Nat : ~Good(n)}
<1>1. \A T \in SUBSET S : IsFiniteSet(T) /\ Cardinality(T) \in Nat /\ Cardinality(T) <= Cardinality(S)
  BY FS_Subset, FS_CardinalityType
<1>2. \A T \in SUBSET S : T # {} => T \ {pick[T]} \in SUBSET S /\ Cardinality(T \ {pick[T]}) = Cardinality(T) - 1
  BY <1>1, FS_RemoveElement
<1>3. Good(0)
  <2>1. \A T \in SUBSET S : Cardinality(T) <= 0 => T = {}
    BY <1>1, FS_EmptySet
  <2>2. FoldTo([T \in SUBSET S |-> base], S, base, pick, step, 0)
    BY <2>1 DEF FoldTo
  <2>3. [T \in SUBSET S |-> base] \in [SUBSET S -> Out] OBVIOUS
  <2> QED BY <2>2, <2>3
<1>4. ASSUME NEW n \in Nat, Good(n) PROVE Good(n + 1)
  <2>1. PICK g \in [SUBSET S -> Out] : FoldTo(g, S, base, pick, step, n) BY <1>4
  <2> DEFINE h == [T \in SUBSET S |-> IF T = {} THEN base ELSE step[pick[T]][g[T \ {pick[T]}]]]
  <2>2. h \in [SUBSET S -> Out]
    <3>1. \A T \in SUBSET S : T # {} => pick[T] \in S /\ g[T \ {pick[T]}] \in Out
      BY <1>2
    <3>2. \A T \in SUBSET S : T # {} => step[pick[T]][g[T \ {pick[T]}]] \in Out
      BY <3>1
    <3> QED BY <3>2
  <2>3. ASSUME NEW T \in SUBSET S, Cardinality(T) <= n + 1, T # {}
        PROVE  h[T] = step[pick[T]][h[T \ {pick[T]}]]
    <3> DEFINE U == T \ {pick[T]}
    <3>1. U \in SUBSET S /\ Cardinality(U) <= n
      BY <1>1, <1>2, <2>3
    <3>2. g[U] = IF U = {} THEN base ELSE step[pick[U]][g[U \ {pick[U]}]]
      BY <2>1, <3>1 DEF FoldTo
    <3>3. h[U] = g[U] BY <3>1, <3>2
    <3>4. h[T] = step[pick[T]][g[U]] BY <2>3
    <3> QED BY <3>3, <3>4
  <2>4. h[{}] = base OBVIOUS
  <2> HIDE DEF h
  <2>5. FoldTo(h, S, base, pick, step, n + 1) BY <2>3, <2>4 DEF FoldTo
  <2> QED BY <2>2, <2>5
<1>5. Bad = {}
  <2> SUFFICES ASSUME Bad # {} PROVE FALSE
    OBVIOUS
  <2>1. Bad \subseteq Nat OBVIOUS
  <2> HIDE DEF Bad
  <2>2. PICK m \in Bad : \A n \in Bad : m <= n
    BY <2>1, LeastNat
  <2>3. m \in Nat /\ ~Good(m) BY <2>2 DEF Bad
  <2>4. \A n \in Nat : n < m => Good(n)
    <3> SUFFICES ASSUME NEW n \in Nat, n < m, ~Good(n) PROVE FALSE
      OBVIOUS
    <3>1. n \in Bad BY DEF Bad
    <3> QED BY <3>1, <2>2, <2>3
  <2> HIDE DEF Good
  <2>5. m # 0 BY <1>3, <2>3
  <2>6. m - 1 \in Nat /\ m - 1 < m /\ (m - 1) + 1 = m BY <2>3, <2>5
  <2>7. Good((m - 1) + 1) BY <1>4, <2>4, <2>6
  <2> QED BY <2>3, <2>6, <2>7
<1>6. Good(Cardinality(S))
  <2> HIDE DEF Good
  <2> QED BY <1>1, <1>5
<1> QED BY <1>6

-----------------------------------------------------------------------------
(* Total.                                                                  *)

\* The sum adds up the members one by one, in the order CHOOSE takes them.
LEMMA TotalFold ==
  ASSUME NEW S, IsFiniteSet(S), NEW span, \A i \in S : span[i] \in Int
  PROVE  /\ Total(span, S) \in Int
         /\ Total(span, {}) = 0
         /\ S # {} => LET c == CHOOSE i \in S : TRUE IN Total(span, S) = span[c] + Total(span, S \ {c})
<1> DEFINE pick == [T \in SUBSET S |-> CHOOSE i \in T : TRUE]
           step == [i \in S |-> [n \in Int |-> span[i] + n]]
           Eqn(h, R) == h = [T \in SUBSET R |-> IF T = {} THEN 0
                      ELSE span[CHOOSE i \in T : TRUE] + h[T \ {CHOOSE i \in T : TRUE}]]
<1>1. \A T \in SUBSET S : T # {} => pick[T] \in T OBVIOUS
<1>2. step \in [S -> [Int -> Int]] OBVIOUS
<1>3. \A T \in SUBSET S : pick[T] = CHOOSE i \in T : TRUE
  OBVIOUS
<1>4. \A i \in S : \A n \in Int : step[i][n] = span[i] + n
  OBVIOUS
<1> HIDE DEF pick, step
<1>5. PICK g \in [SUBSET S -> Int] : FoldTo(g, S, 0, pick, step, Cardinality(S))
  <2>1. Foldable(S, Int, 0, pick, step)
    BY <1>1, <1>2 DEF Foldable
  <2> QED BY <2>1, FoldExists
<1>6. \A R \in SUBSET S : Total(span, R) = (CHOOSE h : Eqn(h, R))[R]
  BY DEF Total, MapThenFoldSet
<1>7. ASSUME NEW R \in SUBSET S PROVE Total(span, R) = g[R]
  <2> DEFINE k == [T \in SUBSET R |-> g[T]]
  <2>1. IsFiniteSet(R) /\ \A T \in SUBSET S : Cardinality(T) <= Cardinality(S)
    BY FS_Subset
  <2>2. \A T \in SUBSET S : T # {} => g[T] = span[pick[T]] + g[T \ {pick[T]}]
    <3> SUFFICES ASSUME NEW T \in SUBSET S, T # {} PROVE g[T] = span[pick[T]] + g[T \ {pick[T]}]
      OBVIOUS
    <3>1. g[T] = step[pick[T]][g[T \ {pick[T]}]] BY <1>5, <2>1 DEF FoldTo
    <3>2. T \ {pick[T]} \in SUBSET S OBVIOUS
    <3>3. g[T \ {pick[T]}] \in Int BY <3>2
    <3> QED BY <1>1, <1>4, <3>1, <3>3
  <2>3. g[{}] = 0 BY <1>5, <2>1 DEF FoldTo
  <2>4. Eqn(k, R)
    <3>1. \A T \in SUBSET R : T # {} =>
            g[T] = span[CHOOSE i \in T : TRUE] + k[T \ {CHOOSE i \in T : TRUE}]
      BY <1>1, <1>3, <2>2
    <3>2. k = [T \in SUBSET R |-> IF T = {} THEN 0
                 ELSE span[CHOOSE i \in T : TRUE] + k[T \ {CHOOSE i \in T : TRUE}]]
      BY <2>3, <3>1
    <3> QED BY <3>2
  <2> DEFINE h == CHOOSE h : Eqn(h, R)
  <2>5. Eqn(h, R) BY <2>4
  <2> HIDE DEF h
  <2> DEFINE less == {T \in SUBSET R : h[T] # g[T]}
  <2>6. ASSUME less # {} PROVE FALSE
    <3>1. less \in SUBSET (SUBSET R) OBVIOUS
    <3> HIDE DEF less
    <3>2. PICK T \in less : \A U \in less : U \subseteq T => U = T
      BY <2>1, <2>6, <3>1, LeastSet
    <3>3. T \in SUBSET R /\ T \in SUBSET S /\ h[T] # g[T] BY <3>2 DEF less
    <3>4. T # {} BY <2>3, <2>5, <3>3
    <3>5. pick[T] \in T /\ h[T] = span[pick[T]] + h[T \ {pick[T]}] BY <1>1, <1>3, <2>5, <3>3, <3>4
    <3>6. h[T \ {pick[T]}] = g[T \ {pick[T]}] BY <3>2, <3>3, <3>5 DEF less
    <3> QED BY <2>2, <3>3, <3>4, <3>5, <3>6
  <2>7. h[R] = g[R] BY <2>6
  <2> QED BY <1>6, <2>7 DEF h
<1>8. Total(span, {}) = 0
  <2>1. Total(span, {}) = g[{}]
    BY <1>7
  <2> QED BY <1>5, <2>1, FS_EmptySet, FS_Subset DEF FoldTo
<1>9. ASSUME S # {} PROVE LET c == CHOOSE i \in S : TRUE IN Total(span, S) = span[c] + Total(span, S \ {c})
  <2>1. pick[S] \in S /\ pick[S] = CHOOSE i \in S : TRUE
    BY <1>1, <1>3, <1>9
  <2>2. Total(span, S) = g[S] /\ Total(span, S \ {pick[S]}) = g[S \ {pick[S]}] /\ g[S \ {pick[S]}] \in Int
    BY <1>7
  <2>3. Cardinality(S) <= Cardinality(S)
    BY FS_CardinalityType
  <2>4. g[S] = step[pick[S]][g[S \ {pick[S]}]]
    BY <1>5, <1>9, <2>3 DEF FoldTo
  <2> QED BY <1>4, <2>1, <2>2, <2>4
<1>10. Total(span, S) \in Int
  BY <1>7
<1> QED BY <1>8, <1>9, <1>10

LEMMA TotalType ==
  ASSUME NEW S, IsFiniteSet(S), NEW span, \A i \in S : span[i] \in Int
  PROVE  \A T \in SUBSET S : IsFiniteSet(T) /\ Total(span, T) \in Int
<1> SUFFICES ASSUME NEW T \in SUBSET S PROVE IsFiniteSet(T) /\ Total(span, T) \in Int
  OBVIOUS
<1>1. IsFiniteSet(T) /\ \A i \in T : span[i] \in Int
  BY FS_Subset
<1> QED BY <1>1, TotalFold

\* In any order.
LEMMA TotalSplit ==
  ASSUME NEW S, IsFiniteSet(S), NEW span, \A i \in S : span[i] \in Int, NEW k \in S
  PROVE  Total(span, S) = span[k] + Total(span, S \ {k})
<1> DEFINE Bad == {T \in SUBSET S : \E i \in T : Total(span, T) # span[i] + Total(span, T \ {i})}
<1>1. ASSUME Bad # {} PROVE FALSE
  <2>1. Bad \in SUBSET (SUBSET S)
    OBVIOUS
  <2> HIDE DEF Bad
  <2>2. PICK T \in Bad : \A U \in Bad : U \subseteq T => U = T
    BY <1>1, <2>1, LeastSet
  <2>3. PICK i \in T : Total(span, T) # span[i] + Total(span, T \ {i})
    BY <2>2 DEF Bad
  <2>4. T \in SUBSET S /\ IsFiniteSet(T) /\ \A j \in T : span[j] \in Int
    BY <2>2, FS_Subset DEF Bad
  <2> DEFINE c == CHOOSE j \in T : TRUE
  <2>5. c \in T /\ Total(span, T) = span[c] + Total(span, T \ {c})
    BY <2>3, <2>4, TotalFold
  <2> HIDE DEF c
  <2>6. c # i
    BY <2>3, <2>5
  <2>7. T \ {c} \in SUBSET S /\ T \ {i} \in SUBSET S /\ T \ {c} \notin Bad /\ T \ {i} \notin Bad
    BY <2>2, <2>3, <2>4, <2>5
  <2>8. Total(span, T \ {c}) = span[i] + Total(span, (T \ {c}) \ {i})
    BY <2>3, <2>6, <2>7 DEF Bad
  <2>9. Total(span, T \ {i}) = span[c] + Total(span, (T \ {i}) \ {c})
    BY <2>5, <2>6, <2>7 DEF Bad
  <2>10. (T \ {c}) \ {i} = (T \ {i}) \ {c}
    OBVIOUS
  <2>11. Total(span, (T \ {c}) \ {i}) \in Int /\ span[c] \in Int /\ span[i] \in Int
    BY <2>3, <2>4, <2>5, TotalType
  <2>12. \A x, p, q \in Int : p + (q + x) = q + (p + x)
    OBVIOUS
  <2>13. Total(span, T) = span[c] + (span[i] + Total(span, (T \ {c}) \ {i}))
    BY <2>5, <2>8
  <2>14. span[i] + Total(span, T \ {i}) = span[i] + (span[c] + Total(span, (T \ {c}) \ {i}))
    BY <2>9, <2>10
  <2> QED BY <2>3, <2>11, <2>12, <2>13, <2>14
<1> QED BY <1>1

LEMMA TotalAgrees ==
  ASSUME NEW S, IsFiniteSet(S), NEW f, NEW g, \A i \in S : f[i] \in Int /\ g[i] = f[i]
  PROVE  Total(f, S) = Total(g, S)
<1> DEFINE Bad == {T \in SUBSET S : Total(f, T) # Total(g, T)}
<1>1. ASSUME Bad # {} PROVE FALSE
  <2>1. Bad \in SUBSET (SUBSET S)
    OBVIOUS
  <2> HIDE DEF Bad
  <2>2. PICK T \in Bad : \A U \in Bad : U \subseteq T => U = T
    BY <1>1, <2>1, LeastSet
  <2>3. T \in SUBSET S /\ IsFiniteSet(T) /\ Total(f, T) # Total(g, T)
    BY <2>2, FS_Subset DEF Bad
  <2>4. T # {}
    BY <2>3, TotalFold
  <2>5. PICK i \in T : TRUE
    BY <2>4
  <2>6. T \ {i} \in SUBSET S /\ T \ {i} \notin Bad
    BY <2>2, <2>3, <2>5
  <2>7. Total(f, T \ {i}) = Total(g, T \ {i})
    BY <2>6 DEF Bad
  <2>8. Total(f, T) = f[i] + Total(f, T \ {i})
    BY <2>3, <2>5, TotalSplit
  <2>9. Total(g, T) = g[i] + Total(g, T \ {i})
    BY <2>3, <2>5, TotalSplit
  <2> QED BY <2>3, <2>5, <2>7, <2>8, <2>9
<1> QED BY <1>1

\* More members of at least one slot each add up to more, by at least their number.
LEMMA TotalGrows ==
  ASSUME NEW S, IsFiniteSet(S), NEW span, \A i \in S : span[i] \in Int /\ span[i] >= 1,
         NEW R \in SUBSET S
  PROVE  Total(span, S) >= Total(span, R) + Cardinality(S \ R)
<1> DEFINE Bad == {T \in SUBSET S : R \subseteq T /\ ~(Total(span, T) >= Total(span, R) + Cardinality(T \ R))}
<1>1. ASSUME Bad # {} PROVE FALSE
  <2>1. Bad \in SUBSET (SUBSET S)
    OBVIOUS
  <2> HIDE DEF Bad
  <2>2. PICK T \in Bad : \A U \in Bad : U \subseteq T => U = T
    BY <1>1, <2>1, LeastSet
  <2>3. T \in SUBSET S /\ IsFiniteSet(T) /\ R \subseteq T /\ ~(Total(span, T) >= Total(span, R) + Cardinality(T \ R))
    BY <2>2, FS_Subset DEF Bad
  <2>4. Total(span, T) \in Int /\ Total(span, R) \in Int
    BY TotalType, <2>3
  <2>5. T # R
    <3>1. R \ R = {} /\ Cardinality({}) = 0
      BY FS_EmptySet
    <3> QED BY <2>3, <2>4, <3>1
  <2>6. PICK i \in T : i \notin R
    BY <2>3, <2>5
  <2>7. T \ {i} \in SUBSET S /\ R \subseteq T \ {i} /\ T \ {i} \notin Bad
    BY <2>2, <2>3, <2>6
  <2>8. Total(span, T \ {i}) >= Total(span, R) + Cardinality((T \ {i}) \ R)
    BY <2>7 DEF Bad
  <2>9. Total(span, T) = span[i] + Total(span, T \ {i})
    BY <2>3, <2>6, TotalSplit
  <2>10. /\ (T \ {i}) \ R = (T \ R) \ {i} /\ i \in T \ R
         /\ IsFiniteSet(T \ R) /\ Cardinality(T \ R) \in Nat
    BY <2>3, <2>6, FS_Subset, FS_CardinalityType
  <2>11. Cardinality((T \ {i}) \ R) = Cardinality(T \ R) - 1
    BY <2>10, FS_RemoveElement
  <2>12. span[i] \in Int /\ span[i] >= 1 /\ Total(span, T \ {i}) \in Int
    BY <2>3, <2>6, TotalType
  <2> QED BY <2>3, <2>4, <2>8, <2>9, <2>10, <2>11, <2>12
<1> QED BY <1>1

LEMMA TotalUnion ==
  ASSUME NEW S, IsFiniteSet(S), NEW span, \A i \in S : span[i] \in Int, NEW R \in SUBSET S
  PROVE  Total(span, S) = Total(span, R) + Total(span, S \ R)
<1> DEFINE Bad == {T \in SUBSET S : R \subseteq T /\ Total(span, T) # Total(span, R) + Total(span, T \ R)}
<1>1. ASSUME Bad # {} PROVE FALSE
  <2>1. Bad \in SUBSET (SUBSET S)
    OBVIOUS
  <2> HIDE DEF Bad
  <2>2. PICK T \in Bad : \A U \in Bad : U \subseteq T => U = T
    BY <1>1, <2>1, LeastSet
  <2>3. /\ T \in SUBSET S /\ R \subseteq T /\ IsFiniteSet(T)
        /\ Total(span, T) # Total(span, R) + Total(span, T \ R)
    BY <2>2, FS_Subset DEF Bad
  <2>4. Total(span, T) \in Int /\ Total(span, R) \in Int
    BY <2>3, TotalType
  <2>5. T # R
    <3>1. R \ R = {} /\ Total(span, {}) = 0
      BY TotalFold
    <3> QED BY <2>3, <2>4, <3>1
  <2>6. PICK i \in T : i \notin R
    BY <2>3, <2>5
  <2>7. T \ {i} \in SUBSET S /\ R \subseteq T \ {i} /\ T \ {i} \notin Bad
    BY <2>2, <2>3, <2>6
  <2>8. Total(span, T \ {i}) = Total(span, R) + Total(span, (T \ {i}) \ R)
    BY <2>7 DEF Bad
  <2>9. Total(span, T) = span[i] + Total(span, T \ {i})
    BY <2>3, <2>6, TotalSplit
  <2>10. /\ (T \ {i}) \ R = (T \ R) \ {i} /\ i \in T \ R /\ T \ R \in SUBSET S
         /\ IsFiniteSet(T \ R)
    BY <2>3, <2>6, FS_Subset
  <2>11. Total(span, T \ R) = span[i] + Total(span, (T \ R) \ {i})
    BY <2>10, TotalSplit
  <2>12. span[i] \in Int /\ Total(span, (T \ R) \ {i}) \in Int
    BY <2>3, <2>6, TotalType
  <2>13. \A x, p, r \in Int : p + (r + x) = r + (p + x)
    OBVIOUS
  <2>14. Total(span, T) = span[i] + (Total(span, R) + Total(span, (T \ R) \ {i}))
    BY <2>8, <2>9, <2>10
  <2>15. Total(span, R) + Total(span, T \ R) = Total(span, R) + (span[i] + Total(span, (T \ R) \ {i}))
    BY <2>11
  <2> QED BY <2>3, <2>4, <2>12, <2>13, <2>14, <2>15
<1> QED BY <1>1

LEMMA TotalAtMost ==
  ASSUME NEW S, IsFiniteSet(S), NEW f, NEW g, \A i \in S : f[i] \in Int /\ g[i] \in Int /\ f[i] <= g[i]
  PROVE  Total(f, S) <= Total(g, S)
<1> DEFINE Bad == {T \in SUBSET S : ~(Total(f, T) <= Total(g, T))}
<1>1. ASSUME Bad # {} PROVE FALSE
  <2>1. Bad \in SUBSET (SUBSET S)
    OBVIOUS
  <2> HIDE DEF Bad
  <2>2. PICK T \in Bad : \A U \in Bad : U \subseteq T => U = T
    BY <1>1, <2>1, LeastSet
  <2>3. T \in SUBSET S /\ IsFiniteSet(T) /\ ~(Total(f, T) <= Total(g, T))
    BY <2>2, FS_Subset DEF Bad
  <2>4. T # {}
    <3>1. Total(f, {}) = 0 /\ Total(g, {}) = 0
      BY TotalFold
    <3> QED BY <2>3, <3>1
  <2>5. PICK i \in T : TRUE
    BY <2>4
  <2>6. T \ {i} \in SUBSET S /\ T \ {i} \notin Bad
    BY <2>2, <2>3, <2>5
  <2>7. Total(f, T \ {i}) <= Total(g, T \ {i})
    BY <2>6 DEF Bad
  <2>8. Total(f, T) = f[i] + Total(f, T \ {i})
    BY <2>3, <2>5, TotalSplit
  <2>9. Total(g, T) = g[i] + Total(g, T \ {i})
    BY <2>3, <2>5, TotalSplit
  <2>10. /\ f[i] \in Int /\ g[i] \in Int /\ f[i] <= g[i]
         /\ Total(f, T \ {i}) \in Int /\ Total(g, T \ {i}) \in Int
    BY <2>3, <2>5, <2>6, TotalType
  <2> QED BY <2>3, <2>7, <2>8, <2>9, <2>10
<1> QED BY <1>1

LEMMA TotalOfOnes ==
  ASSUME NEW S, IsFiniteSet(S), NEW span, \A i \in S : span[i] = 1
  PROVE  Total(span, S) = Cardinality(S)
<1> DEFINE Bad == {T \in SUBSET S : Total(span, T) # Cardinality(T)}
<1>1. ASSUME Bad # {} PROVE FALSE
  <2>1. Bad \in SUBSET (SUBSET S)
    OBVIOUS
  <2> HIDE DEF Bad
  <2>2. PICK T \in Bad : \A U \in Bad : U \subseteq T => U = T
    BY <1>1, <2>1, LeastSet
  <2>3. T \in SUBSET S /\ IsFiniteSet(T) /\ Total(span, T) # Cardinality(T)
    BY <2>2, FS_Subset DEF Bad
  <2>4. \A j \in S : span[j] \in Int
    OBVIOUS
  <2>5. T # {}
    BY <2>3, <2>4, TotalFold, FS_EmptySet
  <2>6. PICK i \in T : TRUE
    BY <2>5
  <2>7. T \ {i} \in SUBSET S /\ T \ {i} \notin Bad
    BY <2>2, <2>3, <2>6
  <2>8. Total(span, T \ {i}) = Cardinality(T \ {i})
    BY <2>7 DEF Bad
  <2>9. Total(span, T) = span[i] + Total(span, T \ {i})
    BY <2>3, <2>4, <2>6, TotalSplit
  <2>10. Cardinality(T \ {i}) = Cardinality(T) - 1 /\ Cardinality(T) \in Nat
    BY <2>3, <2>6, FS_RemoveElement, FS_CardinalityType
  <2>11. span[i] = 1
    BY <2>3, <2>6
  <2> QED BY <2>3, <2>8, <2>9, <2>10, <2>11
<1> QED BY <1>1

-----------------------------------------------------------------------------
(* The sweep.                                                              *)

LEMMA LayoutIsNotNone ==
  ASSUME NEW D \in SUBSET BlockId
  PROVE  NoLayout \notin [D -> Spot] /\ NoLayout \notin [D -> Int] /\ NoLayout \notin Int
BY MarkerAssumption

LEMMA NearestIs ==
  ASSUME NEW s \in Int, NEW S, S \subseteq Int, S # {}, (\A x \in S : x <= s) \/ (\A x \in S : x >= s)
  PROVE  /\ Nearest(s, S) \in S
         /\ \A y \in S : LET x == Nearest(s, S) IN (s <= x /\ x <= y) \/ (s >= x /\ x >= y)
<1> DEFINE Is(x) == \A y \in S : (s <= x /\ x <= y) \/ (s >= x /\ x >= y)
<1>1. \E x \in S : Is(x)
  <2>1. CASE \A x \in S : x <= s
    <3>1. PICK x \in S : \A y \in S : x >= y
      BY <2>1, GreatestInt
    <3>2. x \in Int /\ x <= s
      BY <2>1
    <3> QED BY <3>1, <3>2
  <2>2. CASE \A x \in S : x >= s
    <3>1. PICK x \in S : \A y \in S : x <= y
      BY <2>2, LeastInt
    <3>2. x \in Int /\ s <= x
      BY <2>2
    <3> QED BY <3>1, <3>2
  <2> QED BY <2>1, <2>2
<1>2. Nearest(s, S) = CHOOSE x \in S : Is(x)
  BY DEF Nearest
<1> HIDE DEF Is
<1>3. Nearest(s, S) \in S /\ Is(Nearest(s, S))
  BY <1>1, <1>2
<1> QED BY <1>3 DEF Is

\* A finite set has a member where a function is greatest.
LEMMA HighestOf ==
  ASSUME NEW S, IsFiniteSet(S), S # {}, NEW f, \A i \in S : f[i] \in Int
  PROVE  \E i \in S : \A j \in S : f[i] >= f[j]
<1> DEFINE above(i) == {j \in S : f[j] > f[i]}
           C == {above(i) : i \in S}
<1>1. C \in SUBSET (SUBSET S) /\ C # {}
  OBVIOUS
<1> HIDE DEF C
<1>2. PICK T \in C : \A U \in C : U \subseteq T => U = T
  BY <1>1, LeastSet
<1>3. PICK i \in S : T = above(i)
  BY <1>2 DEF C
<1>4. ASSUME NEW j \in S, ~(f[i] >= f[j]) PROVE FALSE
  <2>1. j \in above(i) /\ j \notin above(j)
    BY <1>4
  <2>2. above(j) \subseteq above(i)
    BY <1>4
  <2>3. above(j) \in C
    BY DEF C
  <2> QED BY <1>2, <1>3, <2>1, <2>2, <2>3
<1> QED BY <1>4

LEMMA LastMetIs ==
  ASSUME NEW D, NEW current \in [D -> Spot], NEW S \in SUBSET D, IsFiniteSet(S), S # {},
         NEW up \in BOOLEAN
  PROVE  /\ LastMet(current, up, S) \in S
         /\ \A j \in S : IF up THEN current[LastMet(current, up, S)].slot <= current[j].slot
                         ELSE current[LastMet(current, up, S)].slot >= current[j].slot
<1> DEFINE Is(i) == \A j \in S : IF up THEN current[i].slot <= current[j].slot
                                 ELSE current[i].slot >= current[j].slot
           f == [i \in S |-> IF up THEN -current[i].slot ELSE current[i].slot]
<1>1. \A i \in S : f[i] \in Int /\ current[i].slot \in Int
  BY DEF Spot
<1>2. \A i \in S : f[i] = IF up THEN -current[i].slot ELSE current[i].slot
  OBVIOUS
<1> HIDE DEF f
<1>3. PICK i \in S : \A j \in S : f[i] >= f[j]
  BY <1>1, HighestOf
<1>4. Is(i)
  BY <1>1, <1>2, <1>3
<1>5. LastMet(current, up, S) = CHOOSE x \in S : Is(x)
  BY DEF LastMet
<1> HIDE DEF Is
<1>6. LastMet(current, up, S) \in S /\ Is(LastMet(current, up, S))
  BY <1>4, <1>5
<1> QED BY <1>6 DEF Is

\* A block met by the sweep, cleared of those before it.
Cleared(b, current, up, i, out) ==
  IF out = NoLayout THEN NoLayout
  ELSE LET s == Slide(b, current[i], Range(out), up)
       IN IF s = NoLayout THEN NoLayout
          ELSE [j \in DOMAIN out \cup {i} |->
                  IF j = i THEN [current[i] EXCEPT !.slot = s] ELSE out[j]]

\* A place nearest to the run's own.
NearestPlace(b, p, settled, up, s) ==
  /\ s \in Places(b, p, settled, up)
  /\ \A y \in Places(b, p, settled, up) : (p.slot <= s /\ s <= y) \/ (p.slot >= s /\ s >= y)

LEMMA SlideIs ==
  ASSUME NEW b \in Bounds, NEW p \in Spot, NEW settled, NEW up \in BOOLEAN,
         Places(b, p, settled, up) # {}
  PROVE  /\ NearestPlace(b, p, settled, up, Slide(b, p, settled, up))
         /\ Slide(b, p, settled, up) \in Int
         /\ Slide(b, p, settled, up) # NoLayout
<1> DEFINE places == Places(b, p, settled, up)
<1>1. p.slot \in Int /\ p.span \in Int /\ b.start \in Int /\ b.end \in Int
  BY DEF Spot, Bounds
<1>2. places \subseteq Int /\ ((\A x \in places : x <= p.slot) \/ (\A x \in places : x >= p.slot))
  BY <1>1 DEF Places
<1>3. Slide(b, p, settled, up) = Nearest(p.slot, places)
  BY DEF Slide
<1> HIDE DEF places
<1>4. places # {}
  BY DEF places
<1>5. /\ Nearest(p.slot, places) \in places
      /\ \A y \in places : LET x == Nearest(p.slot, places)
                           IN (p.slot <= x /\ x <= y) \/ (p.slot >= x /\ x >= y)
  BY <1>1, <1>2, <1>4, NearestIs
<1>6. Nearest(p.slot, places) \in Int /\ Nearest(p.slot, places) # NoLayout
  BY <1>2, <1>5, MarkerAssumption
<1> QED BY <1>3, <1>5, <1>6 DEF places, NearestPlace

\* The block i, put at a nearest place among the blocks E of out.
PutAmong(b, current, up, i, E, out, next) ==
  /\ next \in [E \cup {i} -> Spot]
  /\ next[i].span = current[i].span
  /\ NearestPlace(b, current[i], Range(out), up, next[i].slot)
  /\ \A j \in E \ {i} : next[j] = out[j]

LEMMA ClearedIs ==
  ASSUME NEW b \in Bounds, NEW D \in SUBSET BlockId, NEW current \in [D -> Spot], NEW up \in BOOLEAN,
         NEW i \in D, NEW E \in SUBSET D, NEW out \in [E -> Spot]
  PROVE  IF Places(b, current[i], Range(out), up) = {} THEN Cleared(b, current, up, i, out) = NoLayout
         ELSE PutAmong(b, current, up, i, E, out, Cleared(b, current, up, i, out))
<1> DEFINE next == Cleared(b, current, up, i, out)
           s == Slide(b, current[i], Range(out), up)
           places == Places(b, current[i], Range(out), up)
<1>1. current[i] \in Spot /\ out # NoLayout
  <2>1. E \in SUBSET BlockId
    OBVIOUS
  <2> QED BY <2>1, LayoutIsNotNone
<1>2. CASE places = {}
  <2>1. s = NoLayout
    BY <1>2 DEF Slide
  <2> QED BY <1>2, <2>1 DEF Cleared
<1>3. CASE places # {}
  <2>1. NearestPlace(b, current[i], Range(out), up, s) /\ s \in Int /\ s # NoLayout
    BY <1>1, <1>3, SlideIs
  <2> HIDE DEF s
  <2>2. next = [j \in E \cup {i} |-> IF j = i THEN [current[i] EXCEPT !.slot = s] ELSE out[j]]
    BY <1>1, <2>1 DEF Cleared, s
  <2>3. /\ [current[i] EXCEPT !.slot = s] \in Spot
        /\ [current[i] EXCEPT !.slot = s].span = current[i].span
        /\ [current[i] EXCEPT !.slot = s].slot = s
    BY <1>1, <2>1 DEF Spot
  <2>4. next[i] = [current[i] EXCEPT !.slot = s] /\ \A j \in E \ {i} : next[j] = out[j]
    BY <2>2
  <2>5. next \in [E \cup {i} -> Spot]
    BY <2>2, <2>3
  <2> HIDE DEF next, places
  <2>6. next[i].span = current[i].span /\ next[i].slot = s
    BY <2>3, <2>4
  <2>7. NearestPlace(b, current[i], Range(out), up, next[i].slot)
    BY <2>1, <2>6
  <2> QED BY <1>3, <2>4, <2>5, <2>6, <2>7 DEF next, places, PutAmong
<1> QED BY <1>2, <1>3

\* The sweep clears one block after the other: g tells what it has made of those it met.
SweptBy(g, b, current, id, moved, up) ==
  LET S == DOMAIN current \ {id}
  IN /\ Sweep(b, current, id, moved, up) = g[S]
     /\ g[{}] = [i \in {id} |-> moved]
     /\ \A T \in SUBSET S : T # {} =>
          LET i == LastMet(current, up, T) IN g[T] = Cleared(b, current, up, i, g[T \ {i}])

LEMMA SweepFold ==
  ASSUME NEW b \in Bounds, NEW D \in SUBSET BlockId, NEW current \in [D -> Spot], NEW up \in BOOLEAN,
         NEW id \in D, NEW moved \in Spot
  PROVE  \E g : SweptBy(g, b, current, id, moved, up)
<1> DEFINE S == D \ {id}
           Out == {NoLayout} \cup UNION {[E -> Spot] : E \in SUBSET D}
           base == [i \in {id} |-> moved]
           pick == [T \in SUBSET S |-> LastMet(current, up, T)]
           step == [i \in S |-> [out \in Out |-> Cleared(b, current, up, i, out)]]
           Eqn(h) == h = [T \in SUBSET S |-> IF T = {} THEN base
                           ELSE LET i == LastMet(current, up, T) IN Cleared(b, current, up, i, h[T \ {i}])]
<1>1. \A T \in SUBSET S : IsFiniteSet(T)
  BY IdAssumption, FS_Subset
<1>2. \A T \in SUBSET S : T # {} => pick[T] \in T
  BY <1>1, LastMetIs
<1>3. ASSUME NEW i \in S, NEW out \in Out PROVE Cleared(b, current, up, i, out) \in Out
  <2>1. CASE out = NoLayout
    BY <2>1 DEF Cleared
  <2>2. ASSUME NEW E \in SUBSET D, out \in [E -> Spot] PROVE Cleared(b, current, up, i, out) \in Out
    <3>1. \/ Cleared(b, current, up, i, out) = NoLayout
          \/ Cleared(b, current, up, i, out) \in [E \cup {i} -> Spot]
      BY <2>2, ClearedIs DEF PutAmong
    <3>2. E \cup {i} \in SUBSET D
      OBVIOUS
    <3> QED BY <3>1, <3>2
  <2> QED BY <2>1, <2>2
<1>4. step \in [S -> [Out -> Out]]
  BY <1>3
<1>5. \A i \in S : \A out \in Out : step[i][out] = Cleared(b, current, up, i, out)
  OBVIOUS
<1>6. base \in Out
  <2>1. base \in [{id} -> Spot] /\ {id} \in SUBSET D
    OBVIOUS
  <2> QED BY <2>1
<1>7. \A T \in SUBSET S : pick[T] = LastMet(current, up, T)
  OBVIOUS
<1>8. IsFiniteSet(S)
  BY <1>1
<1>9. Sweep(b, current, id, moved, up) = (CHOOSE h : Eqn(h))[S]
  BY DEF Sweep, MapThenFoldSet, Cleared
<1> HIDE DEF pick, step, Out, base
<1>10. Foldable(S, Out, base, pick, step)
  BY <1>2, <1>4, <1>6, <1>8 DEF Foldable
<1>11. PICK g \in [SUBSET S -> Out] : FoldTo(g, S, base, pick, step, Cardinality(S))
  BY <1>10, FoldExists
<1>12. Eqn(g)
  <2>1. ASSUME NEW T \in SUBSET S
        PROVE  g[T] = IF T = {} THEN base
                      ELSE LET i == LastMet(current, up, T) IN Cleared(b, current, up, i, g[T \ {i}])
    <3>1. Cardinality(T) <= Cardinality(S)
      BY <1>8, FS_Subset
    <3>2. g[T] = IF T = {} THEN base ELSE step[pick[T]][g[T \ {pick[T]}]]
      BY <1>11, <3>1 DEF FoldTo
    <3>3. T # {} => pick[T] \in S /\ g[T \ {pick[T]}] \in Out
      BY <1>2
    <3>4. T # {} => step[pick[T]][g[T \ {pick[T]}]] = Cleared(b, current, up, pick[T], g[T \ {pick[T]}])
      BY <1>5, <3>3
    <3> QED BY <1>7, <3>2, <3>4
  <2> QED BY <2>1
<1> DEFINE h == CHOOSE h : Eqn(h)
<1>13. Eqn(h)
  BY <1>12
<1>14. Sweep(b, current, id, moved, up) = h[S]
  BY <1>9
<1> HIDE DEF h
<1>15. h[{}] = base
  BY <1>13
<1>16. \A T \in SUBSET S : T # {} =>
         LET i == LastMet(current, up, T) IN h[T] = Cleared(b, current, up, i, h[T \ {i}])
  BY <1>13
<1> QED BY <1>14, <1>15, <1>16 DEF base, SweptBy

\* A layout the server's validation accepts for day b.
Legal(b, l) ==
  /\ \A i \in DOMAIN l : l[i].span >= 1 /\ Fits(b, l[i])
  /\ \A i, j \in DOMAIN l : i # j => ~Overlaps(l[i], l[j])

\* The block i of out is where the sweep may leave it: as long as it was, within the day,
\* in place or moved the way the sweep goes, flush with another.
SlidOne(b, current, up, out, i) ==
  /\ out[i].span = current[i].span /\ Fits(b, out[i])
  /\ IF up THEN out[i].slot <= current[i].slot ELSE out[i].slot >= current[i].slot
  /\ out[i].slot # current[i].slot =>
       \E j \in DOMAIN out \ {i} : IF up THEN out[j].slot = out[i].slot + out[i].span
                                   ELSE out[j].slot + out[j].span = out[i].slot

Slid(b, current, id, moved, up, T, out) ==
  /\ out \in [T \cup {id} -> Spot] /\ out[id] = moved
  /\ \A i \in T : SlidOne(b, current, up, out, i)
  /\ \A i, j \in T \cup {id} : i # j => ~Overlaps(out[i], out[j])

\* A nearest place other than the run's own is flush with a settled run.
LEMMA NearestIsFlush ==
  ASSUME NEW b \in Bounds, NEW p \in Spot, Fits(b, p), NEW settled \in SUBSET Spot, NEW up \in BOOLEAN,
         NEW s \in Int, NearestPlace(b, p, settled, up, s)
  PROVE  /\ Fits(b, [p EXCEPT !.slot = s])
         /\ IF up THEN s <= p.slot ELSE s >= p.slot
         /\ \A f \in settled : ~Overlaps([p EXCEPT !.slot = s], f)
         /\ s # p.slot => \E f \in settled : IF up THEN f.slot = s + p.span ELSE f.slot + f.span = s
<1> DEFINE at(x) == [p EXCEPT !.slot = x]
           places == Places(b, p, settled, up)
<1>1. /\ p.slot \in Int /\ p.span \in Int /\ b.start \in Int /\ b.end \in Int
      /\ \A f \in settled : f.slot \in Int /\ f.span \in Int
  BY DEF Spot, Bounds
<1>2. \A x \in Int : at(x).slot = x /\ at(x).span = p.span
  BY DEF Spot
<1>3. \A x \in Int : x \in places <=>
        /\ b.start <= x /\ x <= b.end - p.span
        /\ IF up THEN x <= p.slot ELSE x >= p.slot
        /\ \A f \in settled : ~(x < f.slot + f.span /\ f.slot < x + p.span)
  BY <1>1, <1>2 DEF Places, Overlaps
<1>4. s \in places /\ \A y \in places : (p.slot <= s /\ s <= y) \/ (p.slot >= s /\ s >= y)
  BY DEF NearestPlace
<1>5. p.slot >= b.start /\ p.slot + p.span <= b.end
  BY DEF Fits
<1>6. Fits(b, at(s)) /\ \A f \in settled : ~Overlaps(at(s), f)
  BY <1>1, <1>2, <1>3, <1>4 DEF Fits, Overlaps
<1> HIDE DEF places, at
<1>7. IF up THEN s <= p.slot ELSE s >= p.slot
  BY <1>3, <1>4
<1>8. ASSUME up, s # p.slot PROVE \E f \in settled : f.slot = s + p.span
  <2>1. s < p.slot /\ s + 1 \in Int /\ s + 1 \notin places
    BY <1>1, <1>4, <1>7, <1>8
  <2>2. PICK f \in settled : s + 1 < f.slot + f.span /\ f.slot < s + 1 + p.span
    BY <1>1, <1>3, <1>4, <1>5, <1>8, <2>1
  <2>3. ~(s < f.slot + f.span /\ f.slot < s + p.span)
    BY <1>3, <1>4
  <2>4. f.slot = s + p.span
    BY <1>1, <2>2, <2>3
  <2> QED BY <2>4
<1>9. ASSUME ~up, s # p.slot PROVE \E f \in settled : f.slot + f.span = s
  <2>1. s > p.slot /\ s - 1 \in Int /\ s - 1 \notin places
    BY <1>1, <1>4, <1>7, <1>9
  <2>2. PICK f \in settled : s - 1 < f.slot + f.span /\ f.slot < s - 1 + p.span
    BY <1>1, <1>3, <1>4, <1>5, <1>9, <2>1
  <2>3. ~(s < f.slot + f.span /\ f.slot < s + p.span)
    BY <1>3, <1>4
  <2>4. f.slot + f.span = s
    BY <1>1, <2>2, <2>3
  <2> QED BY <2>4
<1> QED BY <1>6, <1>7, <1>8, <1>9 DEF at

LEMMA ClearedSlid ==
  ASSUME NEW b \in Bounds, NEW D \in SUBSET BlockId, NEW current \in [D -> Spot], Legal(b, current),
         NEW up \in BOOLEAN, NEW id \in D, NEW moved \in Spot,
         NEW T \in SUBSET (D \ {id}), NEW i \in T, NEW out, Slid(b, current, id, moved, up, T \ {i}, out)
  PROVE  LET next == Cleared(b, current, up, i, out)
         IN next = NoLayout \/ Slid(b, current, id, moved, up, T, next)
<1> DEFINE E == (T \ {i}) \cup {id}
           next == Cleared(b, current, up, i, out)
<1>1. E \in SUBSET D /\ i \in D /\ out \in [E -> Spot] /\ E \cup {i} = T \cup {id} /\ i \notin E
  BY DEF Slid
<1> SUFFICES ASSUME next # NoLayout PROVE Slid(b, current, id, moved, up, T, next)
  OBVIOUS
<1> HIDE DEF E
<1>0. PutAmong(b, current, up, i, E, out, next)
  <2>1. E \in SUBSET D
    BY <1>1
  <2>2. i \in D
    BY <1>1
  <2>3. out \in [E -> Spot]
    BY <1>1
  <2>4. IF Places(b, current[i], Range(out), up) = {} THEN next = NoLayout
        ELSE PutAmong(b, current, up, i, E, out, next)
    BY <2>1, <2>2, <2>3, ClearedIs
  <2> QED BY <2>4
<1>2. /\ next \in [E \cup {i} -> Spot]
      /\ next[i].span = current[i].span
      /\ NearestPlace(b, current[i], Range(out), up, next[i].slot)
      /\ \A j \in E \ {i} : next[j] = out[j]
  BY <1>0 DEF PutAmong
<1> HIDE DEF next
<1>3. \A j \in E : next[j] = out[j]
  BY <1>1, <1>2
<1>4. Range(out) \in SUBSET Spot /\ \A f \in Range(out) : \E j \in E : f = out[j]
  BY <1>1 DEF Range
<1>5. current[i] \in Spot /\ Fits(b, current[i])
  BY <1>1 DEF Legal
<1>6. next[i] \in Spot /\ next[i].slot \in Int /\ next[i] = [current[i] EXCEPT !.slot = next[i].slot]
  BY <1>1, <1>2, <1>5 DEF Spot
<1>7. /\ Fits(b, next[i])
      /\ IF up THEN next[i].slot <= current[i].slot ELSE next[i].slot >= current[i].slot
      /\ \A f \in Range(out) : ~Overlaps(next[i], f)
      /\ next[i].slot # current[i].slot =>
           \E f \in Range(out) : IF up THEN f.slot = next[i].slot + current[i].span
                                 ELSE f.slot + f.span = next[i].slot
  BY <1>2, <1>4, <1>5, <1>6, NearestIsFlush
<1>8. SlidOne(b, current, up, next, i)
  <2>1. DOMAIN next = E \cup {i}
    BY <1>2
  <2>2. ASSUME next[i].slot # current[i].slot
        PROVE  \E j \in DOMAIN next \ {i} : IF up THEN next[j].slot = next[i].slot + next[i].span
                                             ELSE next[j].slot + next[j].span = next[i].slot
    <3>1. PICK f \in Range(out) : IF up THEN f.slot = next[i].slot + current[i].span
                                  ELSE f.slot + f.span = next[i].slot
      BY <1>7, <2>2
    <3>2. PICK j \in E : f = out[j]
      BY <1>4
    <3>3. j \in DOMAIN next \ {i} /\ next[j] = f
      BY <1>1, <1>3, <2>1, <3>2
    <3> QED BY <1>2, <3>1, <3>3
  <2> QED BY <1>2, <1>7, <2>2 DEF SlidOne
<1>9. ASSUME NEW k \in T \ {i} PROVE SlidOne(b, current, up, next, k)
  <2>1. SlidOne(b, current, up, out, k) /\ k \in E /\ next[k] = out[k]
    BY <1>3 DEF Slid, E
  <2>2. DOMAIN out = E /\ DOMAIN next = E \cup {i}
    BY <1>1, <1>2
  <2>3. ASSUME NEW j \in DOMAIN out \ {k} PROVE j \in DOMAIN next \ {k} /\ next[j] = out[j]
    BY <1>3, <2>2
  <2> QED BY <2>1, <2>3 DEF SlidOne
<1>10. ASSUME NEW j \in T \cup {id}, NEW k \in T \cup {id}, j # k PROVE ~Overlaps(next[j], next[k])
  <2>1. CASE j = i
    <3>1. k \in E /\ next[k] = out[k] /\ out[k] \in Range(out)
      BY <1>1, <1>3, <1>10, <2>1 DEF Range
    <3> QED BY <1>7, <2>1, <3>1
  <2>2. CASE k = i
    <3>1. j \in E /\ next[j] = out[j] /\ out[j] \in Range(out)
      BY <1>1, <1>3, <1>10, <2>2 DEF Range
    <3>2. ~Overlaps(next[i], next[j])
      BY <1>7, <3>1
    <3> QED BY <2>2, <3>2 DEF Overlaps
  <2>3. CASE j # i /\ k # i
    <3>1. j \in E /\ k \in E /\ next[j] = out[j] /\ next[k] = out[k]
      BY <1>1, <1>3, <2>3
    <3>2. ~Overlaps(out[j], out[k])
      BY <1>10, <3>1 DEF Slid, E
    <3> QED BY <3>1, <3>2
  <2> QED BY <2>1, <2>2, <2>3
<1>11. next \in [T \cup {id} -> Spot] /\ next[id] = moved
  <2>1. id \in E /\ out[id] = moved
    BY DEF Slid, E
  <2> QED BY <1>1, <1>2, <1>3, <2>1
<1> QED BY <1>8, <1>9, <1>10, <1>11 DEF Slid

\* Whatever the sweep accepts is legal, keeps every span, and moves a block only the way it
\* goes, flush with another.
LEMMA SweepIs ==
  ASSUME NEW b \in Bounds, NEW D \in SUBSET BlockId, NEW current \in [D -> Spot], Legal(b, current),
         NEW up \in BOOLEAN, NEW id \in D, NEW moved \in Spot,
         Sweep(b, current, id, moved, up) # NoLayout
  PROVE  Slid(b, current, id, moved, up, D \ {id}, Sweep(b, current, id, moved, up))
<1> DEFINE S == D \ {id}
<1>0. PICK g : SweptBy(g, b, current, id, moved, up)
  BY SweepFold
<1>1. /\ Sweep(b, current, id, moved, up) = g[S]
      /\ g[{}] = [i \in {id} |-> moved]
      /\ \A T \in SUBSET S : T # {} =>
           LET i == LastMet(current, up, T) IN g[T] = Cleared(b, current, up, i, g[T \ {i}])
  BY <1>0 DEF SweptBy
<1> DEFINE Bad == {T \in SUBSET S : g[T] # NoLayout /\ ~Slid(b, current, id, moved, up, T, g[T])}
<1>2. ASSUME Bad # {} PROVE FALSE
  <2>1. Bad \in SUBSET (SUBSET S) /\ IsFiniteSet(S)
    BY IdAssumption, FS_Subset
  <2> HIDE DEF Bad
  <2>2. PICK T \in Bad : \A U \in Bad : U \subseteq T => U = T
    BY <1>2, <2>1, LeastSet
  <2>3. T \in SUBSET S /\ g[T] # NoLayout /\ ~Slid(b, current, id, moved, up, T, g[T]) /\ IsFiniteSet(T)
    BY <2>1, <2>2, FS_Subset DEF Bad
  <2>4. T # {}
    <3>1. Slid(b, current, id, moved, up, {}, [i \in {id} |-> moved])
      <4>1. {} \cup {id} = {id} /\ [i \in {id} |-> moved] \in [{id} -> Spot]
        OBVIOUS
      <4> QED BY <4>1 DEF Slid
    <3> QED BY <1>1, <2>3, <3>1
  <2> DEFINE i == LastMet(current, up, T)
  <2>5. i \in T /\ g[T] = Cleared(b, current, up, i, g[T \ {i}])
    <3>1. T \in SUBSET D
      BY <2>3
    <3> QED BY <1>1, <2>3, <2>4, <3>1, LastMetIs
  <2> HIDE DEF i
  <2>6. T \ {i} \in SUBSET S /\ T \ {i} \notin Bad
    BY <2>2, <2>3, <2>5
  <2>7. g[T \ {i}] # NoLayout
    BY <2>3, <2>5 DEF Cleared
  <2>8. Slid(b, current, id, moved, up, T \ {i}, g[T \ {i}])
    BY <2>6, <2>7 DEF Bad
  <2>9. T \in SUBSET (D \ {id})
    BY <2>3
  <2>10. g[T] = NoLayout \/ Slid(b, current, id, moved, up, T, g[T])
    BY <2>5, <2>8, <2>9, ClearedSlid
  <2> QED BY <2>3, <2>10
<1> QED BY <1>1, <1>2

-----------------------------------------------------------------------------
(* Compression.                                                            *)

\* A block giving what it can spare of the deficit.
Give(current, i, acc) ==
  LET give == Lesser(current[i].span - 1, acc.deficit)
  IN [deficit |-> acc.deficit - give,
      span |-> [acc.span EXCEPT ![i] = current[i].span - give]]

\* The blocks below give one after the other: g tells what is left to give after some.
TakenBy(g, current, below, deficit) ==
  /\ TakeOut(current, below, deficit, 1, FALSE) =
       IF g[below].deficit > 0 THEN NoLayout ELSE Restrict(g[below].span, below)
  /\ g[{}] = [deficit |-> deficit, span |-> Spans(current)]
  /\ \A T \in SUBSET below : T # {} =>
       LET i == LastMet(current, FALSE, T) IN g[T] = Give(current, i, g[T \ {i}])

LEMMA TakeFold ==
  ASSUME NEW D \in SUBSET BlockId, NEW current \in [D -> Spot], NEW below \in SUBSET D,
         NEW deficit \in Int
  PROVE  \E g : TakenBy(g, current, below, deficit)
<1> DEFINE Out == [deficit : Int, span : [D -> Int]]
           base == [deficit |-> deficit, span |-> Spans(current)]
           pick == [T \in SUBSET below |-> LastMet(current, FALSE, T)]
           step == [i \in below |-> [acc \in Out |-> Give(current, i, acc)]]
           Eqn(h) == h = [T \in SUBSET below |-> IF T = {} THEN base
                           ELSE LET i == LastMet(current, FALSE, T) IN Give(current, i, h[T \ {i}])]
<1>1. \A T \in SUBSET below : IsFiniteSet(T) /\ T \in SUBSET D
  BY IdAssumption, FS_Subset
<1>2. \A T \in SUBSET below : T # {} => pick[T] \in T
  BY <1>1, LastMetIs
<1>3. ASSUME NEW i \in below, NEW acc \in Out PROVE Give(current, i, acc) \in Out
  <2>1. acc.deficit \in Int /\ current[i].span \in Int /\ acc.span \in [D -> Int]
    BY DEF Spot
  <2> DEFINE give == Lesser(current[i].span - 1, acc.deficit)
  <2>2. give \in Int
    BY <2>1 DEF Lesser
  <2> HIDE DEF give
  <2>3. acc.deficit - give \in Int /\ [acc.span EXCEPT ![i] = current[i].span - give] \in [D -> Int]
    BY <2>1, <2>2
  <2> QED BY <2>3 DEF Give, give
<1>4. step \in [below -> [Out -> Out]]
  BY <1>3
<1>5. \A i \in below : \A acc \in Out : step[i][acc] = Give(current, i, acc)
  OBVIOUS
<1>6. base \in Out
  BY DEF Spans, Spot
<1>7. \A T \in SUBSET below : pick[T] = LastMet(current, FALSE, T)
  OBVIOUS
<1>8. IsFiniteSet(below)
  BY <1>1
<1>9. TakeOut(current, below, deficit, 1, FALSE) =
        LET taken == (CHOOSE h : Eqn(h))[below]
        IN IF taken.deficit > 0 THEN NoLayout ELSE Restrict(taken.span, below)
  BY DEF TakeOut, MapThenFoldSet, Give
<1> HIDE DEF pick, step, Out, base
<1>10. Foldable(below, Out, base, pick, step)
  BY <1>2, <1>4, <1>6, <1>8 DEF Foldable
<1>11. PICK g \in [SUBSET below -> Out] : FoldTo(g, below, base, pick, step, Cardinality(below))
  BY <1>10, FoldExists
<1>12. Eqn(g)
  <2>1. ASSUME NEW T \in SUBSET below
        PROVE  g[T] = IF T = {} THEN base
                      ELSE LET i == LastMet(current, FALSE, T) IN Give(current, i, g[T \ {i}])
    <3>1. Cardinality(T) <= Cardinality(below)
      BY <1>8, FS_Subset
    <3>2. g[T] = IF T = {} THEN base ELSE step[pick[T]][g[T \ {pick[T]}]]
      BY <1>11, <3>1 DEF FoldTo
    <3>3. T # {} => pick[T] \in below /\ g[T \ {pick[T]}] \in Out
      BY <1>2
    <3>4. T # {} => step[pick[T]][g[T \ {pick[T]}]] = Give(current, pick[T], g[T \ {pick[T]}])
      BY <1>5, <3>3
    <3> QED BY <1>7, <3>2, <3>4
  <2> QED BY <2>1
<1> DEFINE h == CHOOSE h : Eqn(h)
<1>13. Eqn(h)
  BY <1>12
<1>14. TakeOut(current, below, deficit, 1, FALSE) =
         IF h[below].deficit > 0 THEN NoLayout ELSE Restrict(h[below].span, below)
  BY <1>9
<1> HIDE DEF h
<1>15. h[{}] = base
  BY <1>13
<1>16. \A T \in SUBSET below : T # {} =>
         LET i == LastMet(current, FALSE, T) IN h[T] = Give(current, i, h[T \ {i}])
  BY <1>13
<1> QED BY <1>14, <1>15, <1>16 DEF base, TakenBy

\* What the blocks T have given: no block more than it can spare, and only when those
\* above it in T could not cover the deficit.
Taken(current, T, deficit, acc) ==
  /\ acc.deficit \in Nat /\ acc.span \in [DOMAIN current -> Int]
  /\ \A i \in DOMAIN current \ T : acc.span[i] = current[i].span
  /\ \A i \in T : acc.span[i] >= 1 /\ acc.span[i] <= current[i].span
  /\ Total(acc.span, T) + deficit = Total(Spans(current), T) + acc.deficit
  /\ acc.deficit > 0 => \A i \in T : acc.span[i] = 1
  /\ \A i, j \in T : current[j].slot < current[i].slot /\ acc.span[i] < current[i].span => acc.span[j] = 1

LEMMA GiveTakes ==
  ASSUME NEW D \in SUBSET BlockId, NEW current \in [D -> Spot], \A i \in D : current[i].span >= 1,
         NEW T \in SUBSET D, NEW i \in T, \A j \in T : current[i].slot >= current[j].slot,
         NEW deficit \in Int, NEW acc, Taken(current, T \ {i}, deficit, acc)
  PROVE  Taken(current, T, deficit, Give(current, i, acc))
<1> DEFINE give == Lesser(current[i].span - 1, acc.deficit)
           next == Give(current, i, acc)
<1>1. /\ acc.deficit \in Int /\ acc.deficit >= 0 /\ acc.span \in [D -> Int]
      /\ \A j \in D : current[j].span \in Int /\ current[j].slot \in Int /\ current[j].span >= 1
  BY DEF Taken, Spot
<1>2. /\ give \in Int /\ give >= 0 /\ give <= current[i].span - 1 /\ give <= acc.deficit
      /\ give = current[i].span - 1 \/ give = acc.deficit
  BY <1>1 DEF Lesser
<1>3. /\ next.deficit = acc.deficit - give
      /\ next.span = [acc.span EXCEPT ![i] = current[i].span - give]
  BY DEF Give
<1> HIDE DEF next, give
<1>4. /\ next.deficit \in Nat /\ next.span \in [D -> Int]
      /\ next.span[i] = current[i].span - give
      /\ \A j \in D \ {i} : next.span[j] = acc.span[j]
  BY <1>1, <1>2, <1>3
<1>5. \A j \in D \ T : next.span[j] = current[j].span
  BY <1>4 DEF Taken
<1>6. \A j \in T : next.span[j] >= 1 /\ next.span[j] <= current[j].span
  <2>1. next.span[i] >= 1 /\ next.span[i] <= current[i].span
    BY <1>1, <1>2, <1>4
  <2>2. \A j \in T \ {i} : next.span[j] >= 1 /\ next.span[j] <= current[j].span
    BY <1>4 DEF Taken
  <2> QED BY <2>1, <2>2
<1>7. Total(next.span, T) + deficit = Total(Spans(current), T) + next.deficit
  <2>1. IsFiniteSet(T) /\ IsFiniteSet(T \ {i}) /\ T \ {i} \in SUBSET T
    BY IdAssumption, FS_Subset
  <2>2. /\ \A j \in T : next.span[j] \in Int /\ Spans(current)[j] \in Int /\ acc.span[j] \in Int
        /\ Spans(current)[i] = current[i].span
    BY <1>1, <1>4 DEF Spans
  <2>3. Total(next.span, T) = next.span[i] + Total(next.span, T \ {i})
    BY <2>1, <2>2, TotalSplit
  <2>4. Total(Spans(current), T) = Spans(current)[i] + Total(Spans(current), T \ {i})
    BY <2>1, <2>2, TotalSplit
  <2>5. Total(acc.span, T \ {i}) = Total(next.span, T \ {i})
    <3>1. \A j \in T \ {i} : acc.span[j] \in Int /\ next.span[j] = acc.span[j]
      BY <1>4, <2>2
    <3> QED BY <2>1, <3>1, TotalAgrees
  <2>6. Total(acc.span, T \ {i}) + deficit = Total(Spans(current), T \ {i}) + acc.deficit
    BY DEF Taken
  <2>7. Total(next.span, T \ {i}) \in Int /\ Total(Spans(current), T \ {i}) \in Int
    BY <2>1, <2>2, TotalType
  <2> QED BY <1>1, <1>2, <1>3, <1>4, <2>2, <2>3, <2>4, <2>5, <2>6, <2>7
<1>8. ASSUME next.deficit > 0 PROVE \A j \in T : next.span[j] = 1
  <2>1. acc.deficit > 0 /\ give = current[i].span - 1
    BY <1>1, <1>2, <1>3, <1>8
  <2>2. \A j \in T \ {i} : acc.span[j] = 1
    BY <2>1 DEF Taken
  <2>3. next.span[i] = 1
    BY <1>1, <1>4, <2>1
  <2> QED BY <1>4, <2>2, <2>3
<1>9. ASSUME NEW j \in T, NEW k \in T, current[k].slot < current[j].slot, next.span[j] < current[j].span
      PROVE  next.span[k] = 1
  <2>1. k # i
    BY <1>1, <1>9
  <2>2. CASE j = i
    <3>1. acc.deficit > 0
      BY <1>1, <1>2, <1>4, <1>9, <2>2
    <3> QED BY <1>4, <2>1, <3>1 DEF Taken
  <2>3. CASE j # i
    BY <1>4, <1>9, <2>1, <2>3 DEF Taken
  <2> QED BY <2>2, <2>3
<1>10. DOMAIN current = D
  OBVIOUS
<1> QED BY <1>4, <1>5, <1>6, <1>7, <1>8, <1>9, <1>10 DEF Taken, next

LEMMA TakeOutIs ==
  ASSUME NEW D \in SUBSET BlockId, NEW current \in [D -> Spot], \A i \in D : current[i].span >= 1,
         NEW below \in SUBSET D, NEW deficit \in Nat
  PROVE  \E acc : /\ Taken(current, below, deficit, acc)
                  /\ TakeOut(current, below, deficit, 1, FALSE) =
                       IF acc.deficit > 0 THEN NoLayout ELSE Restrict(acc.span, below)
<1>1. PICK g : TakenBy(g, current, below, deficit)
  <2>1. deficit \in Int
    OBVIOUS
  <2> QED BY <2>1, TakeFold
<1> DEFINE Bad == {T \in SUBSET below : ~Taken(current, T, deficit, g[T])}
<1>2. ASSUME Bad # {} PROVE FALSE
  <2>1. Bad \in SUBSET (SUBSET below) /\ IsFiniteSet(below)
    BY IdAssumption, FS_Subset
  <2> HIDE DEF Bad
  <2>2. PICK T \in Bad : \A U \in Bad : U \subseteq T => U = T
    BY <1>2, <2>1, LeastSet
  <2>3. T \in SUBSET below /\ T \in SUBSET D /\ ~Taken(current, T, deficit, g[T]) /\ IsFiniteSet(T)
    BY <2>1, <2>2, FS_Subset DEF Bad
  <2>4. T # {}
    <3>1. Spans(current) \in [D -> Int] /\ \A i \in D : Spans(current)[i] = current[i].span
      BY DEF Spans, Spot
    <3>2. Taken(current, {}, deficit, [deficit |-> deficit, span |-> Spans(current)])
      BY <3>1 DEF Taken
    <3> QED BY <1>1, <2>3, <3>2 DEF TakenBy
  <2> DEFINE i == LastMet(current, FALSE, T)
  <2>5. i \in T /\ \A j \in T : current[i].slot >= current[j].slot
    BY <2>3, <2>4, LastMetIs
  <2>6. g[T] = Give(current, i, g[T \ {i}])
    BY <1>1, <2>3, <2>4 DEF TakenBy
  <2> HIDE DEF i
  <2>7. T \ {i} \in SUBSET below /\ T \ {i} \notin Bad
    BY <2>2, <2>3, <2>5
  <2>8. Taken(current, T \ {i}, deficit, g[T \ {i}])
    BY <2>7 DEF Bad
  <2>9. Taken(current, T, deficit, g[T])
    BY <2>3, <2>5, <2>6, <2>8, GiveTakes
  <2> QED BY <2>3, <2>9
<1>3. Taken(current, below, deficit, g[below])
  BY <1>2
<1> QED BY <1>1, <1>3 DEF TakenBy

\* The spans the blocks below are left with: they fill what is available, and one gives
\* only when those above it are down to a slot each.
Compressed(current, below, available, spans) ==
  /\ spans \in [below -> Int]
  /\ \A i \in below : spans[i] >= 1 /\ spans[i] <= current[i].span
  /\ Total(spans, below) = available
  /\ \A i, j \in below : current[j].slot < current[i].slot /\ spans[i] < current[i].span => spans[j] = 1

\* It succeeds exactly when there is a slot for each of them.
LEMMA CompressIs ==
  ASSUME NEW D \in SUBSET BlockId, NEW current \in [D -> Spot], \A i \in D : current[i].span >= 1,
         NEW below \in SUBSET D, NEW available \in Int, Total(Spans(current), below) > available
  PROVE  IF Cardinality(below) > available THEN CompressBelow(current, below, available) = NoLayout
         ELSE /\ Compressed(current, below, available, CompressBelow(current, below, available))
              /\ CompressBelow(current, below, available) # NoLayout
<1> DEFINE deficit == Total(Spans(current), below) - available
           spans == CompressBelow(current, below, available)
<1>1. IsFiniteSet(below) /\ \A i \in below : Spans(current)[i] = current[i].span /\ current[i].span \in Int
  BY IdAssumption, FS_Subset DEF Spans, Spot
<1>2. Total(Spans(current), below) \in Int /\ deficit \in Nat
  BY <1>1, TotalType
<1> HIDE DEF deficit
<1>3. PICK acc : /\ Taken(current, below, deficit, acc)
                 /\ TakeOut(current, below, deficit, 1, FALSE) =
                      IF acc.deficit > 0 THEN NoLayout ELSE Restrict(acc.span, below)
  BY <1>2, TakeOutIs
<1>4. spans = IF acc.deficit > 0 THEN NoLayout ELSE Restrict(acc.span, below)
  BY <1>3 DEF CompressBelow, deficit
<1>5. /\ acc.deficit \in Int /\ acc.deficit >= 0
      /\ \A i \in below : acc.span[i] \in Int /\ acc.span[i] >= 1
      /\ Total(acc.span, below) \in Int /\ Cardinality(below) \in Nat
  BY <1>1, <1>3, TotalType, FS_CardinalityType DEF Taken
<1>6. Total(acc.span, below) = available + acc.deficit
  BY <1>2, <1>3, <1>5 DEF Taken, deficit
<1>7. CASE acc.deficit > 0
  <2>1. \A i \in below : acc.span[i] = 1
    BY <1>3, <1>7 DEF Taken
  <2>2. Total(acc.span, below) = Cardinality(below)
    BY <1>1, <2>1, TotalOfOnes
  <2>3. Cardinality(below) > available
    BY <1>5, <1>6, <1>7, <2>2
  <2> QED BY <1>4, <1>7, <2>3
<1>8. CASE acc.deficit = 0
  <2>1. spans = Restrict(acc.span, below)
    BY <1>4, <1>8
  <2>2. spans \in [below -> Int] /\ \A i \in below : spans[i] = acc.span[i]
    BY <1>5, <2>1 DEF Restrict
  <2> HIDE DEF spans
  <2>3. Total(acc.span, below) = Total(spans, below)
    BY <1>1, <1>5, <2>2, TotalAgrees
  <2>4. Compressed(current, below, available, spans)
    BY <1>3, <1>6, <1>8, <2>2, <2>3 DEF Compressed, Taken
  <2>5. Cardinality(below) <= available
    <3>1. {} \in SUBSET below /\ below \ {} = below
      OBVIOUS
    <3>2. Total(acc.span, below) >= Total(acc.span, {}) + Cardinality(below \ {})
      BY <1>1, <1>5, <3>1, TotalGrows
    <3>3. Total(acc.span, {}) = 0
      BY <1>1, <1>5, TotalFold
    <3> QED BY <1>5, <1>6, <1>8, <3>1, <3>2, <3>3
  <2>6. spans # NoLayout
    <3>1. below \in SUBSET BlockId
      OBVIOUS
    <3> QED BY <2>2, <3>1, LayoutIsNotNone
  <2> QED BY <1>5, <2>4, <2>5, <2>6 DEF spans
<1> QED BY <1>5, <1>7, <1>8

\* Blocks that do not overlap fit where they begin.
LEMMA RunsFit ==
  ASSUME NEW b \in Bounds, NEW D \in SUBSET BlockId, NEW current \in [D -> Spot], Legal(b, current),
         NEW S \in SUBSET D, NEW from \in Int, from <= b.end, \A i \in S : current[i].slot >= from
  PROVE  Total(Spans(current), S) <= b.end - from
<1> DEFINE Bad == {T \in SUBSET S : \E s \in Int : /\ s <= b.end /\ \A i \in T : current[i].slot >= s
                                                  /\ ~(Total(Spans(current), T) <= b.end - s)}
<1>1. ASSUME Bad # {} PROVE FALSE
  <2>1. Bad \in SUBSET (SUBSET S) /\ IsFiniteSet(S)
    BY IdAssumption, FS_Subset
  <2> HIDE DEF Bad
  <2>2. PICK T \in Bad : \A U \in Bad : U \subseteq T => U = T
    BY <1>1, <2>1, LeastSet
  <2>3. T \in SUBSET S /\ T \in SUBSET D /\ IsFiniteSet(T)
    BY <2>1, <2>2, FS_Subset DEF Bad
  <2>4. PICK s \in Int : /\ s <= b.end /\ \A i \in T : current[i].slot >= s
                         /\ ~(Total(Spans(current), T) <= b.end - s)
    BY <2>2 DEF Bad
  <2>5. b.end \in Int /\ \A i \in D : /\ current[i].slot \in Int /\ current[i].span \in Int
                                      /\ Spans(current)[i] = current[i].span
                                      /\ current[i].span >= 1 /\ current[i].slot + current[i].span <= b.end
    BY DEF Bounds, Spot, Spans, Legal, Fits
  <2>6. T # {}
    <3>1. Total(Spans(current), {}) = 0
      BY <2>3, <2>5, TotalFold
    <3> QED BY <2>4, <2>5, <3>1
  <2> DEFINE i == LastMet(current, TRUE, T)
  <2>7. i \in T /\ \A j \in T : current[i].slot <= current[j].slot
    BY <2>3, <2>6, LastMetIs
  <2> HIDE DEF i
  <2>8. \A j \in T \ {i} : current[j].slot >= current[i].slot + current[i].span
    <3> SUFFICES ASSUME NEW j \in T \ {i} PROVE current[j].slot >= current[i].slot + current[i].span
      OBVIOUS
    <3>1. ~Overlaps(current[i], current[j]) /\ i \in D /\ j \in D
      BY <2>3, <2>7 DEF Legal
    <3>2. current[i].slot <= current[j].slot
      BY <2>7
    <3> QED BY <2>5, <3>1, <3>2 DEF Overlaps
  <2>9. T \ {i} \in SUBSET S /\ T \ {i} \notin Bad
    BY <2>2, <2>3, <2>7
  <2>10. current[i].slot + current[i].span \in Int /\ current[i].slot + current[i].span <= b.end
    BY <2>3, <2>5, <2>7
  <2>11. Total(Spans(current), T \ {i}) <= b.end - (current[i].slot + current[i].span)
    BY <2>8, <2>9, <2>10 DEF Bad
  <2>12. Total(Spans(current), T) = Spans(current)[i] + Total(Spans(current), T \ {i})
    BY <2>3, <2>5, <2>7, TotalSplit
  <2>13. /\ i \in D /\ current[i].slot \in Int /\ current[i].span \in Int /\ current[i].slot >= s
         /\ Spans(current)[i] = current[i].span /\ Total(Spans(current), T \ {i}) \in Int
    BY <2>3, <2>4, <2>5, <2>7, TotalType
  <2> QED BY <2>4, <2>5, <2>11, <2>12, <2>13
<1>2. S \notin Bad
  BY <1>1
<1> QED BY <1>2

-----------------------------------------------------------------------------
(* The stack.                                                              *)

\* The block id grows downwards to moved, in a legal layout.
Grows(b, current, id, moved) ==
  /\ Legal(b, current) /\ Fits(b, moved)
  /\ moved.slot = current[id].slot /\ moved.span >= 1

BelowOf(current, id, moved) == {i \in DOMAIN current \ {id} : current[i].slot > moved.slot}

AboveIn(current, below, i) == {j \in below : current[j].slot < current[i].slot}

\* out is current with the blocks below stacked under moved, spans tall.
StackedTight(current, id, moved, spans, out) ==
  LET below == BelowOf(current, id, moved)
  IN /\ out \in [DOMAIN current -> Spot] /\ out[id] = moved
     /\ \A i \in below : /\ out[i].slot = moved.slot + moved.span + Total(spans, AboveIn(current, below, i))
                         /\ out[i].span = spans[i]
     /\ \A i \in DOMAIN current \ (below \cup {id}) : out[i] = current[i]

LEMMA StackIsTight ==
  ASSUME NEW b \in Bounds, NEW D \in SUBSET BlockId, NEW current \in [D -> Spot], NEW id \in D,
         NEW moved \in Spot, NEW spans \in [BelowOf(current, id, moved) -> Int]
  PROVE  StackedTight(current, id, moved, spans, Stack(current, id, moved, spans))
<1> DEFINE below == BelowOf(current, id, moved)
           out == Stack(current, id, moved, spans)
           top == moved.slot + moved.span
<1>1. below \in SUBSET D /\ id \notin below /\ DOMAIN spans = below /\ DOMAIN current = D
  BY DEF BelowOf
<1>2. IsFiniteSet(below) /\ \A i \in below : spans[i] \in Int
  BY <1>1, IdAssumption, FS_Subset
<1>3. top \in Int
  BY DEF Spot
<1> HIDE DEF below
<1>4. \A i \in below : AboveIn(current, below, i) \in SUBSET below
  BY DEF AboveIn
<1>5. \A i \in below : Total(spans, AboveIn(current, below, i)) \in Int
  BY <1>2, <1>4, TotalType
<1>6. out = [i \in D |->
               IF i = id THEN moved
               ELSE IF i \in below
               THEN [slot |-> top + Total(spans, AboveIn(current, below, i)), span |-> spans[i]]
               ELSE current[i]]
  BY <1>1 DEF Stack, AboveIn
<1> HIDE DEF out, top
<1>7. ASSUME NEW i \in below
      PROVE  /\ out[i] \in Spot /\ out[i].slot = top + Total(spans, AboveIn(current, below, i))
             /\ out[i].span = spans[i]
  <2>1. out[i] = [slot |-> top + Total(spans, AboveIn(current, below, i)), span |-> spans[i]]
    BY <1>1, <1>6
  <2>2. top + Total(spans, AboveIn(current, below, i)) \in Int /\ spans[i] \in Int
    BY <1>2, <1>3, <1>5
  <2> QED BY <2>1, <2>2 DEF Spot
<1>8. out[id] = moved /\ \A i \in D \ (below \cup {id}) : out[i] = current[i] /\ out[i] \in Spot
  BY <1>1, <1>6
<1>9. out \in [D -> Spot]
  <2>1. \A i \in D : out[i] \in Spot
    BY <1>7, <1>8
  <2> QED BY <1>6, <2>1
<1> QED BY <1>1, <1>7, <1>8, <1>9 DEF StackedTight, below, out, top

\* What the stacking keeps: a legal layout, with no block above where it was, each block
\* below flush with the one before it and the last one at the end of the day.
Piled(b, current, id, moved, out) ==
  LET below == BelowOf(current, id, moved)
  IN /\ \A i \in below : /\ out[i].slot >= current[i].slot /\ out[i].slot >= moved.slot + moved.span
                         /\ out[i].slot + out[i].span <= b.end
                         /\ \E j \in below \cup {id} : j # i /\ out[j].slot + out[j].span = out[i].slot
     /\ \A i, j \in below : i # j => ~Overlaps(out[i], out[j])
     /\ \E i \in below \cup {id} : out[i].slot + out[i].span = b.end

LEMMA StackPiles ==
  ASSUME NEW b \in Bounds, NEW D \in SUBSET BlockId, NEW current \in [D -> Spot], NEW id \in D,
         NEW moved \in Spot, Grows(b, current, id, moved), NEW spans, NEW out,
         Compressed(current, BelowOf(current, id, moved), b.end - (moved.slot + moved.span), spans),
         StackedTight(current, id, moved, spans, out)
  PROVE  Piled(b, current, id, moved, out)
<1> DEFINE below == BelowOf(current, id, moved)
           top == moved.slot + moved.span
           Above(i) == AboveIn(current, below, i)
<1>1. below \in SUBSET D /\ id \notin below /\ DOMAIN current = D
  BY DEF BelowOf
<1>2. /\ moved.slot \in Int /\ moved.span \in Int /\ top \in Int /\ b.start \in Int /\ b.end \in Int
      /\ b.start <= moved.slot /\ top <= b.end
      /\ \A i \in D : current[i].slot \in Int /\ current[i].span \in Int /\ current[i].span >= 1
      /\ \A i \in D : current[i].slot + current[i].span <= b.end
  BY DEF Spot, Bounds, Grows, Legal, Fits
<1>3. \A i, j \in D : i # j => current[i].slot # current[j].slot
  <2> SUFFICES ASSUME NEW i \in D, NEW j \in D, i # j, current[i].slot = current[j].slot PROVE FALSE
    OBVIOUS
  <2>1. ~Overlaps(current[i], current[j])
    BY DEF Grows, Legal
  <2> QED BY <1>2, <2>1 DEF Overlaps
<1>4. /\ \A i \in below : spans[i] \in Int /\ spans[i] >= 1 /\ spans[i] <= current[i].span
      /\ Total(spans, below) = b.end - top
  BY DEF Compressed
<1>5. \A i \in below : out[i].slot = top + Total(spans, Above(i)) /\ out[i].span = spans[i]
  BY DEF StackedTight
<1>6. out[id] = moved
  BY DEF StackedTight
<1> HIDE DEF below, top
<1>7. IsFiniteSet(below)
  BY <1>1, IdAssumption, FS_Subset
<1>8. \A i \in below : Above(i) \in SUBSET below /\ i \notin Above(i)
  BY <1>1, <1>2 DEF AboveIn
<1>9. \A S \in SUBSET below : IsFiniteSet(S) /\ Total(spans, S) \in Int
  BY <1>4, <1>7, TotalType
<1>10. \A S \in SUBSET below : \A R \in SUBSET S : Total(spans, S) >= Total(spans, R)
  <2> SUFFICES ASSUME NEW S \in SUBSET below, NEW R \in SUBSET S PROVE Total(spans, S) >= Total(spans, R)
    OBVIOUS
  <2>1. IsFiniteSet(S) /\ \A i \in S : spans[i] \in Int /\ spans[i] >= 1
    BY <1>4, <1>9
  <2>2. Total(spans, S) >= Total(spans, R) + Cardinality(S \ R)
    BY <2>1, TotalGrows
  <2>3. Cardinality(S \ R) \in Nat /\ Total(spans, S) \in Int /\ Total(spans, R) \in Int
    <3>1. IsFiniteSet(S \ R) /\ R \in SUBSET below
      BY <2>1, FS_Subset
    <3> QED BY <3>1, <1>9, FS_CardinalityType
  <2> QED BY <2>2, <2>3
<1>11. \A i \in below : Total(spans, Above(i) \cup {i}) = spans[i] + Total(spans, Above(i))
  <2> SUFFICES ASSUME NEW i \in below
               PROVE  Total(spans, Above(i) \cup {i}) = spans[i] + Total(spans, Above(i))
    OBVIOUS
  <2> DEFINE S == Above(i) \cup {i}
  <2>1. S \in SUBSET below /\ S \ {i} = Above(i) /\ i \in S
    BY <1>8
  <2> HIDE DEF S
  <2>2. IsFiniteSet(S) /\ \A j \in S : spans[j] \in Int
    BY <1>4, <1>9, <2>1
  <2>3. Total(spans, S) = spans[i] + Total(spans, S \ {i})
    BY <2>1, <2>2, TotalSplit
  <2> QED BY <2>1, <2>3 DEF S
<1>12. \A i \in below : out[i].slot \in Int /\ out[i].span \in Int /\ out[i].span >= 1
  BY <1>2, <1>4, <1>5, <1>8, <1>9
<1>13. \A i \in below : out[i].slot >= top /\ out[i].slot + out[i].span <= b.end
  <2> SUFFICES ASSUME NEW i \in below PROVE out[i].slot >= top /\ out[i].slot + out[i].span <= b.end
    OBVIOUS
  <2>1. {} \in SUBSET Above(i) /\ Above(i) \cup {i} \in SUBSET below /\ Above(i) \in SUBSET below
    BY <1>8
  <2>2. Total(spans, Above(i)) >= Total(spans, {}) /\ Total(spans, below) >= Total(spans, Above(i) \cup {i})
    BY <1>10, <2>1
  <2>3. Total(spans, {}) = 0
    BY <1>4, <1>7, TotalFold
  <2>4. Total(spans, Above(i)) \in Int /\ Total(spans, Above(i) \cup {i}) \in Int /\ Total(spans, below) \in Int
    BY <1>9, <2>1
  <2>5. /\ out[i].slot = top + Total(spans, Above(i)) /\ out[i].span = spans[i] /\ spans[i] \in Int
        /\ Total(spans, Above(i) \cup {i}) = spans[i] + Total(spans, Above(i))
        /\ Total(spans, below) = b.end - top /\ top \in Int /\ b.end \in Int
    BY <1>2, <1>4, <1>5, <1>11
  <2> HIDE DEF Above
  <2> QED BY <2>2, <2>3, <2>4, <2>5
<1>14. \A i, j \in below : current[j].slot < current[i].slot => out[j].slot + out[j].span <= out[i].slot
  <2> SUFFICES ASSUME NEW i \in below, NEW j \in below, current[j].slot < current[i].slot
               PROVE  out[j].slot + out[j].span <= out[i].slot
    OBVIOUS
  <2>1. Above(j) \cup {j} \in SUBSET Above(i)
    BY <1>1, <1>2 DEF AboveIn
  <2>2. Total(spans, Above(i)) >= Total(spans, Above(j) \cup {j})
    BY <1>8, <1>10, <2>1
  <2>3. Total(spans, Above(i)) \in Int /\ Total(spans, Above(j)) \in Int
    BY <1>8, <1>9
  <2>4. /\ out[i].slot = top + Total(spans, Above(i)) /\ out[j].slot = top + Total(spans, Above(j))
        /\ out[j].span = spans[j] /\ spans[j] \in Int /\ top \in Int
        /\ Total(spans, Above(j) \cup {j}) = spans[j] + Total(spans, Above(j))
    BY <1>2, <1>4, <1>5, <1>11
  <2> HIDE DEF Above
  <2> QED BY <2>2, <2>3, <2>4
<1>15. \A i, j \in below : i # j => ~Overlaps(out[i], out[j])
  <2> SUFFICES ASSUME NEW i \in below, NEW j \in below, i # j PROVE ~Overlaps(out[i], out[j])
    OBVIOUS
  <2>1. current[i].slot < current[j].slot \/ current[j].slot < current[i].slot
    BY <1>1, <1>2, <1>3
  <2> QED BY <1>12, <1>14, <2>1 DEF Overlaps
<1>16. ASSUME NEW i \in below PROVE out[i].slot >= current[i].slot
  <2> DEFINE rest == below \ Above(i)
  <2>1. rest \in SUBSET below /\ rest \in SUBSET D /\ \A j \in rest : current[j].slot >= current[i].slot
    BY <1>1, <1>2 DEF AboveIn
  <2>2. Total(spans, below) = Total(spans, Above(i)) + Total(spans, rest)
    BY <1>4, <1>7, <1>8, TotalUnion
  <2> HIDE DEF rest
  <2>3. IsFiniteSet(rest) /\ Total(spans, rest) \in Int /\ Total(spans, Above(i)) \in Int
    BY <1>8, <1>9, <2>1
  <2>4. \A j \in rest : /\ spans[j] \in Int /\ Spans(current)[j] \in Int
                        /\ spans[j] <= Spans(current)[j]
    BY <1>1, <1>2, <1>4, <2>1 DEF Spans
  <2>5. Total(spans, rest) <= Total(Spans(current), rest)
    BY <2>3, <2>4, TotalAtMost
  <2>6. Legal(b, current) /\ current[i].slot \in Int /\ current[i].slot <= b.end
    BY <1>1, <1>2 DEF Grows
  <2>7. Total(Spans(current), rest) <= b.end - current[i].slot
    BY <2>1, <2>6, RunsFit
  <2>8. Total(Spans(current), rest) \in Int
    BY <2>3, <2>4, TotalType
  <2> QED BY <1>2, <1>4, <1>5, <2>2, <2>3, <2>5, <2>6, <2>7, <2>8
<1>17. ASSUME NEW i \in below
       PROVE  \E j \in below \cup {id} : j # i /\ out[j].slot + out[j].span = out[i].slot
  <2>1. CASE Above(i) = {}
    <3>1. Total(spans, {}) = 0
      BY <1>4, <1>7, TotalFold
    <3>2. out[i].slot = top + Total(spans, {}) /\ top \in Int
      BY <1>2, <1>5, <2>1
    <3>3. out[i].slot = top
      BY <3>1, <3>2
    <3>4. out[id].slot + out[id].span = out[i].slot /\ id # i
      BY <1>1, <1>6, <3>3 DEF top
    <3> QED BY <3>4
  <2>2. CASE Above(i) # {}
    <3> DEFINE S == Above(i)
               j == LastMet(current, FALSE, S)
    <3>1. S \in SUBSET D /\ IsFiniteSet(S) /\ S # {}
      BY <1>1, <1>8, <1>9, <2>2
    <3> HIDE DEF S
    <3>2. j \in S /\ \A k \in S : current[j].slot >= current[k].slot
      BY <3>1, LastMetIs
    <3> HIDE DEF j
    <3>3. j \in below /\ j # i /\ current[j].slot < current[i].slot
      BY <1>8, <3>2 DEF S, AboveIn
    <3>4. \A k \in below : current[k].slot < current[i].slot => k = j \/ current[k].slot < current[j].slot
      <4> SUFFICES ASSUME NEW k \in below, current[k].slot < current[i].slot, k # j
                   PROVE  current[k].slot < current[j].slot
        OBVIOUS
      <4>1. k \in S
        BY DEF S, AboveIn
      <4> QED BY <1>1, <1>2, <1>3, <3>2, <3>3, <4>1
    <3>5. Above(i) = Above(j) \cup {j}
      BY <1>1, <1>2, <3>3, <3>4 DEF AboveIn
    <3>6. Total(spans, Above(i)) = spans[j] + Total(spans, Above(j)) /\ Total(spans, Above(j)) \in Int
      BY <1>8, <1>9, <1>11, <3>3, <3>5
    <3>7. out[j].slot + out[j].span = out[i].slot
      BY <1>2, <1>4, <1>5, <3>3, <3>6
    <3> QED BY <3>3, <3>7
  <2> QED BY <2>1, <2>2
<1>18. \E i \in below \cup {id} : out[i].slot + out[i].span = b.end
  <2>1. CASE below = {}
    <3>1. Total(spans, below) = 0
      BY <1>4, <1>7, <2>1, TotalFold
    <3> QED BY <1>2, <1>4, <1>6, <3>1 DEF top
  <2>2. CASE below # {}
    <3> DEFINE j == LastMet(current, FALSE, below)
    <3>1. j \in below /\ \A k \in below : current[j].slot >= current[k].slot
      BY <1>1, <1>7, <2>2, LastMetIs
    <3> HIDE DEF j
    <3>2. \A k \in below : k = j \/ current[k].slot < current[j].slot
      BY <1>1, <1>2, <1>3, <3>1
    <3>3. Above(j) \cup {j} = below
      BY <3>1, <3>2 DEF AboveIn
    <3>4. Total(spans, below) = spans[j] + Total(spans, Above(j)) /\ Total(spans, Above(j)) \in Int
      BY <1>8, <1>9, <1>11, <3>1, <3>3
    <3>5. out[j].slot + out[j].span = b.end
      BY <1>2, <1>4, <1>5, <3>1, <3>4
    <3> QED BY <3>1, <3>5
  <2> QED BY <2>1, <2>2
<1> QED BY <1>13, <1>15, <1>16, <1>17, <1>18 DEF Piled, below, top

-----------------------------------------------------------------------------
(* What pushLayout proposes.                                               *)

Proposal(id, b, current, out) == [id |-> id, day |-> b, start |-> current, layout |-> out]

LEMMA LegalIsProposable ==
  ASSUME NEW b \in Bounds, NEW D \in SUBSET BlockId, NEW current \in [D -> Spot], NEW id,
         NEW out \in [D -> Spot], Legal(b, out)
  PROVE  LegalProposal(Proposal(id, b, current, out))
<1>1. /\ b.start \in Int /\ b.end \in Int
      /\ \A i \in D : out[i].slot \in Int /\ out[i].span \in Int /\ out[i].span >= 1
      /\ \A i \in D : b.start <= out[i].slot /\ out[i].slot + out[i].span <= b.end
  BY DEF Bounds, Spot, Legal, Fits
<1>2. \A i \in D : Run(out[i]) # {} /\ Run(out[i]) \subseteq b.start .. (b.end - 1)
  BY <1>1, RunInside DEF Run
<1>3. \A i, j \in D : i # j => Run(out[i]) \cap Run(out[j]) = {}
  <2> SUFFICES ASSUME NEW i \in D, NEW j \in D, i # j PROVE Run(out[i]) \cap Run(out[j]) = {}
    OBVIOUS
  <2>1. out[i].slot + out[i].span <= out[j].slot \/ out[j].slot + out[j].span <= out[i].slot
    BY <1>1 DEF Legal, Overlaps
  <2> QED BY <1>1, <2>1, RunsApart DEF Run
<1> QED BY <1>2, <1>3 DEF LegalProposal, Proposal

\* What the theorems about proposals need: a legal layout made from start for the day.
Pushed(b, current, id, out) ==
  /\ out \in [DOMAIN current -> Spot] /\ Legal(b, out)
  /\ MinimalPush(Proposal(id, b, current, out))
  /\ ClosestFirst(Proposal(id, b, current, out))

\* The layout a gesture starts with, as its first proposal.
LEMMA UnchangedIsPushed ==
  ASSUME NEW b \in Bounds, NEW D \in SUBSET BlockId, NEW current \in [D -> Spot], Legal(b, current),
         NEW id \in D
  PROVE  Pushed(b, current, id, current)
<1>1. \A i \in D : current[i].slot \in Int /\ current[i].span \in Int
  BY DEF Spot
<1> QED BY <1>1 DEF Pushed, MinimalPush, ClosestFirst, Proposal

LEMMA SlidIsPushed ==
  ASSUME NEW b \in Bounds, NEW D \in SUBSET BlockId, NEW current \in [D -> Spot], Legal(b, current),
         NEW id \in D, NEW moved \in Spot, moved.span >= 1, Fits(b, moved),
         NEW out, Slid(b, current, id, moved, moved.slot > current[id].slot, D \ {id}, out)
  PROVE  Pushed(b, current, id, out)
<1> DEFINE up == moved.slot > current[id].slot
<1>1. D = (D \ {id}) \cup {id} /\ DOMAIN current = D
  OBVIOUS
<1>2. /\ out \in [D -> Spot] /\ out[id] = moved
      /\ \A i \in D \ {id} : SlidOne(b, current, up, out, i)
      /\ \A i, j \in D : i # j => ~Overlaps(out[i], out[j])
  BY <1>1 DEF Slid
<1>3. /\ \A i \in D : /\ current[i].slot \in Int /\ current[i].span \in Int /\ current[i].span >= 1
                      /\ out[i].slot \in Int /\ out[i].span \in Int
  BY <1>2 DEF Spot, Legal
<1>4. \A i \in D \ {id} : /\ out[i].span = current[i].span /\ Fits(b, out[i])
                          /\ IF up THEN out[i].slot <= current[i].slot ELSE out[i].slot >= current[i].slot
                          /\ out[i].slot # current[i].slot =>
                               \E j \in D \ {i} : IF up THEN out[j].slot = out[i].slot + out[i].span
                                                  ELSE out[j].slot + out[j].span = out[i].slot
  BY <1>2 DEF SlidOne
<1>5. Legal(b, out)
  BY <1>2, <1>3, <1>4 DEF Legal
<1>6. MinimalPush(Proposal(id, b, current, out))
  <2> SUFFICES ASSUME NEW i \in D \ {id}
               PROVE  /\ out[i].span = current[i].span
                      /\ IF up THEN out[i].slot <= current[i].slot ELSE out[i].slot >= current[i].slot
                      /\ out[i].slot > current[i].slot => \E j \in D \ {i} : out[j].slot + out[j].span = out[i].slot
                      /\ out[i].slot < current[i].slot => \E j \in D \ {i} : out[j].slot = out[i].slot + out[i].span
    BY <1>2 DEF MinimalPush, Proposal
  <2> QED BY <1>3, <1>4
<1>7. ClosestFirst(Proposal(id, b, current, out))
  BY <1>2, <1>3, <1>4 DEF ClosestFirst, Proposal
<1> QED BY <1>1, <1>2, <1>5, <1>6, <1>7 DEF Pushed

\* No slot is free from the run p to the end of the day.
Tiled(b, p, out) ==
  p.slot .. (b.end - 1) = UNION {Run(out[j]) : j \in {k \in DOMAIN out : out[k].slot >= p.slot}}

\* The stack leaves none free under the grown block.
LEMMA PiledTiles ==
  ASSUME NEW b \in Bounds, NEW D \in SUBSET BlockId, NEW current \in [D -> Spot], NEW id \in D,
         NEW moved \in Spot, Grows(b, current, id, moved),
         NEW out \in [D -> Spot], out[id] = moved,
         \A i \in D \ (BelowOf(current, id, moved) \cup {id}) : out[i] = current[i],
         \A i \in D : out[i].span >= 1,
         Piled(b, current, id, moved, out)
  PROVE  Tiled(b, moved, out)
<1> DEFINE pile == BelowOf(current, id, moved) \cup {id}
           late == {k \in D : out[k].slot >= moved.slot}
<1>1. /\ moved.slot \in Int /\ moved.span \in Int /\ b.end \in Int /\ moved.span >= 1
      /\ moved.slot + moved.span <= b.end
      /\ \A i \in D : /\ current[i].slot \in Int /\ current[i].span \in Int /\ current[i].span >= 1
                      /\ out[i].slot \in Int /\ out[i].span \in Int /\ out[i].span >= 1
      /\ \A i \in D \ {id} : ~Overlaps(current[i], current[id])
      /\ current[id].slot = moved.slot
  BY DEF Spot, Bounds, Grows, Legal, Fits
<1>2. pile \in SUBSET D /\ id \in pile /\ \A i \in pile : i = id \/ i \in BelowOf(current, id, moved)
  BY DEF BelowOf
<1>3. \A i \in pile : out[i].slot >= moved.slot /\ out[i].slot + out[i].span <= b.end
  <2>1. \A i \in BelowOf(current, id, moved) :
          out[i].slot >= moved.slot + moved.span /\ out[i].slot + out[i].span <= b.end
    BY DEF Piled
  <2> QED BY <1>1, <1>2, <2>1
<1>4. \A i \in D \ pile : out[i] = current[i] /\ current[i].slot < moved.slot
  <2> SUFFICES ASSUME NEW i \in D \ pile PROVE out[i] = current[i] /\ current[i].slot < moved.slot
    OBVIOUS
  <2>1. i # id /\ out[i] = current[i] /\ ~(current[i].slot > moved.slot)
    BY DEF BelowOf
  <2>2. current[i].slot # moved.slot
    BY <1>1, <2>1 DEF Overlaps
  <2> QED BY <1>1, <2>1, <2>2
<1>5. late = pile
  <2>1. \A i \in D : i \notin pile => ~(out[i].slot >= moved.slot)
    BY <1>1, <1>4
  <2> HIDE DEF pile
  <2> QED BY <1>2, <1>3, <2>1
<1>6. \A i \in pile \ {id} : \E j \in pile : out[j].slot + out[j].span = out[i].slot
  BY <1>2 DEF Piled
<1>7. \E i \in pile : out[i].slot + out[i].span = b.end
  BY DEF Piled
<1> HIDE DEF pile, late
<1>8. ASSUME NEW s \in moved.slot .. (b.end - 1) PROVE \E j \in pile : s \in Run(out[j])
  <2> SUFFICES ASSUME \A j \in pile : s \notin Run(out[j]) PROVE FALSE
    OBVIOUS
  <2>1. s \in Int /\ moved.slot <= s /\ s < b.end
    BY <1>1
  <2>2. \A j \in pile : out[j].slot <= s => out[j].slot + out[j].span <= s
    BY <1>1, <1>2, <2>1 DEF Run
  <2> DEFINE after == {k \in pile : out[k].slot > s}
  <2>3. after # {}
    <3>1. PICK i \in pile : out[i].slot + out[i].span = b.end
      BY <1>7
    <3>2. i \in D /\ ~(out[i].slot <= s)
      BY <1>1, <1>2, <2>1, <2>2, <3>1
    <3> QED BY <1>1, <2>1, <3>2
  <2>4. after \in SUBSET D /\ IsFiniteSet(after) /\ id \notin after
    BY <1>1, <1>2, <2>1, IdAssumption, FS_Subset
  <2> DEFINE k == LastMet(out, TRUE, after)
  <2> HIDE DEF after
  <2>5. k \in after /\ \A j \in after : out[k].slot <= out[j].slot
    BY <2>3, <2>4, LastMetIs
  <2> HIDE DEF k
  <2>6. k \in pile \ {id} /\ k \in D /\ out[k].slot > s
    BY <1>2, <2>4, <2>5 DEF after
  <2>7. PICK j \in pile : out[j].slot + out[j].span = out[k].slot
    BY <1>6, <2>6
  <2>8. j \in D /\ out[j].slot < out[k].slot
    BY <1>1, <1>2, <2>6, <2>7
  <2>9. j \notin after
    BY <1>1, <2>5, <2>6, <2>8
  <2>10. out[j].slot <= s
    BY <1>1, <2>1, <2>8, <2>9 DEF after
  <2> QED BY <1>1, <2>1, <2>2, <2>6, <2>7, <2>8, <2>10
<1>9. ASSUME NEW j \in pile PROVE Run(out[j]) \subseteq moved.slot .. (b.end - 1)
  <2>1. j \in D /\ out[j].slot >= moved.slot /\ out[j].slot + out[j].span <= b.end
    BY <1>2, <1>3
  <2> QED BY <1>1, <2>1 DEF Run
<1>10. moved.slot .. (b.end - 1) = UNION {Run(out[j]) : j \in pile}
  BY <1>8, <1>9
<1>11. DOMAIN out = D
  OBVIOUS
<1> QED BY <1>5, <1>10, <1>11 DEF late, Tiled

LEMMA PiledIsPushed ==
  ASSUME NEW b \in Bounds, NEW D \in SUBSET BlockId, NEW current \in [D -> Spot], NEW id \in D,
         NEW moved \in Spot, Grows(b, current, id, moved), moved.span # current[id].span,
         NEW spans, NEW out,
         Compressed(current, BelowOf(current, id, moved), b.end - (moved.slot + moved.span), spans),
         StackedTight(current, id, moved, spans, out)
  PROVE  Pushed(b, current, id, out)
<1> DEFINE below == BelowOf(current, id, moved)
<1>1. below \in SUBSET D /\ id \notin below /\ DOMAIN current = D
  BY DEF BelowOf
<1>2. Piled(b, current, id, moved, out)
  BY StackPiles
<1>3. /\ out \in [D -> Spot] /\ out[id] = moved
      /\ \A i \in below : out[i].span = spans[i]
      /\ \A i \in D \ (below \cup {id}) : out[i] = current[i]
  BY DEF StackedTight
<1>4. /\ \A i \in below : spans[i] >= 1 /\ spans[i] <= current[i].span
      /\ \A i, j \in below : current[j].slot < current[i].slot /\ spans[i] < current[i].span => spans[j] = 1
  BY DEF Compressed
<1>5. /\ moved.slot \in Int /\ moved.span \in Int /\ b.end \in Int /\ b.start \in Int /\ moved.span >= 1
      /\ moved.slot = current[id].slot /\ b.start <= moved.slot /\ moved.slot + moved.span <= b.end
      /\ \A i \in D : /\ current[i].slot \in Int /\ current[i].span \in Int /\ current[i].span >= 1
                      /\ out[i].slot \in Int /\ out[i].span \in Int
                      /\ Fits(b, current[i])
      /\ \A i, j \in D : i # j => ~Overlaps(current[i], current[j])
  BY <1>3 DEF Spot, Bounds, Grows, Legal, Fits
<1>6. /\ \A i \in below : /\ out[i].slot >= current[i].slot /\ out[i].slot >= moved.slot + moved.span
                          /\ out[i].slot + out[i].span <= b.end
                          /\ \E j \in below \cup {id} : j # i /\ out[j].slot + out[j].span = out[i].slot
      /\ \A i, j \in below : i # j => ~Overlaps(out[i], out[j])
  BY <1>2 DEF Piled
<1>7. \A i \in D : i \notin below /\ i # id => current[i].slot + current[i].span <= moved.slot
  <2> SUFFICES ASSUME NEW i \in D, i \notin below, i # id
               PROVE  current[i].slot + current[i].span <= moved.slot
    OBVIOUS
  <2>1. ~(current[i].slot > moved.slot)
    BY DEF BelowOf
  <2>2. ~Overlaps(current[i], current[id])
    BY <1>5
  <2> QED BY <1>5, <2>1, <2>2 DEF Overlaps
<1> HIDE DEF below
<1>8. \A i \in D : i = id \/ i \in below \/ out[i] = current[i]
  BY <1>3
<1>9. \A i \in D : out[i].span >= 1
  BY <1>3, <1>4, <1>5, <1>8
<1>10. Legal(b, out)
  <2>1. \A i \in D : Fits(b, out[i])
    <3> SUFFICES ASSUME NEW i \in D PROVE Fits(b, out[i])
      OBVIOUS
    <3>1. CASE i = id
      BY <1>3, <1>5, <3>1 DEF Fits
    <3>2. CASE i \in below
      BY <1>5, <1>6, <3>2 DEF Fits
    <3>3. CASE out[i] = current[i]
      BY <1>5, <3>3
    <3> QED BY <1>8, <3>1, <3>2, <3>3
  <2>2. \A i \in D : i \notin below /\ i # id => out[i].slot + out[i].span <= moved.slot
    BY <1>7, <1>8
  <2>3. ASSUME NEW i \in D, NEW j \in D, i # j PROVE ~Overlaps(out[i], out[j])
    <3>1. CASE i \in below /\ j \in below
      BY <1>6, <2>3, <3>1
    <3>2. CASE i \notin below /\ i # id /\ j \notin below /\ j # id
      <4>1. out[i] = current[i] /\ out[j] = current[j]
        BY <1>8, <3>2
      <4> QED BY <1>5, <2>3, <4>1
    <3>3. CASE i = id /\ j \in below
      BY <1>3, <1>5, <1>6, <1>9, <3>3 DEF Overlaps
    <3>4. CASE j = id /\ i \in below
      BY <1>3, <1>5, <1>6, <1>9, <3>4 DEF Overlaps
    <3>5. CASE i \notin below /\ i # id /\ (j \in below \/ j = id)
      <4>1. out[j].slot >= moved.slot
        BY <1>3, <1>5, <1>6, <3>5
      <4>2. out[i].slot + out[i].span <= moved.slot
        BY <2>2, <3>5
      <4> QED BY <1>5, <1>9, <4>1, <4>2 DEF Overlaps
    <3>6. CASE j \notin below /\ j # id /\ (i \in below \/ i = id)
      <4>1. out[i].slot >= moved.slot
        BY <1>3, <1>5, <1>6, <3>6
      <4>2. out[j].slot + out[j].span <= moved.slot
        BY <2>2, <3>6
      <4> QED BY <1>5, <1>9, <4>1, <4>2 DEF Overlaps
    <3> QED BY <2>3, <3>1, <3>2, <3>3, <3>4, <3>5, <3>6
  <2> QED BY <1>3, <1>9, <2>1, <2>3 DEF Legal
<1>11. MinimalPush(Proposal(id, b, current, out))
  <2> SUFFICES ASSUME NEW i \in D \ {id}
               PROVE  /\ out[i].slot >= current[i].slot
                      /\ out[i].slot > current[i].slot => \E j \in D \ {i} : out[j].slot + out[j].span = out[i].slot
    BY <1>3, <1>5 DEF MinimalPush, Proposal
  <2>1. CASE i \in below
    BY <1>1, <1>6, <2>1
  <2>2. CASE out[i] = current[i]
    BY <1>5, <2>2
  <2> QED BY <1>8, <2>1, <2>2
<1>12. ClosestFirst(Proposal(id, b, current, out))
  <2> SUFFICES ASSUME NEW i \in D \ {id}, out[i].span < current[i].span
               PROVE  /\ \A j \in D \ {id, i} :
                           (current[id].slot < current[j].slot /\ current[j].slot < current[i].slot)
                             => out[j].span = 1
                      /\ out[id].slot .. (b.end - 1)
                           = UNION {Run(out[j]) : j \in {k \in D : out[k].slot >= out[id].slot}}
    BY <1>3 DEF ClosestFirst, Proposal
  <2>1. i \in below
    BY <1>5, <1>8
  <2>2. ASSUME NEW j \in D \ {id, i}, current[id].slot < current[j].slot, current[j].slot < current[i].slot
        PROVE  out[j].span = 1
    <3>1. j \in below
      BY <1>5, <2>2 DEF below, BelowOf
    <3>2. spans[i] < current[i].span
      BY <1>3, <2>1
    <3>3. spans[j] = 1
      BY <1>4, <2>1, <2>2, <3>1, <3>2
    <3> QED BY <1>3, <3>1, <3>3
  <2>3. Tiled(b, moved, out)
    <3>1. out \in [D -> Spot] /\ out[id] = moved
      BY <1>3
    <3>2. \A j \in D \ (BelowOf(current, id, moved) \cup {id}) : out[j] = current[j]
      BY <1>3 DEF below
    <3>3. out \in [D -> Spot]
      BY <3>1
    <3>4. out[id] = moved
      BY <3>1
    <3> QED BY <1>2, <1>9, <3>2, <3>3, <3>4, PiledTiles, Zenon
  <2>4. DOMAIN out = D
    BY <1>3
  <2> QED BY <1>3, <2>2, <2>3, <2>4 DEF Tiled
<1> QED BY <1>1, <1>3, <1>10, <1>11, <1>12 DEF Pushed

\* A block that keeps its size compresses nothing: those below it already fit.
LEMMA BelowFit ==
  ASSUME NEW b \in Bounds, NEW D \in SUBSET BlockId, NEW current \in [D -> Spot], Legal(b, current),
         NEW id \in D, NEW moved \in Spot, moved.slot = current[id].slot, moved.span = current[id].span
  PROVE  Total(Spans(current), BelowOf(current, id, moved)) <= b.end - (moved.slot + moved.span)
<1> DEFINE below == BelowOf(current, id, moved)
           from == moved.slot + moved.span
<1>1. below \in SUBSET D /\ id \notin below /\ \A i \in below : current[i].slot > moved.slot
  BY DEF BelowOf
<1>2. /\ \A i \in D : current[i].slot \in Int /\ current[i].span \in Int /\ current[i].span >= 1
      /\ moved.slot \in Int /\ moved.span \in Int
      /\ \A i \in D : i # id => ~Overlaps(current[i], current[id])
      /\ Fits(b, current[id]) /\ b.end \in Int
  BY DEF Spot, Legal, Bounds
<1> HIDE DEF below
<1>3. \A i \in below : current[i].slot >= from
  BY <1>1, <1>2 DEF Overlaps
<1>4. from \in Int /\ from <= b.end
  BY <1>2 DEF Fits
<1> HIDE DEF from
<1>5. Total(Spans(current), below) <= b.end - from
  BY <1>1, <1>3, <1>4, RunsFit
<1> QED BY <1>5 DEF below, from

\* Whatever the cascade accepts is legal, displaces no more than it must, and compresses
\* the closest blocks first.
LEMMA PushIsPushed ==
  ASSUME NEW b \in Bounds, NEW D \in SUBSET BlockId, NEW current \in [D -> Spot], Legal(b, current),
         NEW id \in D, NEW moved \in Spot, moved.span >= 1, NEW compress \in BOOLEAN,
         compress => moved.slot = current[id].slot,
         Push(b, current, id, moved, compress) # NoLayout
  PROVE  Pushed(b, current, id, Push(b, current, id, moved, compress))
<1> DEFINE out == Push(b, current, id, moved, compress)
           up == moved.slot > current[id].slot
           below == BelowOf(current, id, moved)
           available == b.end - (moved.slot + moved.span)
           spans == CompressBelow(current, below, available)
           packed == compress /\ ~up /\ Total(Spans(current), below) > available
<1>1. out = IF ~Fits(b, moved) THEN NoLayout
            ELSE IF packed
            THEN IF spans = NoLayout THEN NoLayout ELSE Stack(current, id, moved, spans)
            ELSE Sweep(b, current, id, moved, up)
  BY DEF Push, BelowOf
<1>2. Fits(b, moved)
  BY <1>1
<1>3. CASE packed
  <2>1. out = Stack(current, id, moved, spans) /\ spans # NoLayout
    BY <1>1, <1>2, <1>3
  <2>2. below \in SUBSET D
    BY DEF BelowOf
  <2>3. available \in Int /\ b.end \in Int
    BY DEF Bounds, Spot
  <2>4. Grows(b, current, id, moved)
    BY <1>2, <1>3 DEF Grows
  <2>5. moved.span # current[id].span
    <3> SUFFICES ASSUME moved.span = current[id].span PROVE FALSE
      OBVIOUS
    <3>1. Total(Spans(current), below) <= available
      BY <2>4, BelowFit DEF Grows
    <3>2. IsFiniteSet(below) /\ \A i \in below : Spans(current)[i] \in Int
      BY <2>2, IdAssumption, FS_Subset DEF Spans, Spot
    <3>3. Total(Spans(current), below) \in Int
      BY <3>2, TotalType
    <3> QED BY <1>3, <2>3, <3>1, <3>3
  <2>6. \A i \in D : current[i].span >= 1
    BY DEF Legal
  <2>7. Total(Spans(current), below) > available
    BY <1>3
  <2> HIDE DEF below, available
  <2>8. Compressed(current, below, available, spans)
    BY <2>1, <2>2, <2>3, <2>6, <2>7, CompressIs
  <2> HIDE DEF spans
  <2>9. spans \in [below -> Int]
    BY <2>8 DEF Compressed
  <2>10. StackedTight(current, id, moved, spans, out)
    BY <2>1, <2>9, StackIsTight DEF below
  <2>11. Pushed(b, current, id, out)
    <3> HIDE DEF out
    <3> QED BY <2>4, <2>5, <2>8, <2>10, PiledIsPushed DEF below, available
  <2> QED BY <2>11
<1>4. CASE ~packed
  <2>1. out = Sweep(b, current, id, moved, up) /\ up \in BOOLEAN
    BY <1>1, <1>2, <1>4
  <2> HIDE DEF up
  <2>2. Slid(b, current, id, moved, up, D \ {id}, out)
    BY <2>1, SweepIs
  <2> HIDE DEF out
  <2>3. Pushed(b, current, id, out)
    BY <1>2, <2>2, SlidIsPushed DEF up
  <2> QED BY <2>3 DEF out
<1> QED BY <1>3, <1>4

-----------------------------------------------------------------------------
(* When the cascade finds a place for every block.                         *)

BelowIn(current, below, i) == {j \in below : current[j].slot > current[i].slot}

\* The block j, in out, leaves what the blocks below it need.
LeavesRoom(b, current, below, out, j) ==
  IF j \in below
  THEN out[j].slot + out[j].span + Total(Spans(current), BelowIn(current, below, j)) <= b.end
  ELSE out[j].slot = current[j].slot /\ out[j].span = current[j].span

\* The sweep has cleared the blocks T below and above moved and there is room for the rest.
Roomy(b, current, id, moved, T, out) ==
  /\ out \in [T \cup {id} -> Spot] /\ out[id] = moved
  /\ \A j \in T : LeavesRoom(b, current, BelowOf(current, id, moved), out, j)

\* The blocks below fit under moved.
Room(b, current, id, moved) ==
  /\ Legal(b, current) /\ Fits(b, moved) /\ moved.slot = current[id].slot /\ moved.span >= 1
  /\ moved.slot + moved.span + Total(Spans(current), BelowOf(current, id, moved)) <= b.end

LEMMA BelowIsApart ==
  ASSUME NEW b \in Bounds, NEW D \in SUBSET BlockId, NEW current \in [D -> Spot], Legal(b, current),
         NEW i \in D, NEW j \in D, current[i].slot > current[j].slot
  PROVE  current[j].slot + current[j].span <= current[i].slot
<1>1. /\ current[i].slot \in Int /\ current[i].span \in Int /\ current[i].span >= 1
      /\ current[j].slot \in Int /\ current[j].span \in Int
      /\ ~Overlaps(current[i], current[j])
  BY DEF Spot, Legal
<1> QED BY <1>1 DEF Overlaps

\* A block and those below it are among the blocks below a higher one.
LEMMA TotalBelow ==
  ASSUME NEW S, IsFiniteSet(S), NEW span, \A i \in S : span[i] \in Int /\ span[i] >= 1,
         NEW R \in SUBSET S, NEW i \in S, i \notin R
  PROVE  Total(span, S) >= span[i] + Total(span, R)
<1>1. Total(span, S) = span[i] + Total(span, S \ {i})
  BY TotalSplit
<1>2. S \ {i} \in SUBSET S /\ IsFiniteSet(S \ {i}) /\ R \in SUBSET (S \ {i})
  BY FS_Subset
<1>3. Total(span, S \ {i}) >= Total(span, R) + Cardinality((S \ {i}) \ R)
  BY <1>2, TotalGrows
<1>4. Cardinality((S \ {i}) \ R) \in Nat
  BY <1>2, FS_Subset, FS_CardinalityType
<1>5. span[i] \in Int /\ Total(span, S \ {i}) \in Int /\ Total(span, R) \in Int
  BY <1>2, TotalType
<1> QED BY <1>1, <1>3, <1>4, <1>5

\* The block met next finds a place, at the latest flush with what those below it need.
LEMMA ClearedLeavesRoom ==
  ASSUME NEW b \in Bounds, NEW D \in SUBSET BlockId, NEW current \in [D -> Spot], NEW id \in D,
         NEW moved \in Spot, Room(b, current, id, moved),
         NEW T \in SUBSET (D \ {id}), NEW i \in T, \A j \in T : current[i].slot >= current[j].slot,
         NEW out, Roomy(b, current, id, moved, T \ {i}, out)
  PROVE  Roomy(b, current, id, moved, T, Cleared(b, current, FALSE, i, out))
<1> DEFINE E == (T \ {i}) \cup {id}
           below == BelowOf(current, id, moved)
           next == Cleared(b, current, FALSE, i, out)
           need(j) == Total(Spans(current), BelowIn(current, below, j))
<1>1. E \in SUBSET D /\ i \in D /\ i # id /\ E \cup {i} = T \cup {id} /\ i \notin E
  OBVIOUS
<1>2. out \in [E -> Spot] /\ out[id] = moved /\ \A j \in T \ {i} : LeavesRoom(b, current, below, out, j)
  BY DEF Roomy
<1>3. below \in SUBSET D /\ id \notin below /\ \A j \in below : current[j].slot > moved.slot
  BY DEF BelowOf
<1>4. IsFiniteSet(below)
  BY <1>3, IdAssumption, FS_Subset
<1>5. \A j \in D : /\ current[j].slot \in Int /\ current[j].span \in Int /\ current[j].span >= 1
                   /\ Spans(current)[j] = current[j].span
                   /\ b.start <= current[j].slot /\ current[j].slot + current[j].span <= b.end
  BY DEF Spot, Spans, Room, Legal, Fits
<1>6. b.start \in Int /\ b.end \in Int /\ moved.slot \in Int /\ moved.span \in Int
  BY DEF Bounds, Spot
<1>7. \A j \in D : need(j) \in Int /\ need(j) >= 0
  <2> SUFFICES ASSUME NEW j \in D PROVE need(j) \in Int /\ need(j) >= 0
    OBVIOUS
  <2> DEFINE B == BelowIn(current, below, j)
  <2>1. B \in SUBSET D /\ IsFiniteSet(B)
    BY <1>3, <1>4, FS_Subset DEF BelowIn
  <2> HIDE DEF B
  <2>2. \A k \in B : Spans(current)[k] \in Int /\ Spans(current)[k] >= 1
    BY <1>5, <2>1
  <2>3. {} \in SUBSET B /\ Total(Spans(current), {}) = 0 /\ Cardinality(B \ {}) \in Nat
    <3>1. B \ {} = B
      OBVIOUS
    <3>2. Total(Spans(current), {}) = 0
      BY <2>1, <2>2, TotalFold
    <3> QED BY <2>1, <3>1, <3>2, FS_CardinalityType
  <2>4. Total(Spans(current), B) \in Int
    BY <2>1, <2>2, TotalType
  <2>5. Total(Spans(current), B) >= Total(Spans(current), {}) + Cardinality(B \ {})
    BY <2>1, <2>2, <2>3, TotalGrows
  <2> QED BY <2>3, <2>4, <2>5 DEF B
<1> DEFINE room == b.end - current[i].span - need(i)
<1> HIDE DEF E, next, need, below
<1>8. room \in Int
  BY <1>1, <1>5, <1>6, <1>7
<1>9. ASSUME i \in below
      PROVE  /\ current[i].slot <= room
             /\ \A j \in E : out[j].slot + out[j].span <= room
  <2>1. current[i].slot + current[i].span + need(i) <= b.end
    <3> DEFINE from == current[i].slot + current[i].span
               B == BelowIn(current, below, i)
    <3>1. B \in SUBSET D /\ \A k \in B : current[k].slot > current[i].slot /\ k \in D
      BY <1>3 DEF BelowIn
    <3>2. Legal(b, current)
      BY DEF Room
    <3>3. \A k \in B : current[k].slot >= from
      BY <1>1, <3>1, <3>2, BelowIsApart
    <3>4. from \in Int /\ from <= b.end
      BY <1>1, <1>5
    <3> HIDE DEF from, B
    <3>5. Total(Spans(current), B) <= b.end - from
      BY <3>1, <3>2, <3>3, <3>4, RunsFit
    <3>6. need(i) <= b.end - from /\ need(i) \in Int
      BY <1>1, <1>7, <3>5 DEF B, need
    <3> QED BY <1>6, <3>4, <3>6 DEF from
  <2>2. current[i].slot <= room
    BY <1>1, <1>5, <1>6, <1>7, <2>1
  <2>3. out[id].slot + out[id].span <= room
    <3> DEFINE B == BelowIn(current, below, i)
    <3>1. B \in SUBSET below /\ i \notin B
      BY <1>1, <1>5 DEF BelowIn
    <3> HIDE DEF B
    <3>2. \A k \in below : Spans(current)[k] \in Int /\ Spans(current)[k] >= 1
      BY <1>3, <1>5
    <3>3. Total(Spans(current), below) >= Spans(current)[i] + Total(Spans(current), B)
      BY <1>4, <1>9, <3>1, <3>2, TotalBelow
    <3>4. Total(Spans(current), below) \in Int
      BY <1>4, <3>2, TotalType
    <3>5. Total(Spans(current), below) >= current[i].span + need(i)
      BY <1>1, <1>5, <3>3 DEF need, B
    <3>6. moved.slot + moved.span + Total(Spans(current), below) <= b.end
      BY DEF Room, below
    <3> QED BY <1>1, <1>2, <1>5, <1>6, <1>7, <3>4, <3>5, <3>6
  <2>4. ASSUME NEW j \in T \ {i} PROVE out[j].slot + out[j].span <= room
    <3>1. j \in D /\ j # i /\ current[j].slot <= current[i].slot /\ out[j] \in Spot
      BY <1>1, <1>2 DEF E
    <3>2. current[j].slot < current[i].slot
      <4>1. ~Overlaps(current[i], current[j])
        BY <1>1, <3>1 DEF Room, Legal
      <4> QED BY <1>1, <1>5, <3>1, <4>1 DEF Overlaps
    <3>3. out[j].slot \in Int /\ out[j].span \in Int
      BY <3>1 DEF Spot
    <3>4. LeavesRoom(b, current, below, out, j)
      BY <1>2
    <3>5. CASE j \in below
      <4> DEFINE B == BelowIn(current, below, i)
                 C == BelowIn(current, below, j)
      <4>1. B \in SUBSET C /\ i \notin B /\ i \in C /\ C \in SUBSET below
        BY <1>1, <1>3, <1>5, <1>9, <3>1, <3>2 DEF BelowIn
      <4> HIDE DEF B, C
      <4>2. IsFiniteSet(C) /\ \A k \in C : Spans(current)[k] \in Int /\ Spans(current)[k] >= 1
        BY <1>3, <1>4, <1>5, <4>1, FS_Subset
      <4>3. Total(Spans(current), C) >= Spans(current)[i] + Total(Spans(current), B)
        BY <4>1, <4>2, TotalBelow
      <4>4. need(j) >= current[i].span + need(i)
        BY <1>1, <1>5, <4>3 DEF need, B, C
      <4>5. out[j].slot + out[j].span + need(j) <= b.end
        BY <3>4, <3>5 DEF LeavesRoom, need
      <4>6. need(i) \in Int /\ need(j) \in Int
        BY <1>1, <1>7, <3>1
      <4> QED BY <1>1, <1>5, <1>6, <3>3, <4>4, <4>5, <4>6
    <3>6. CASE j \notin below
      <4>1. out[j].slot + out[j].span = current[j].slot + current[j].span
        BY <3>4, <3>6 DEF LeavesRoom
      <4>2. current[j].slot + current[j].span <= current[i].slot
        <5>1. Legal(b, current)
          BY DEF Room
        <5> QED BY <1>1, <1>5, <3>1, <3>2, <5>1, BelowIsApart
      <4> QED BY <1>1, <1>5, <1>8, <2>2, <3>1, <4>1, <4>2
    <3> QED BY <3>5, <3>6
  <2> QED BY <2>2, <2>3, <2>4 DEF E
<1> DEFINE places == Places(b, current[i], Range(out), FALSE)
<1>10. \A f \in Range(out) : \E j \in E : f = out[j]
  BY <1>2 DEF Range
<1>11. ASSUME NEW x \in Int, x >= current[i].slot, x + current[i].span <= b.end,
              \A j \in E : ~Overlaps([current[i] EXCEPT !.slot = x], out[j])
       PROVE  x \in places
  <2>1. x \in b.start .. (b.end - current[i].span)
    <3> DEFINE far == b.end - current[i].span
    <3>1. far \in Int /\ x <= far /\ b.start <= x
      BY <1>1, <1>5, <1>6, <1>11
    <3> HIDE DEF far
    <3>2. x \in b.start .. far
      BY <1>6, <3>1
    <3> QED BY <3>2 DEF far
  <2>2. \A f \in Range(out) : ~Overlaps([current[i] EXCEPT !.slot = x], f)
    BY <1>10, <1>11
  <2> QED BY <1>11, <2>1, <2>2 DEF Places
<1>12. CASE i \in below
  <2>1. room \in places
    <3>1. room >= current[i].slot /\ room + current[i].span <= b.end
      BY <1>1, <1>5, <1>6, <1>7, <1>9, <1>12
    <3>2. [current[i] EXCEPT !.slot = room].slot = room
      BY <1>1 DEF Spot
    <3> HIDE DEF room
    <3>3. \A j \in E : ~Overlaps([current[i] EXCEPT !.slot = room], out[j])
      <4> SUFFICES ASSUME NEW j \in E PROVE ~(room < out[j].slot + out[j].span)
        BY <3>2 DEF Overlaps
      <4>1. out[j].slot \in Int /\ out[j].span \in Int
        BY <1>2 DEF Spot
      <4> QED BY <1>8, <1>9, <1>12, <4>1
    <3> QED BY <1>8, <1>11, <3>1, <3>3
  <2>2. PutAmong(b, current, FALSE, i, E, out, next)
    <3>1. E \in SUBSET D
      BY <1>1
    <3>2. i \in D
      BY <1>1
    <3>3. out \in [E -> Spot]
      BY <1>2
    <3>4. places # {}
      BY <2>1
    <3>5. IF places = {} THEN next = NoLayout ELSE PutAmong(b, current, FALSE, i, E, out, next)
      BY <3>1, <3>2, <3>3, ClearedIs DEF next
    <3> QED BY <3>4, <3>5
  <2>3. /\ next \in [T \cup {id} -> Spot] /\ next[i].span = current[i].span
        /\ \A j \in E \ {i} : next[j] = out[j]
    BY <1>1, <2>2 DEF PutAmong
  <2>4. next[i].slot <= room
    <3>1. (current[i].slot <= next[i].slot /\ next[i].slot <= room)
            \/ (current[i].slot >= next[i].slot /\ next[i].slot >= room)
      BY <2>1, <2>2 DEF PutAmong, NearestPlace
    <3>2. next[i].slot \in Int /\ current[i].slot \in Int /\ current[i].slot <= room
      BY <1>1, <1>5, <1>9, <1>12, <2>3 DEF Spot
    <3> QED BY <1>8, <3>1, <3>2
  <2>5. next[i].slot + next[i].span + need(i) <= b.end
    <3>1. next[i].slot \in Int /\ current[i].span \in Int /\ need(i) \in Int
      BY <1>1, <1>5, <1>7, <2>3 DEF Spot
    <3> QED BY <1>6, <2>3, <2>4, <3>1
  <2>6. LeavesRoom(b, current, below, next, i)
    BY <1>12, <2>5 DEF LeavesRoom, need
  <2>7. \A j \in T \ {i} : LeavesRoom(b, current, below, next, j)
    BY <1>2, <2>3 DEF LeavesRoom, E
  <2>8. next[id] = moved
    BY <1>1, <1>2, <2>3 DEF E
  <2> QED BY <2>3, <2>6, <2>7, <2>8 DEF Roomy, below, next
<1>13. CASE i \notin below
  <2>1. current[i].slot <= moved.slot /\ moved.slot = current[id].slot
    BY <1>1, <1>5, <1>6, <1>13 DEF below, BelowOf, Room
  <2>2. \A j \in T : j \notin below
    BY <1>1, <1>3, <1>5, <1>6, <2>1
  <2>3. current[i].slot \in places
    <3> SUFFICES ASSUME NEW j \in E
                 PROVE  ~Overlaps([current[i] EXCEPT !.slot = current[i].slot], out[j])
      BY <1>1, <1>5, <1>11
    <3>1. [current[i] EXCEPT !.slot = current[i].slot] = current[i]
      BY <1>1 DEF Spot
    <3>2. CASE j = id
      <4>1. current[i].slot + current[i].span <= current[id].slot
        <5>1. ~Overlaps(current[i], current[id])
          BY <1>1 DEF Room, Legal
        <5> QED BY <1>1, <1>5, <2>1, <5>1 DEF Overlaps
      <4> QED BY <1>2, <1>5, <1>6, <2>1, <3>1, <3>2, <4>1, <1>1 DEF Overlaps
    <3>3. CASE j \in T \ {i}
      <4>1. out[j].slot = current[j].slot /\ out[j].span = current[j].span
        BY <1>2, <2>2, <3>3 DEF LeavesRoom
      <4>2. ~Overlaps(current[i], current[j])
        BY <1>1, <3>3 DEF Room, Legal
      <4> QED BY <3>1, <4>1, <4>2 DEF Overlaps
    <3> QED BY <3>2, <3>3 DEF E
  <2>4. PutAmong(b, current, FALSE, i, E, out, next)
    <3>1. E \in SUBSET D
      BY <1>1
    <3>2. i \in D
      BY <1>1
    <3>3. out \in [E -> Spot]
      BY <1>2
    <3>4. places # {}
      BY <2>3
    <3>5. IF places = {} THEN next = NoLayout ELSE PutAmong(b, current, FALSE, i, E, out, next)
      BY <3>1, <3>2, <3>3, ClearedIs DEF next
    <3> QED BY <3>4, <3>5
  <2>5. /\ next \in [T \cup {id} -> Spot] /\ next[i].span = current[i].span
        /\ \A j \in E \ {i} : next[j] = out[j]
    BY <1>1, <2>4 DEF PutAmong
  <2>6. next[i].slot = current[i].slot
    <3>1. (current[i].slot <= next[i].slot /\ next[i].slot <= current[i].slot)
            \/ (current[i].slot >= next[i].slot /\ next[i].slot >= current[i].slot)
      BY <2>3, <2>4 DEF PutAmong, NearestPlace
    <3>2. next[i].slot \in Int /\ current[i].slot \in Int
      BY <1>1, <1>5, <2>5 DEF Spot
    <3> QED BY <3>1, <3>2
  <2>7. LeavesRoom(b, current, below, next, i)
    BY <1>13, <2>5, <2>6 DEF LeavesRoom
  <2>8. \A j \in T \ {i} : LeavesRoom(b, current, below, next, j)
    BY <1>2, <2>5 DEF LeavesRoom, E
  <2>9. next[id] = moved
    BY <1>1, <1>2, <2>5 DEF E
  <2> QED BY <2>5, <2>7, <2>8, <2>9 DEF Roomy, below, next
<1> QED BY <1>12, <1>13

\* The sweep finds a place for every block when those below fit under moved.
LEMMA SweepHasRoom ==
  ASSUME NEW b \in Bounds, NEW D \in SUBSET BlockId, NEW current \in [D -> Spot], NEW id \in D,
         NEW moved \in Spot, Room(b, current, id, moved)
  PROVE  Sweep(b, current, id, moved, FALSE) # NoLayout
<1> DEFINE S == D \ {id}
<1>0. PICK g : SweptBy(g, b, current, id, moved, FALSE)
  BY SweepFold
<1>1. /\ Sweep(b, current, id, moved, FALSE) = g[S]
      /\ g[{}] = [i \in {id} |-> moved]
      /\ \A T \in SUBSET S : T # {} =>
           LET i == LastMet(current, FALSE, T) IN g[T] = Cleared(b, current, FALSE, i, g[T \ {i}])
  BY <1>0 DEF SweptBy
<1> DEFINE Bad == {T \in SUBSET S : ~Roomy(b, current, id, moved, T, g[T])}
<1>2. ASSUME Bad # {} PROVE FALSE
  <2>1. Bad \in SUBSET (SUBSET S) /\ IsFiniteSet(S)
    BY IdAssumption, FS_Subset
  <2> HIDE DEF Bad
  <2>2. PICK T \in Bad : \A U \in Bad : U \subseteq T => U = T
    BY <1>2, <2>1, LeastSet
  <2>3. T \in SUBSET S /\ ~Roomy(b, current, id, moved, T, g[T]) /\ IsFiniteSet(T)
    BY <2>1, <2>2, FS_Subset DEF Bad
  <2>4. T # {}
    <3>1. Roomy(b, current, id, moved, {}, [i \in {id} |-> moved])
      <4>1. {} \cup {id} = {id} /\ [i \in {id} |-> moved] \in [{id} -> Spot]
        OBVIOUS
      <4> QED BY <4>1 DEF Roomy
    <3> QED BY <1>1, <2>3, <3>1
  <2> DEFINE i == LastMet(current, FALSE, T)
  <2>5. /\ i \in T /\ \A j \in T : current[i].slot >= current[j].slot
        /\ g[T] = Cleared(b, current, FALSE, i, g[T \ {i}])
    <3>1. T \in SUBSET D /\ FALSE \in BOOLEAN
      BY <2>3
    <3>2. i \in T /\ \A j \in T : current[i].slot >= current[j].slot
      BY <2>3, <2>4, <3>1, LastMetIs
    <3> QED BY <1>1, <2>3, <2>4, <3>2
  <2> HIDE DEF i
  <2>6. T \ {i} \in SUBSET S /\ T \ {i} \notin Bad
    BY <2>2, <2>3, <2>5
  <2>7. Roomy(b, current, id, moved, T \ {i}, g[T \ {i}])
    BY <2>6 DEF Bad
  <2>8. T \in SUBSET (D \ {id})
    BY <2>3
  <2>9. i \in T
    BY <2>5
  <2>10. \A j \in T : current[i].slot >= current[j].slot
    BY <2>5
  <2>11. Roomy(b, current, id, moved, T, Cleared(b, current, FALSE, i, g[T \ {i}]))
    BY <2>7, <2>8, <2>9, <2>10, ClearedLeavesRoom
  <2> QED BY <2>3, <2>5, <2>11
<1>3. g[S] \in [D -> Spot]
  <2>1. Roomy(b, current, id, moved, S, g[S]) /\ S \cup {id} = D
    BY <1>2
  <2> QED BY <2>1 DEF Roomy
<1> QED BY <1>1, <1>3, LayoutIsNotNone

\* A block may grow to the slots that leave one for each block below.
Growable(b, current, id, n) ==
  /\ current[id].slot + n <= b.end
  /\ Cardinality(BelowOf(current, id, current[id])) <= b.end - (current[id].slot + n)

LEMMA ResizeAccepted ==
  ASSUME NEW b \in Bounds, NEW D \in SUBSET BlockId, NEW current \in [D -> Spot], Legal(b, current),
         NEW id \in D, NEW n \in Int, n >= 1
  PROVE  IF Growable(b, current, id, n) THEN Push(b, current, id, Resized(current, id, n), TRUE) # NoLayout
         ELSE Push(b, current, id, Resized(current, id, n), TRUE) = NoLayout
<1> DEFINE moved == Resized(current, id, n)
           out == Push(b, current, id, moved, TRUE)
           below == BelowOf(current, id, moved)
           available == b.end - (moved.slot + moved.span)
           spans == CompressBelow(current, below, available)
           packed == Total(Spans(current), below) > available
<1>1. /\ current[id].slot \in Int /\ current[id].span \in Int /\ current[id].slot >= b.start
      /\ moved \in Spot /\ moved.slot = current[id].slot /\ moved.span = n
  BY DEF Resized, Spot, Legal, Fits
<1>2. below = BelowOf(current, id, current[id]) /\ below \in SUBSET D
  BY <1>1 DEF BelowOf
<1>3. IsFiniteSet(below) /\ Cardinality(below) \in Nat
  BY <1>2, IdAssumption, FS_Subset, FS_CardinalityType
<1>4. \A j \in D : /\ current[j].slot \in Int /\ current[j].span \in Int /\ current[j].span >= 1
                   /\ Spans(current)[j] = current[j].span
  BY DEF Spot, Spans, Legal
<1>5. b.end \in Int /\ b.start \in Int /\ available \in Int /\ available = b.end - (current[id].slot + n)
  BY <1>1 DEF Bounds
<1>6. Total(Spans(current), below) \in Int
  <2>1. \A j \in below : Spans(current)[j] \in Int
    BY <1>2, <1>4
  <2> QED BY <1>3, <2>1, TotalType
<1>7. Fits(b, moved) <=> current[id].slot + n <= b.end
  BY <1>1 DEF Fits
<1>8. Growable(b, current, id, n) <=> (Fits(b, moved) /\ Cardinality(below) <= available)
  BY <1>2, <1>5, <1>7 DEF Growable
<1>9. out = IF ~Fits(b, moved) THEN NoLayout
            ELSE IF packed
            THEN IF spans = NoLayout THEN NoLayout ELSE Stack(current, id, moved, spans)
            ELSE Sweep(b, current, id, moved, FALSE)
  <2>1. (moved.slot > current[id].slot) = FALSE
    BY <1>1
  <2> QED BY <2>1 DEF Push, BelowOf
<1>10. CASE ~Fits(b, moved)
  BY <1>8, <1>9, <1>10
<1>11. CASE Fits(b, moved) /\ packed
  <2>1. out = IF spans = NoLayout THEN NoLayout ELSE Stack(current, id, moved, spans)
    BY <1>9, <1>11
  <2> HIDE DEF below, available, moved
  <2>2. IF Cardinality(below) > available THEN spans = NoLayout
        ELSE Compressed(current, below, available, spans) /\ spans # NoLayout
    BY <1>2, <1>4, <1>5, <1>11, CompressIs
  <2>3. CASE Cardinality(below) > available
    <3>1. ~Growable(b, current, id, n)
      BY <1>3, <1>5, <1>8, <2>3
    <3>2. out = NoLayout
      BY <2>1, <2>2, <2>3
    <3> QED BY <3>1, <3>2 DEF moved
  <2>4. CASE ~(Cardinality(below) > available)
    <3>1. out = Stack(current, id, moved, spans) /\ spans \in [below -> Int]
      BY <2>1, <2>2, <2>4 DEF Compressed
    <3> HIDE DEF spans
    <3>2. StackedTight(current, id, moved, spans, Stack(current, id, moved, spans))
      BY <1>1, <3>1, StackIsTight DEF below
    <3>3. Stack(current, id, moved, spans) \in [D -> Spot]
      BY <3>2 DEF StackedTight
    <3>4. out # NoLayout
      BY <3>1, <3>3, LayoutIsNotNone
    <3>5. Growable(b, current, id, n)
      BY <1>3, <1>5, <1>8, <1>11, <2>4
    <3> QED BY <3>4, <3>5 DEF moved
  <2> QED BY <2>3, <2>4
<1>12. CASE Fits(b, moved) /\ ~packed
  <2>1. out = Sweep(b, current, id, moved, FALSE)
    BY <1>9, <1>12
  <2>2. moved.slot + moved.span + Total(Spans(current), below) <= b.end
    BY <1>1, <1>5, <1>6, <1>12
  <2>3. Cardinality(below) <= Total(Spans(current), below)
    <3>1. \A j \in below : Spans(current)[j] \in Int /\ Spans(current)[j] >= 1
      BY <1>2, <1>4
    <3>2. {} \in SUBSET below /\ below \ {} = below /\ Total(Spans(current), {}) = 0
      BY <1>3, <3>1, TotalFold
    <3>3. Total(Spans(current), below) >= Total(Spans(current), {}) + Cardinality(below \ {})
      BY <1>3, <3>1, <3>2, TotalGrows
    <3> QED BY <1>3, <1>6, <3>2, <3>3
  <2>4. Room(b, current, id, moved)
    BY <1>1, <1>12, <2>2 DEF Room
  <2>5. out # NoLayout
    BY <1>1, <2>1, <2>4, SweepHasRoom
  <2>6. Cardinality(below) <= available
    BY <1>3, <1>5, <1>6, <1>12, <2>3
  <2> QED BY <1>8, <1>12, <2>5, <2>6
<1> QED BY <1>10, <1>11, <1>12

-----------------------------------------------------------------------------
(* The cascade's types, whatever layout it is given.                       *)

LEMMA SweepType ==
  ASSUME NEW b \in Bounds, NEW D \in SUBSET BlockId, NEW current \in [D -> Spot],
         NEW up \in BOOLEAN, NEW id \in D, NEW moved \in Spot
  PROVE  Sweep(b, current, id, moved, up) \in [D -> Spot] \cup {NoLayout}
<1> DEFINE S == D \ {id}
<1>1. PICK g : SweptBy(g, b, current, id, moved, up)
  BY SweepFold
<1>2. /\ Sweep(b, current, id, moved, up) = g[S]
      /\ g[{}] = [i \in {id} |-> moved]
      /\ \A T \in SUBSET S : T # {} =>
           LET i == LastMet(current, up, T) IN g[T] = Cleared(b, current, up, i, g[T \ {i}])
  BY <1>1 DEF SweptBy
<1> DEFINE Typed(T) == g[T] = NoLayout \/ g[T] \in [T \cup {id} -> Spot]
           Bad == {T \in SUBSET S : ~Typed(T)}
<1>3. ASSUME Bad # {} PROVE FALSE
  <2>1. Bad \in SUBSET (SUBSET S) /\ IsFiniteSet(S)
    BY IdAssumption, FS_Subset
  <2> HIDE DEF Bad
  <2>2. PICK T \in Bad : \A U \in Bad : U \subseteq T => U = T
    BY <1>3, <2>1, LeastSet
  <2>3. T \in SUBSET S /\ T \in SUBSET D /\ IsFiniteSet(T) /\ ~Typed(T)
    BY <2>1, <2>2, FS_Subset DEF Bad
  <2>4. T # {}
    <3>1. g[{}] \in [{id} -> Spot] /\ {} \cup {id} = {id}
      BY <1>2
    <3>2. ASSUME T = {} PROVE g[T] \in [T \cup {id} -> Spot]
      BY <3>1, <3>2
    <3> QED BY <2>3, <3>2
  <2> DEFINE i == LastMet(current, up, T)
  <2>5. i \in T
    BY <2>3, <2>4, LastMetIs
  <2>6. g[T] = Cleared(b, current, up, i, g[T \ {i}])
    BY <1>2, <2>3, <2>4
  <2> HIDE DEF i
  <2>7. T \ {i} \in SUBSET S /\ T \ {i} \notin Bad
    BY <2>2, <2>3, <2>5
  <2>8. Typed(T \ {i})
    BY <2>7 DEF Bad
  <2>9. CASE g[T \ {i}] = NoLayout
    BY <2>3, <2>6, <2>9 DEF Cleared
  <2>10. CASE g[T \ {i}] \in [(T \ {i}) \cup {id} -> Spot]
    <3> DEFINE E == (T \ {i}) \cup {id}
               out == g[T \ {i}]
    <3>1. E \in SUBSET D /\ i \in D /\ E \cup {i} = T \cup {id}
      BY <2>3, <2>5
    <3>2. out \in [E -> Spot]
      BY <2>10
    <3>3. i \in D /\ E \in SUBSET D
      BY <3>1
    <3> HIDE DEF E, out
    <3>4. \/ Cleared(b, current, up, i, out) = NoLayout
          \/ Cleared(b, current, up, i, out) \in [E \cup {i} -> Spot]
      <4>1. i \in D
        BY <3>3
      <4>2. E \in SUBSET D
        BY <3>3
      <4>3. \/ Cleared(b, current, up, i, out) = NoLayout
            \/ PutAmong(b, current, up, i, E, out, Cleared(b, current, up, i, out))
        BY <3>2, <4>1, <4>2, ClearedIs
      <4> QED BY <4>3 DEF PutAmong
    <3> QED BY <2>3, <2>6, <3>1, <3>4 DEF out
  <2> QED BY <2>8, <2>9, <2>10
<1>4. Typed(S)
  BY <1>3
<1>5. S \cup {id} = D
  OBVIOUS
<1> QED BY <1>2, <1>4, <1>5

LEMMA TakeOutType ==
  ASSUME NEW D \in SUBSET BlockId, NEW current \in [D -> Spot], NEW below \in SUBSET D,
         NEW deficit \in Int
  PROVE  TakeOut(current, below, deficit, 1, FALSE) \in [below -> Int] \cup {NoLayout}
<1>1. PICK g : TakenBy(g, current, below, deficit)
  BY TakeFold
<1> DEFINE Typed(T) == g[T].deficit \in Int /\ g[T].span \in [D -> Int]
           Bad == {T \in SUBSET below : ~Typed(T)}
<1>2. ASSUME Bad # {} PROVE FALSE
  <2>1. Bad \in SUBSET (SUBSET below) /\ IsFiniteSet(below)
    BY IdAssumption, FS_Subset
  <2> HIDE DEF Bad
  <2>2. PICK T \in Bad : \A U \in Bad : U \subseteq T => U = T
    BY <1>2, <2>1, LeastSet
  <2>3. T \in SUBSET below /\ T \in SUBSET D /\ IsFiniteSet(T) /\ ~Typed(T)
    BY <2>1, <2>2, FS_Subset DEF Bad
  <2>4. T # {}
    <3>1. Spans(current) \in [D -> Int]
      BY DEF Spans, Spot
    <3> QED BY <1>1, <2>3, <3>1 DEF TakenBy
  <2> DEFINE i == LastMet(current, FALSE, T)
  <2>5. i \in T
    BY <2>3, <2>4, LastMetIs
  <2>6. g[T] = Give(current, i, g[T \ {i}])
    BY <1>1, <2>3, <2>4 DEF TakenBy
  <2> HIDE DEF i
  <2>7. T \ {i} \in SUBSET below /\ T \ {i} \notin Bad
    BY <2>2, <2>3, <2>5
  <2>8. Typed(T \ {i})
    BY <2>7 DEF Bad
  <2> DEFINE acc == g[T \ {i}]
             give == Lesser(current[i].span - 1, acc.deficit)
  <2>9. current[i].span \in Int /\ acc.deficit \in Int /\ acc.span \in [D -> Int]
    BY <2>3, <2>5, <2>8 DEF Spot
  <2>10. give \in Int
    BY <2>9 DEF Lesser
  <2>11. /\ g[T].deficit = acc.deficit - give
         /\ g[T].span = [acc.span EXCEPT ![i] = current[i].span - give]
    BY <2>6 DEF Give
  <2> HIDE DEF acc, give
  <2>12. acc.deficit - give \in Int /\ current[i].span - give \in Int
    BY <2>9, <2>10
  <2>13. [acc.span EXCEPT ![i] = current[i].span - give] \in [D -> Int]
    BY <2>9, <2>12
  <2>14. Typed(T)
    BY <2>11, <2>12, <2>13
  <2> QED BY <2>3, <2>14
<1>3. Typed(below)
  BY <1>2
<1>4. Restrict(g[below].span, below) \in [below -> Int]
  BY <1>3 DEF Restrict
<1> QED BY <1>1, <1>4 DEF TakenBy

LEMMA PushType ==
  ASSUME NEW b \in Bounds, NEW D \in SUBSET BlockId, NEW current \in [D -> Spot],
         NEW id \in D, NEW moved \in Spot, NEW compress \in BOOLEAN
  PROVE  Push(b, current, id, moved, compress) \in [D -> Spot] \cup {NoLayout}
<1> DEFINE below == BelowOf(current, id, moved)
           available == b.end - (moved.slot + moved.span)
           spans == CompressBelow(current, below, available)
           up == moved.slot > current[id].slot
           out == Push(b, current, id, moved, compress)
<1>1. \/ out = NoLayout
      \/ spans # NoLayout /\ out = Stack(current, id, moved, spans)
      \/ out = Sweep(b, current, id, moved, up)
  BY DEF Push, BelowOf
<1> HIDE DEF out
<1>2. below \in SUBSET D
  BY DEF BelowOf
<1>3. Total(Spans(current), below) - available \in Int
  <2>1. IsFiniteSet(below) /\ \A i \in below : Spans(current)[i] \in Int
    BY <1>2, IdAssumption, FS_Subset DEF Spans, Spot
  <2>2. Total(Spans(current), below) \in Int /\ available \in Int
    BY <2>1, TotalType DEF Bounds, Spot
  <2> QED BY <2>2
<1>4. spans \in [below -> Int] \cup {NoLayout}
  <2> HIDE DEF below, available
  <2> QED BY <1>2, <1>3, TakeOutType DEF CompressBelow
<1> HIDE DEF spans
<1>5. spans # NoLayout => Stack(current, id, moved, spans) \in [D -> Spot]
  <2> SUFFICES ASSUME spans # NoLayout PROVE Stack(current, id, moved, spans) \in [D -> Spot]
    OBVIOUS
  <2>1. spans \in [BelowOf(current, id, moved) -> Int]
    BY <1>4
  <2>2. StackedTight(current, id, moved, spans, Stack(current, id, moved, spans))
    BY <2>1, StackIsTight
  <2> QED BY <2>2 DEF StackedTight
<1>6. up \in BOOLEAN
  OBVIOUS
<1> HIDE DEF up
<1>7. Sweep(b, current, id, moved, up) \in [D -> Spot] \cup {NoLayout}
  BY <1>6, SweepType
<1> QED BY <1>1, <1>5, <1>7 DEF out

-----------------------------------------------------------------------------
(* The tab's types.                                                        *)

Columns == [day : Bounds, layout : Layouts]

PointerGestures ==
  [id : BlockId, mode : {"drag", "resize"}, phase : {"held", "settling"}, day : Bounds,
   current : Layouts, layout : Layouts, at : Int]

Requests == [kind : {"delete"}, id : BlockId] \cup [kind : {"layout"}, layout : Layouts]

KeyTyped(g) == g # None => g \in KeyGestures /\ g.id \in DOMAIN g.start

PointerTyped ==
  pointer # None => pointer \in PointerGestures /\ pointer.id \in DOMAIN pointer.current

TabTypes ==
  /\ dom \in Columns /\ KeyTyped(grab) /\ KeyTyped(kresize) /\ PointerTyped
  /\ outbox \in Seq(Requests) /\ inbox \in Seq(Columns)

LEMMA LayoutIs ==
  ASSUME NEW l \in Layouts
  PROVE  /\ DOMAIN l \in SUBSET BlockId /\ l \in [DOMAIN l -> Spot] /\ IsFiniteSet(DOMAIN l)
         /\ \A i \in DOMAIN l : l[i] \in Spot /\ l[i].slot \in Int /\ l[i].span \in Int
<1>1. PICK D \in SUBSET BlockId : l \in [D -> Spot]
  BY DEF Layouts
<1>2. DOMAIN l = D
  BY <1>1
<1> QED BY <1>1, <1>2, IdAssumption, FS_Subset DEF Spot

LEMMA WriteIs ==
  ASSUME NEW layout \in Layouts, NEW shown \in Layouts
  PROVE  /\ Write(layout, shown) \in [DOMAIN shown -> Spot] /\ Write(layout, shown) \in Layouts
         /\ DOMAIN Write(layout, shown) = DOMAIN shown
         /\ \A i \in DOMAIN shown : Write(layout, shown)[i] = IF i \in DOMAIN layout THEN layout[i] ELSE shown[i]
<1>1. /\ \A i \in DOMAIN shown : shown[i] \in Spot
      /\ \A i \in DOMAIN layout : layout[i] \in Spot
      /\ DOMAIN shown \in SUBSET BlockId
  BY LayoutIs
<1>2. Write(layout, shown) \in [DOMAIN shown -> Spot]
  BY <1>1 DEF Write
<1> QED BY <1>1, <1>2 DEF Write, Layouts

\* A layout in the order of some column names each of its blocks once.
LEMMA ListingIs ==
  ASSUME NEW layout \in Layouts
  PROVE  IsListing(Listing(layout))
<1> DEFINE D == DOMAIN layout
           n == Cardinality(D)
           order == CHOOSE q \in [1..n -> D] : Range(q) = D
<1>1. IsFiniteSet(D) /\ D \in SUBSET BlockId
  BY LayoutIs
<1>2. n \in Nat /\ ExistsBijection(1..n, D)
  BY <1>1, FS_CardinalityType
<1>3. \E q \in [1..n -> D] : Range(q) = D
  <2>1. PICK q \in Bijection(1..n, D) : TRUE
    BY <1>2 DEF ExistsBijection
  <2>2. q \in [1..n -> D] /\ \A i \in D : \E k \in 1..n : q[k] = i
    BY <2>1 DEF Bijection, Injection, Surjection
  <2> QED BY <2>2 DEF Range
<1>4. order \in [1..n -> D]
  BY <1>3
<1>5. Listing(layout) = [k \in 1..n |-> [id |-> order[k], slot |-> layout[order[k]].slot,
                                         span |-> layout[order[k]].span]]
  BY DEF Listing
<1> HIDE DEF order, n
<1>6. \A k \in 1..n : /\ order[k] \in D /\ order[k] \in BlockId
                      /\ layout[order[k]].slot \in Int /\ layout[order[k]].span \in Int
  BY <1>1, <1>4, LayoutIs
<1>7. IsFiniteSet(1..n)
  BY <1>2, FS_Interval
<1>8. /\ DOMAIN Listing(layout) = 1..n
      /\ \A k \in 1..n : /\ Listing(layout)[k].id \in BlockId /\ Listing(layout)[k].slot \in Int
                         /\ Listing(layout)[k].span \in Int
  BY <1>5, <1>6
<1> QED BY <1>7, <1>8 DEF IsListing

LEMMA ColumnIs ==
  PlanInv => /\ Column \in Columns /\ Column.day = bounds[me] /\ DOMAIN Column.layout = Ids(me)
             /\ Legal(bounds[me], Column.layout)
<1> SUFFICES ASSUME PlanInv
             PROVE  /\ Column \in Columns /\ Column.day = bounds[me] /\ DOMAIN Column.layout = Ids(me)
                    /\ Legal(bounds[me], Column.layout)
  OBVIOUS
<1> DEFINE l == [i \in Ids(me) |-> [slot |-> block[i].position, span |-> block[i].span]]
<1>1. me \in Owner /\ bounds[me] \in Bounds /\ Ids(me) \in SUBSET BlockId
  BY GestureAssumption DEF PlanInv, TypeOK, Ids
<1>2. \A i \in Ids(me) : block[i] \in Row /\ block[i].position \in Int /\ block[i].span \in Int
  BY DEF PlanInv, TypeOK, Ids, Row
<1>3. /\ \A i \in Ids(me) : Inside(block[i], bounds[me])
      /\ \A i, j \in Ids(me) : i # j => Apart(block[i], block[j])
  BY <1>1 DEF PlanInv, AllInside, AllApart
<1>4. l \in [Ids(me) -> Spot]
  BY <1>2 DEF Spot
<1>5. l \in Layouts
  BY <1>1, <1>4 DEF Layouts
<1>6. \A i \in Ids(me) : l[i].slot = block[i].position /\ l[i].span = block[i].span
  OBVIOUS
<1>7. Column = [day |-> bounds[me], layout |-> l]
  BY DEF Column
<1> HIDE DEF l
<1>8. Legal(bounds[me], l)
  <2>1. \A i \in Ids(me) : l[i].span >= 1 /\ Fits(bounds[me], l[i])
    BY <1>2, <1>3, <1>6 DEF Inside, Fits
  <2>2. \A i, j \in Ids(me) : i # j => ~Overlaps(l[i], l[j])
    BY <1>2, <1>3, <1>6 DEF Apart, Overlaps
  <2>3. DOMAIN l = Ids(me)
    BY <1>4
  <2> QED BY <2>1, <2>2, <2>3 DEF Legal
<1> QED BY <1>1, <1>4, <1>5, <1>7, <1>8 DEF Columns

LEMMA GInitPlanInv == GInit => PlanInv
<1> SUFFICES ASSUME GInit PROVE PlanInv
  OBVIOUS
<1>1. PICK day \in FirstDay : bounds = [o \in Owner |-> day]
  BY DEF GInit
<1>2. PICK ids \in SUBSET BlockId :
        \E placed \in [ids -> [slot : MinDayStart .. (MaxDayEnd - 1), span : 1 .. (MaxDayEnd - MinDayStart)]] :
          StoredPlan(ids, placed)
  BY DEF GInit
<1>3. PICK placed \in [ids -> [slot : MinDayStart .. (MaxDayEnd - 1), span : 1 .. (MaxDayEnd - MinDayStart)]] :
        StoredPlan(ids, placed)
  BY <1>2
<1>4. /\ MinDayStart \in Int /\ MaxDayEnd \in Int /\ me \in Owner
      /\ day \in [start : MinDayStart .. MaxDayEnd, end : MinDayStart .. MaxDayEnd] /\ day.start < day.end
  BY LimitsAssumption, GestureAssumption
<1>5. day \in Bounds /\ Valid(day)
  BY <1>4 DEF Bounds, Valid
<1>6. bounds \in [Owner -> Bounds] /\ \A o \in Owner : bounds[o] = day
  BY <1>1, <1>5
<1>7. \A i \in ids : placed[i].slot \in Int /\ placed[i].span \in Int /\ placed[i].span >= 1
  <2> SUFFICES ASSUME NEW i \in ids PROVE placed[i].slot \in Int /\ placed[i].span \in Int /\ placed[i].span >= 1
    OBVIOUS
  <2>1. /\ placed[i].slot \in MinDayStart .. (MaxDayEnd - 1)
        /\ placed[i].span \in 1 .. (MaxDayEnd - MinDayStart)
    OBVIOUS
  <2> QED BY <1>4, <2>1
<1> DEFINE row(i) == [owner |-> me, label |-> CHOOSE l \in Label : TRUE,
                      position |-> placed[i].slot, span |-> placed[i].span, type |-> Shallow]
<1>8. /\ block = [i \in BlockId |-> IF i \in ids THEN row(i) ELSE NoRow]
      /\ \A i \in ids : Fits(bounds[me], placed[i])
      /\ \A i, j \in ids : i # j => ~Overlaps(placed[i], placed[j])
  BY <1>3 DEF StoredPlan
<1>9. \A i \in ids : row(i) \in Row
  <2>1. (CHOOSE l \in Label : TRUE) \in Label /\ Shallow \in BlockType
    BY GestureAssumption, LabelTypeAssumption
  <2> QED BY <1>4, <1>7, <2>1 DEF Row
<1>10. \A i \in ids : row(i).owner = me /\ row(i).position = placed[i].slot /\ row(i).span = placed[i].span
  OBVIOUS
<1> HIDE DEF row
<1>11. \A i \in ids : /\ block[i] = row(i) /\ block[i] \in Row /\ block[i].owner = me
                      /\ block[i].position = placed[i].slot /\ block[i].span = placed[i].span
  BY <1>2, <1>8, <1>9, <1>10
<1>12. \A o \in Owner : \A i \in Ids(o) : i \in ids /\ o = me
  BY <1>8, <1>10, <1>11 DEF Ids
<1>13. TypeOK
  <2>1. \A i \in BlockId : block[i] \in Row \cup {NoRow}
    BY <1>8, <1>11
  <2>2. block \in [BlockId -> Row \cup {NoRow}]
    BY <1>8, <2>1
  <2> QED BY <1>6, <2>2 DEF TypeOK
<1>14. AllApart
  <2> SUFFICES ASSUME NEW o \in Owner, NEW i \in Ids(o), NEW j \in Ids(o), i # j PROVE Apart(block[i], block[j])
    BY DEF AllApart
  <2>1. i \in ids /\ j \in ids
    BY <1>12
  <2>2. ~Overlaps(placed[i], placed[j])
    BY <1>8, <2>1
  <2>3. /\ block[i].position = placed[i].slot /\ block[i].span = placed[i].span
        /\ block[j].position = placed[j].slot /\ block[j].span = placed[j].span
    BY <1>11, <2>1
  <2>4. /\ placed[i].slot \in Int /\ placed[i].span \in Int
        /\ placed[j].slot \in Int /\ placed[j].span \in Int
    BY <1>7, <2>1
  <2> QED BY <2>2, <2>3, <2>4 DEF Overlaps, Apart
<1>15. AllInside
  <2> SUFFICES ASSUME NEW o \in Owner, NEW i \in Ids(o) PROVE Inside(block[i], bounds[o])
    BY DEF AllInside
  <2>1. i \in ids /\ o = me
    BY <1>12
  <2> QED BY <1>7, <1>8, <1>11, <2>1 DEF Fits, Inside
<1>16. DaysLegal
  BY <1>5, <1>6 DEF DaysLegal
<1> QED BY <1>13, <1>14, <1>15, <1>16 DEF PlanInv

\* What the handler of a request does to the plan.
LEMMA HandlerKeepsPlan ==
  ASSUME PlanInv, NEW r \in Requests, Handles(r)
  PROVE  PlanInv' /\ bounds' = bounds /\ Ids(me)' \subseteq Ids(me)
<1>1. me \in Owner
  BY GestureAssumption
<1>2. CASE UNCHANGED vars
  <2>1. PlanInv'
    BY <1>2, NextPlanInv
  <2> QED BY <1>2, <2>1 DEF vars, Ids
<1>3. CASE r.kind = "delete" /\ Delete(me, r.id)
  <2>1. r.id \in BlockId
    BY <1>3 DEF Delete, Ids
  <2>2. Next
    BY <1>1, <1>3, <2>1 DEF Next, Mutation
  <2>3. PlanInv'
    BY <2>2, NextPlanInv
  <2>4. bounds' = bounds /\ block' = [block EXCEPT ![r.id] = NoRow] /\ block \in [BlockId -> Row \cup {NoRow}]
    BY <1>3 DEF Delete, PlanInv, TypeOK
  <2>5. Ids(me)' \subseteq Ids(me)
    BY <2>4 DEF Ids
  <2> QED BY <2>3, <2>4, <2>5
<1>4. CASE r.kind # "delete" /\ SetLayout(me, Listing(r.layout))
  <2>1. r.layout \in Layouts
    BY <1>4 DEF Requests
  <2> DEFINE listing == Listing(r.layout)
  <2>2. IsListing(listing)
    BY <2>1, ListingIs
  <2>3. SetLayout(me, listing)
    BY <1>4
  <2> HIDE DEF listing
  <2>4. PlanInv'
    BY <1>1, <2>2, <2>3, SetLayoutPlanInv
  <2>5. bounds' = bounds /\ \A i \in BlockId \ Ids(me) : block'[i] = block[i]
    BY <2>3, Zenon DEF SetLayout, Placed
  <2>6. Ids(me)' \subseteq Ids(me)
    BY <2>5 DEF Ids
  <2> QED BY <2>4, <2>5, <2>6
<1> QED BY <1>2, <1>3, <1>4 DEF Handles

-----------------------------------------------------------------------------
(* What a step of a gesture proposes.                                      *)

\* l is what a gesture from the layout start may come to propose for its block id.
Proposes(b, start, id, l) ==
  l \in Layouts /\ DOMAIN l = DOMAIN start /\ (Legal(b, start) => Pushed(b, start, id, l))

LEMMA MoveProposes ==
  ASSUME NEW b \in Bounds, NEW start \in Layouts, NEW id \in DOMAIN start, NEW n \in Int,
         NEW l, l = Push(b, start, id, Moved(start, id, n), FALSE), l # NoLayout
  PROVE  Proposes(b, start, id, l)
<1> DEFINE D == DOMAIN start
           moved == Moved(start, id, n)
<1>1. D \in SUBSET BlockId /\ start \in [D -> Spot] /\ start[id] \in Spot
  BY LayoutIs
<1>2. moved \in Spot /\ moved.span = start[id].span
  BY <1>1 DEF Moved, Spot
<1>3. D \in SUBSET BlockId /\ id \in D /\ FALSE \in BOOLEAN
  BY <1>1
<1>4. start \in [D -> Spot] /\ l = Push(b, start, id, moved, FALSE)
  BY <1>1
<1> HIDE DEF D, moved
<1>5. l \in [D -> Spot]
  <2>1. Push(b, start, id, moved, FALSE) \in [D -> Spot] \cup {NoLayout}
    <3>1. D \in SUBSET BlockId /\ start \in [D -> Spot]
      BY <1>1
    <3> QED BY <3>1, <1>2, <1>3, PushType
  <2> QED BY <1>4, <2>1
<1>6. ASSUME Legal(b, start) PROVE Pushed(b, start, id, l)
  <2>1. moved.span >= 1
    BY <1>1, <1>2, <1>3, <1>6 DEF Legal
  <2>2. D \in SUBSET BlockId
    BY <1>1
  <2>3. start \in [D -> Spot]
    BY <1>1
  <2>4. id \in D
    BY <1>3
  <2>5. Push(b, start, id, moved, FALSE) # NoLayout
    BY <1>4
  <2> QED BY <1>2, <1>3, <1>4, <1>6, <2>1, <2>2, <2>3, <2>4, <2>5, PushIsPushed
<1>7. DOMAIN l = D /\ l \in Layouts
  BY <1>1, <1>5 DEF Layouts
<1> QED BY <1>6, <1>7 DEF Proposes, D

LEMMA ResizeProposes ==
  ASSUME NEW b \in Bounds, NEW start \in Layouts, NEW id \in DOMAIN start, NEW n \in Int, n >= 1,
         NEW l, l = Push(b, start, id, Resized(start, id, n), TRUE), l # NoLayout
  PROVE  Proposes(b, start, id, l)
<1> DEFINE D == DOMAIN start
           moved == Resized(start, id, n)
<1>1. D \in SUBSET BlockId /\ start \in [D -> Spot] /\ start[id] \in Spot
  BY LayoutIs
<1>2. moved \in Spot /\ moved.span = n /\ moved.slot = start[id].slot
  BY <1>1 DEF Resized, Spot
<1>3. D \in SUBSET BlockId /\ id \in D /\ TRUE \in BOOLEAN
  BY <1>1
<1>4. start \in [D -> Spot] /\ l = Push(b, start, id, moved, TRUE)
  BY <1>1
<1> HIDE DEF D, moved
<1>5. l \in [D -> Spot]
  <2>1. Push(b, start, id, moved, TRUE) \in [D -> Spot] \cup {NoLayout}
    <3>1. D \in SUBSET BlockId /\ start \in [D -> Spot]
      BY <1>1
    <3> QED BY <3>1, <1>2, <1>3, PushType
  <2> QED BY <1>4, <2>1
<1>6. ASSUME Legal(b, start) PROVE Pushed(b, start, id, l)
  <2>1. moved.span >= 1
    BY <1>2
  <2>2. D \in SUBSET BlockId
    BY <1>1
  <2>3. start \in [D -> Spot]
    BY <1>1
  <2>4. id \in D
    BY <1>3
  <2>5. Push(b, start, id, moved, TRUE) # NoLayout
    BY <1>4
  <2> QED BY <1>2, <1>3, <1>4, <1>6, <2>1, <2>2, <2>3, <2>4, <2>5, PushIsPushed
<1>7. DOMAIN l = D /\ l \in Layouts
  BY <1>1, <1>5 DEF Layouts
<1> QED BY <1>6, <1>7 DEF Proposes, D

\* The layout the column shows, for a gesture that begins.
LEMMA BeginProposes ==
  ASSUME NEW b \in Bounds, NEW start \in Layouts, NEW id \in DOMAIN start
  PROVE  Proposes(b, start, id, start)
<1>1. DOMAIN start \in SUBSET BlockId /\ start \in [DOMAIN start -> Spot]
  BY LayoutIs
<1>2. Legal(b, start) => Pushed(b, start, id, start)
  BY <1>1, UnchangedIsPushed
<1> QED BY <1>2 DEF Proposes

\* A keyboard gesture that begins on block i, and one that proposes l.
Begun(i, at) == [id |-> i, day |-> dom.day, start |-> dom.layout, layout |-> dom.layout, at |-> at]
Stepped(g, n, l) == [g EXCEPT !.at = n, !.layout = l]

\* The column shows the proposal l.
Shows(l) == dom' = [dom EXCEPT !.layout = Write(l, dom.layout)]

LEMMA KeyMoveIs ==
  ASSUME TabTypes, NEW step \in {-1, 1}, KeyMove(step)
  PROVE  /\ grab # None /\ pointer = None
         /\ \E n \in Int, l \in Layouts :
              Proposes(grab.day, grab.start, grab.id, l) /\ grab' = Stepped(grab, n, l) /\ Shows(l)
         /\ UNCHANGED <<block, bounds, kresize, pointer, outbox, inbox, foreign, crossed, unanswered>>
<1> DEFINE g == grab
           targets == MoveTargets(g.day, g.start, g.id, g.at, step)
           slot == Nearest(g.at, targets)
           layout == Push(g.day, g.start, g.id, Moved(g.start, g.id, slot), FALSE)
<1>1. /\ g # None /\ pointer = None /\ targets # {}
      /\ grab' = [g EXCEPT !.at = slot, !.layout = layout]
      /\ dom' = [dom EXCEPT !.layout = Write(layout, @)]
      /\ UNCHANGED <<block, bounds, kresize, pointer, outbox, inbox, foreign, crossed, unanswered>>
  BY DEF KeyMove, KeysReach
<1>2. /\ g \in KeyGestures /\ g.id \in DOMAIN g.start /\ g.day \in Bounds /\ g.start \in Layouts
      /\ g.at \in Int
  BY <1>1 DEF TabTypes, KeyTyped, KeyGestures
<1>3. /\ g.day.start \in Int /\ g.day.end \in Int /\ g.start[g.id].span \in Int
  BY <1>2, LayoutIs DEF Bounds
<1>4. targets \subseteq Int /\ ((\A x \in targets : x <= g.at) \/ (\A x \in targets : x >= g.at))
  <2> DEFINE far == g.day.end - g.start[g.id].span
  <2>1. far \in Int
    BY <1>3
  <2> HIDE DEF far
  <2>2. \A x \in targets : x \in g.day.start .. far /\ IF step > 0 THEN x > g.at ELSE x < g.at
    BY DEF MoveTargets, far
  <2> HIDE DEF targets
  <2>3. \A x \in targets : x \in Int
    BY <1>3, <2>1, <2>2
  <2>4. CASE step > 0
    BY <1>2, <2>2, <2>3, <2>4
  <2>5. CASE ~(step > 0)
    BY <1>2, <2>2, <2>3, <2>5
  <2> QED BY <2>4, <2>5
<1>5. slot \in targets
  <2> HIDE DEF targets
  <2> QED BY <1>1, <1>2, <1>4, NearestIs
<1>6. slot \in Int /\ layout # NoLayout
  <2>1. layout # NoLayout
    BY <1>5 DEF MoveTargets
  <2> QED BY <1>4, <1>5, <2>1
<1> HIDE DEF slot, targets
<1>7. Proposes(g.day, g.start, g.id, layout)
  BY <1>2, <1>6, MoveProposes
<1> HIDE DEF layout
<1>8. layout \in Layouts
  BY <1>7 DEF Proposes
<1> QED BY <1>1, <1>6, <1>7, <1>8 DEF Stepped, Shows

LEMMA MaxResizeSpanIs ==
  ASSUME NEW b \in Bounds, NEW l \in Layouts, NEW id \in DOMAIN l
  PROVE  MaxResizeSpan(b, l, id) \in Int
<1> DEFINE spans == {n \in 2 .. (b.end - l[id].slot) :
                       Push(b, l, id, Resized(l, id, n), TRUE) # NoLayout}
<1>1. b.end \in Int /\ l[id].slot \in Int
  BY LayoutIs DEF Bounds
<1>2. spans \subseteq Int /\ \A n \in spans : n <= b.end - l[id].slot
  <2> DEFINE far == b.end - l[id].slot
  <2>1. far \in Int
    BY <1>1
  <2> HIDE DEF far
  <2>2. \A n \in spans : n \in 2 .. far
    BY DEF far
  <2> HIDE DEF spans
  <2> QED BY <2>1, <2>2 DEF far
<1>3. MaxResizeSpan(b, l, id) = IF spans = {} THEN 1 ELSE CHOOSE n \in spans : \A m \in spans : n >= m
  BY DEF MaxResizeSpan
<1> HIDE DEF spans
<1>4. spans # {} => \E n \in spans : \A m \in spans : n >= m
  <2> SUFFICES ASSUME spans # {} PROVE \E n \in spans : \A m \in spans : n >= m
    OBVIOUS
  <2>1. b.end - l[id].slot \in Int
    BY <1>1
  <2> QED BY <1>2, <2>1, GreatestInt
<1>5. spans # {} => (CHOOSE n \in spans : \A m \in spans : n >= m) \in spans
  BY <1>4
<1>6. CASE spans = {}
  BY <1>3, <1>6
<1>7. CASE spans # {}
  BY <1>2, <1>3, <1>5, <1>7
<1> QED BY <1>6, <1>7

LEMMA KeyResizeIs ==
  ASSUME TabTypes, NEW i \in BlockId, NEW key \in {"ArrowDown", "ArrowUp", "Home", "End"},
         KeyResize(i, key)
  PROVE  /\ pointer = None /\ ~Present(grab) /\ i \in DOMAIN dom.layout
         /\ \E r \in KeyGestures :
              /\ r = (IF kresize # None THEN kresize ELSE Begun(i, dom.layout[i].span))
              /\ r.id \in DOMAIN r.start
              /\ \/ kresize' = r /\ UNCHANGED dom
                 \/ \E n \in Int, l \in Layouts :
                      Proposes(r.day, r.start, r.id, l) /\ kresize' = Stepped(r, n, l) /\ Shows(l)
         /\ UNCHANGED <<block, bounds, grab, pointer, outbox, inbox, foreign, crossed, unanswered>>
<1> DEFINE r == IF kresize # None THEN kresize ELSE Begun(i, dom.layout[i].span)
           span == CASE key = "ArrowDown" -> r.at + 1
                     [] key = "ArrowUp"   -> r.at - 1
                     [] key = "Home"      -> 1
                     [] key = "End"       -> MaxResizeSpan(r.day, r.start, r.id)
           layout == IF span < 1 THEN NoLayout
                     ELSE Push(r.day, r.start, r.id, Resized(r.start, r.id, span), TRUE)
<1>1. /\ pointer = None /\ ~Present(grab) /\ i \in DOMAIN dom.layout
      /\ IF layout = NoLayout
         THEN kresize' = r /\ UNCHANGED dom
         ELSE /\ kresize' = [r EXCEPT !.at = span, !.layout = layout]
              /\ dom' = [dom EXCEPT !.layout = Write(layout, @)]
      /\ UNCHANGED <<block, bounds, grab, pointer, outbox, inbox, foreign, crossed, unanswered>>
  BY DEF KeyResize, KeysReach, Begun
<1>2. r \in KeyGestures /\ r.id \in DOMAIN r.start
  <2>1. CASE kresize # None
    BY <2>1 DEF TabTypes, KeyTyped
  <2>2. CASE kresize = None
    <3>1. dom.day \in Bounds /\ dom.layout \in Layouts
      BY DEF TabTypes, Columns
    <3>2. dom.layout[i].span \in Int
      BY <1>1, <3>1, LayoutIs
    <3>3. r = Begun(i, dom.layout[i].span)
      BY <2>2
    <3> HIDE DEF r
    <3> QED BY <1>1, <3>1, <3>2, <3>3 DEF Begun, KeyGestures
  <2> QED BY <2>1, <2>2
<1> HIDE DEF r
<1>3. r.day \in Bounds /\ r.start \in Layouts /\ r.at \in Int
  BY <1>2 DEF KeyGestures
<1>4. span \in Int
  <2>1. MaxResizeSpan(r.day, r.start, r.id) \in Int
    BY <1>2, <1>3, MaxResizeSpanIs
  <2> QED BY <1>3, <2>1
<1> HIDE DEF span
<1>5. ASSUME layout # NoLayout PROVE Proposes(r.day, r.start, r.id, layout)
  <2>1. ~(span < 1)
    BY <1>5
  <2>2. span >= 1
    BY <1>4, <2>1
  <2>3. layout = Push(r.day, r.start, r.id, Resized(r.start, r.id, span), TRUE)
    BY <2>1
  <2> HIDE DEF layout
  <2> QED BY <1>2, <1>3, <1>4, <1>5, <2>2, <2>3, ResizeProposes
<1> HIDE DEF layout
<1>6. layout # NoLayout => layout \in Layouts
  BY <1>5 DEF Proposes
<1> QED BY <1>1, <1>2, <1>4, <1>5, <1>6 DEF Stepped, Shows, r

LEMMA PreviewIs ==
  ASSUME TabTypes, NEW n \in MinDayStart .. MaxDayEnd, Preview(n)
  PROVE  /\ pointer # None /\ pointer \in PointerGestures /\ n \in Int
         /\ \E l \in Layouts : /\ Proposes(pointer.day, pointer.current, pointer.id, l)
                               /\ pointer' = [pointer EXCEPT !.at = n, !.layout = l]
         /\ UNCHANGED <<block, bounds, dom, grab, kresize, outbox, inbox, foreign, crossed, unanswered>>
<1> DEFINE p == pointer
           drag == p.mode = "drag"
           target == IF drag THEN Moved(p.current, p.id, n) ELSE Resized(p.current, p.id, n)
           layout == Push(p.day, p.current, p.id, target, ~drag)
<1>1. /\ p # None /\ layout # NoLayout
      /\ IF drag THEN n \in p.day.start .. (p.day.end - p.current[p.id].span)
                 ELSE n \in 1 .. (p.day.end - p.current[p.id].slot)
      /\ pointer' = [p EXCEPT !.at = n, !.layout = layout]
      /\ UNCHANGED <<block, bounds, dom, grab, kresize, outbox, inbox, foreign, crossed, unanswered>>
  BY DEF Preview
<1>2. /\ p \in PointerGestures /\ p.id \in DOMAIN p.current
      /\ p.day \in Bounds /\ p.current \in Layouts
  BY <1>1 DEF TabTypes, PointerTyped, PointerGestures
<1>3. n \in Int
  BY LimitsAssumption
<1>4. Proposes(p.day, p.current, p.id, layout)
  <2>1. CASE drag
    <3>1. layout = Push(p.day, p.current, p.id, Moved(p.current, p.id, n), FALSE)
      BY <2>1
    <3> HIDE DEF layout, drag, target
    <3> QED BY <1>1, <1>2, <1>3, <3>1, MoveProposes
  <2>2. CASE ~drag
    <3>1. layout = Push(p.day, p.current, p.id, Resized(p.current, p.id, n), TRUE)
      BY <2>2
    <3>2. n \in 1 .. (p.day.end - p.current[p.id].slot)
      BY <1>1, <2>2
    <3>3. p.day.end \in Int /\ p.current[p.id].slot \in Int
      BY <1>2, LayoutIs DEF Bounds
    <3>4. n >= 1
      BY <3>2, <3>3
    <3> HIDE DEF layout, drag, target
    <3> QED BY <1>1, <1>2, <1>3, <3>1, <3>4, ResizeProposes
  <2> QED BY <2>1, <2>2
<1> HIDE DEF layout, drag, target
<1>5. layout \in Layouts
  BY <1>4 DEF Proposes
<1> QED BY <1>1, <1>2, <1>3, <1>4, <1>5

LEMMA CommitIs ==
  ASSUME dom \in Columns, outbox \in Seq(Requests), NEW id, NEW from \in Layouts, NEW to \in Layouts,
         NEW shown \in Layouts, Commit(id, from, to, shown)
  PROVE  /\ dom' \in Columns /\ outbox' \in Seq(Requests)
         /\ dom'.day = dom.day /\ DOMAIN dom'.layout = DOMAIN shown
         /\ IF from = to \/ id \notin DOMAIN shown
            THEN dom'.layout = shown /\ outbox' = outbox
            ELSE dom'.layout = Write(to, shown) /\ outbox' # << >>
<1>1. CASE from = to \/ id \notin DOMAIN shown
  BY <1>1 DEF Commit, Columns
<1>2. CASE ~(from = to \/ id \notin DOMAIN shown)
  <2>1. /\ dom' = [dom EXCEPT !.layout = Write(to, shown)]
        /\ outbox' = Append(outbox, [kind |-> "layout", layout |-> to])
    BY <1>2 DEF Commit
  <2>2. Write(to, shown) \in Layouts /\ DOMAIN Write(to, shown) = DOMAIN shown
    BY WriteIs
  <2>3. dom' \in Columns /\ dom'.day = dom.day /\ dom'.layout = Write(to, shown)
    BY <2>1, <2>2 DEF Columns
  <2>4. [kind |-> "layout", layout |-> to] \in Requests
    BY DEF Requests
  <2>5. outbox' \in Seq(Requests) /\ outbox' # << >>
    BY <2>1, <2>4
  <2> QED BY <1>2, <2>2, <2>3, <2>5
<1> QED BY <1>1, <1>2

LEMMA AfterKeyCancelIs ==
  ASSUME TabTypes
  PROVE  AfterKeyCancel \in Layouts /\ DOMAIN AfterKeyCancel = DOMAIN dom.layout
<1> DEFINE afterGrab == IF grab = None THEN dom.layout ELSE Write(grab.start, dom.layout)
<1>1. /\ dom.layout \in Layouts
      /\ grab # None => grab.start \in Layouts
      /\ kresize # None => kresize.start \in Layouts
  BY DEF TabTypes, Columns, KeyTyped, KeyGestures
<1>2. afterGrab \in Layouts /\ DOMAIN afterGrab = DOMAIN dom.layout
  BY <1>1, WriteIs
<1>3. AfterKeyCancel = IF kresize = None THEN afterGrab ELSE Write(kresize.start, afterGrab)
  BY DEF AfterKeyCancel
<1> HIDE DEF afterGrab
<1> QED BY <1>1, <1>2, <1>3, WriteIs

\* A layout cut down to the blocks the column shows.
LEMMA ShowsIs ==
  ASSUME dom \in Columns, NEW l \in Layouts, Shows(l)
  PROVE  /\ dom' \in Columns /\ dom'.day = dom.day /\ dom'.layout = Write(l, dom.layout)
         /\ DOMAIN dom'.layout = DOMAIN dom.layout
<1>1. dom.layout \in Layouts
  BY DEF Columns
<1>2. Write(l, dom.layout) \in Layouts /\ DOMAIN Write(l, dom.layout) = DOMAIN dom.layout
  BY <1>1, WriteIs
<1> QED BY <1>2 DEF Shows, Columns

LEMMA SteppedIs ==
  ASSUME NEW g \in KeyGestures, NEW n \in Int, NEW l \in Layouts
  PROVE  /\ Stepped(g, n, l) \in KeyGestures /\ Stepped(g, n, l) # None
         /\ Stepped(g, n, l).id = g.id /\ Stepped(g, n, l).day = g.day
         /\ Stepped(g, n, l).start = g.start /\ Stepped(g, n, l).layout = l
<1>1. Stepped(g, n, l) \in KeyGestures
  BY DEF Stepped, KeyGestures
<1>2. Stepped(g, n, l) # None
  BY <1>1, MarkerAssumption
<1> QED BY <1>1, <1>2 DEF Stepped, KeyGestures

LEMMA BegunIs ==
  ASSUME dom \in Columns, NEW i \in DOMAIN dom.layout, NEW n \in Int
  PROVE  /\ Begun(i, n) \in KeyGestures /\ Begun(i, n) # None
         /\ Begun(i, n).id = i /\ Begun(i, n).day = dom.day
         /\ Begun(i, n).start = dom.layout /\ Begun(i, n).layout = dom.layout
<1>1. dom.layout \in Layouts /\ dom.day \in Bounds /\ i \in BlockId
  BY LayoutIs DEF Columns
<1>2. Begun(i, n) \in KeyGestures
  BY <1>1 DEF Begun, KeyGestures
<1>3. Begun(i, n) # None
  BY <1>2, MarkerAssumption
<1> QED BY <1>2, <1>3 DEF Begun

-----------------------------------------------------------------------------
(* Every step keeps the types.                                             *)

GTypes == PlanInv /\ TabTypes

LEMMA PlanRests ==
  ASSUME PlanInv, UNCHANGED <<block, bounds>>
  PROVE  PlanInv'
BY NextPlanInv DEF vars

LEMMA GInitTypes == GInit => GTypes
<1> SUFFICES ASSUME GInit PROVE GTypes
  OBVIOUS
<1>1. PlanInv
  BY GInitPlanInv
<1>2. dom \in Columns
  BY <1>1, ColumnIs DEF GInit
<1>3. outbox \in Seq(Requests) /\ inbox \in Seq(Columns)
  BY DEF GInit
<1> QED BY <1>1, <1>2, <1>3 DEF GInit, GTypes, TabTypes, KeyTyped, PointerTyped

LEMMA KeyStepKeepsTypes ==
  ASSUME GTypes, KeyStep
  PROVE  GTypes'
<1>1. PlanInv /\ TabTypes /\ dom \in Columns /\ dom.layout \in Layouts /\ dom.day \in Bounds
  BY DEF GTypes, TabTypes, Columns
<1>2. ASSUME NEW i \in BlockId, KeyGrab(i) PROVE GTypes'
  <2>1. /\ i \in DOMAIN dom.layout
        /\ grab' = Begun(i, dom.layout[i].slot)
        /\ UNCHANGED <<block, bounds, dom, kresize, pointer, outbox, inbox>>
    BY <1>2 DEF KeyGrab, Begun
  <2>2. dom.layout[i].slot \in Int
    BY <1>1, <2>1, LayoutIs
  <2>3. grab' \in KeyGestures /\ grab'.id \in DOMAIN grab'.start
    BY <1>1, <2>1, <2>2, BegunIs
  <2> QED BY <1>1, <2>1, <2>3, PlanRests DEF GTypes, TabTypes, KeyTyped, PointerTyped
<1>3. ASSUME NEW i \in BlockId, KeyDelete(i) PROVE GTypes'
  <2>1. /\ outbox' = Append(outbox, [kind |-> "delete", id |-> i])
        /\ UNCHANGED <<block, bounds, dom, grab, kresize, pointer, inbox>>
    BY <1>3 DEF KeyDelete, tab
  <2>2. [kind |-> "delete", id |-> i] \in Requests
    BY DEF Requests
  <2>3. outbox' \in Seq(Requests)
    BY <1>1, <2>1, <2>2 DEF TabTypes
  <2> QED BY <1>1, <2>1, <2>3, PlanRests DEF GTypes, TabTypes, KeyTyped, PointerTyped
<1>4. ASSUME NEW step \in {-1, 1}, KeyMove(step) PROVE GTypes'
  <2>1. /\ grab # None /\ UNCHANGED <<block, bounds, kresize, pointer, outbox, inbox>>
        /\ \E n \in Int, l \in Layouts : grab' = Stepped(grab, n, l) /\ Shows(l)
    BY <1>1, <1>4, KeyMoveIs
  <2>2. PICK n \in Int, l \in Layouts : grab' = Stepped(grab, n, l) /\ Shows(l)
    BY <2>1
  <2>3. grab \in KeyGestures /\ grab.id \in DOMAIN grab.start
    BY <1>1, <2>1 DEF TabTypes, KeyTyped
  <2>4. grab' \in KeyGestures /\ grab'.id \in DOMAIN grab'.start
    BY <2>2, <2>3, SteppedIs
  <2>5. dom' \in Columns
    BY <1>1, <2>2, ShowsIs
  <2> QED BY <1>1, <2>1, <2>4, <2>5, PlanRests DEF GTypes, TabTypes, KeyTyped, PointerTyped
<1>5. ASSUME NEW i \in BlockId, NEW key \in {"ArrowDown", "ArrowUp", "Home", "End"}, KeyResize(i, key)
      PROVE  GTypes'
  <2>1. UNCHANGED <<block, bounds, grab, pointer, outbox, inbox>>
    BY <1>1, <1>5, KeyResizeIs
  <2>2. PICK r \in KeyGestures :
          /\ r.id \in DOMAIN r.start
          /\ \/ kresize' = r /\ UNCHANGED dom
             \/ \E n \in Int, l \in Layouts : kresize' = Stepped(r, n, l) /\ Shows(l)
    BY <1>1, <1>5, KeyResizeIs
  <2>3. kresize' \in KeyGestures /\ kresize'.id \in DOMAIN kresize'.start /\ dom' \in Columns
    <3>1. CASE kresize' = r /\ UNCHANGED dom
      BY <1>1, <2>2, <3>1
    <3>2. ASSUME NEW n \in Int, NEW l \in Layouts, kresize' = Stepped(r, n, l), Shows(l)
          PROVE  kresize' \in KeyGestures /\ kresize'.id \in DOMAIN kresize'.start /\ dom' \in Columns
      <4>1. dom' \in Columns
        BY <1>1, <3>2, ShowsIs
      <4> QED BY <2>2, <3>2, <4>1, SteppedIs
    <3> QED BY <2>2, <3>1, <3>2
  <2> QED BY <1>1, <2>1, <2>3, PlanRests DEF GTypes, TabTypes, KeyTyped, PointerTyped
<1>6. ASSUME KeyDrop PROVE GTypes'
  <2>1. /\ grab # None /\ Commit(grab.id, grab.start, grab.layout, dom.layout) /\ grab' = None
        /\ UNCHANGED <<block, bounds, kresize, pointer, inbox>>
    BY <1>6 DEF KeyDrop
  <2>2. grab.start \in Layouts /\ grab.layout \in Layouts
    BY <1>1, <2>1 DEF TabTypes, KeyTyped, KeyGestures
  <2>3. outbox \in Seq(Requests)
    BY <1>1 DEF TabTypes
  <2>4. dom' \in Columns /\ outbox' \in Seq(Requests)
    BY <1>1, <2>1, <2>2, <2>3, CommitIs
  <2> QED BY <1>1, <2>1, <2>4, PlanRests DEF GTypes, TabTypes, KeyTyped, PointerTyped
<1>7. ASSUME KeyCancel PROVE GTypes'
  <2>1. /\ grab # None /\ Shows(grab.start) /\ grab' = None
        /\ UNCHANGED <<block, bounds, kresize, pointer, outbox, inbox>>
    BY <1>7 DEF KeyCancel, Shows
  <2>2. grab.start \in Layouts
    BY <1>1, <2>1 DEF TabTypes, KeyTyped, KeyGestures
  <2>3. dom' \in Columns
    BY <1>1, <2>1, <2>2, ShowsIs
  <2> QED BY <1>1, <2>1, <2>3, PlanRests DEF GTypes, TabTypes, KeyTyped, PointerTyped
<1>8. ASSUME KeyResizeCommit PROVE GTypes'
  <2>1. /\ kresize # None /\ Commit(kresize.id, kresize.start, kresize.layout, dom.layout) /\ kresize' = None
        /\ UNCHANGED <<block, bounds, grab, pointer, inbox>>
    BY <1>8 DEF KeyResizeCommit
  <2>2. kresize.start \in Layouts /\ kresize.layout \in Layouts
    BY <1>1, <2>1 DEF TabTypes, KeyTyped, KeyGestures
  <2>3. outbox \in Seq(Requests)
    BY <1>1 DEF TabTypes
  <2>4. dom' \in Columns /\ outbox' \in Seq(Requests)
    BY <1>1, <2>1, <2>2, <2>3, CommitIs
  <2> QED BY <1>1, <2>1, <2>4, PlanRests DEF GTypes, TabTypes, KeyTyped, PointerTyped
<1>9. ASSUME KeyResizeCancel PROVE GTypes'
  <2>1. /\ kresize # None /\ Shows(kresize.start) /\ kresize' = None
        /\ UNCHANGED <<block, bounds, grab, pointer, outbox, inbox>>
    BY <1>9 DEF KeyResizeCancel, Shows
  <2>2. kresize.start \in Layouts
    BY <1>1, <2>1 DEF TabTypes, KeyTyped, KeyGestures
  <2>3. dom' \in Columns
    BY <1>1, <2>1, <2>2, ShowsIs
  <2> QED BY <1>1, <2>1, <2>3, PlanRests DEF GTypes, TabTypes, KeyTyped, PointerTyped
<1> QED BY <1>2, <1>3, <1>4, <1>5, <1>6, <1>7, <1>8, <1>9 DEF KeyStep

\* A pointer gesture that begins on block i of the layout l.
Held(i, mode, l) ==
  [id |-> i, mode |-> mode, phase |-> "held", day |-> dom.day, current |-> l, layout |-> l,
   at |-> IF mode = "drag" THEN l[i].slot ELSE l[i].span]

LEMMA HeldIs ==
  ASSUME dom \in Columns, NEW l \in Layouts, NEW i \in DOMAIN l, NEW mode \in {"drag", "resize"}
  PROVE  /\ Held(i, mode, l) \in PointerGestures
         /\ Held(i, mode, l).id = i /\ Held(i, mode, l).day = dom.day
         /\ Held(i, mode, l).current = l /\ Held(i, mode, l).layout = l
<1>1. dom.day \in Bounds /\ i \in BlockId /\ l[i].slot \in Int /\ l[i].span \in Int
  BY LayoutIs DEF Columns
<1>2. Held(i, mode, l) \in PointerGestures
  BY <1>1 DEF Held, PointerGestures
<1> QED BY <1>2 DEF Held

LEMMA WriteTwice ==
  ASSUME NEW l \in Layouts, NEW shown \in Layouts
  PROVE  Write(l, Write(l, shown)) = Write(l, shown) /\ Write(shown, shown) = shown
<1>1. \A s \in Layouts : DOMAIN Write(l, s) = DOMAIN s /\ s \in [DOMAIN s -> Spot]
  BY WriteIs, LayoutIs
<1>2. Write(l, Write(l, shown)) = Write(l, shown)
  BY <1>1, WriteIs DEF Write
<1>3. Write(shown, shown) = shown
  BY <1>1 DEF Write
<1> QED BY <1>2, <1>3

\* A settled gesture changes what the column shows only when it posts that.
LEMMA SettleIs ==
  ASSUME TabTypes, Settle
  PROVE  /\ pointer # None /\ pointer' = None
         /\ dom' \in Columns /\ outbox' \in Seq(Requests)
         /\ \/ dom' = dom /\ outbox' = outbox
            \/ /\ outbox' # << >> /\ dom.layout = pointer.current
               /\ dom'.day = dom.day /\ dom'.layout = Write(pointer.layout, dom.layout)
         /\ UNCHANGED <<block, bounds, grab, kresize, inbox, foreign, crossed, unanswered>>
<1> DEFINE shown == Write(pointer.layout, dom.layout)
<1>1. /\ pointer # None /\ pointer' = None
      /\ UNCHANGED <<block, bounds, grab, kresize, inbox, foreign, crossed, unanswered>>
      /\ IF pointer.id \in DOMAIN dom.layout /\ dom.layout = pointer.current
         THEN Commit(pointer.id, pointer.current, pointer.layout, shown)
         ELSE UNCHANGED <<dom, outbox>>
  BY DEF Settle
<1>2. /\ dom \in Columns /\ dom.layout \in Layouts /\ outbox \in Seq(Requests)
      /\ pointer.current \in Layouts /\ pointer.layout \in Layouts
  BY <1>1 DEF TabTypes, Columns, PointerTyped, PointerGestures
<1>3. CASE ~(pointer.id \in DOMAIN dom.layout /\ dom.layout = pointer.current)
  BY <1>1, <1>2, <1>3
<1>4. CASE pointer.id \in DOMAIN dom.layout /\ dom.layout = pointer.current
  <2>1. shown \in Layouts /\ DOMAIN shown = DOMAIN dom.layout /\ Write(pointer.layout, shown) = shown
    BY <1>2, WriteIs, WriteTwice
  <2>2. pointer.layout = pointer.current => shown = dom.layout
    BY <1>2, <1>4, WriteTwice
  <2>3. Commit(pointer.id, pointer.current, pointer.layout, shown)
    BY <1>1, <1>4
  <2>4. shown = Write(pointer.layout, dom.layout)
    OBVIOUS
  <2> HIDE DEF shown
  <2>5. /\ dom' \in Columns /\ outbox' \in Seq(Requests) /\ dom'.day = dom.day
        /\ IF pointer.current = pointer.layout \/ pointer.id \notin DOMAIN shown
           THEN dom'.layout = shown /\ outbox' = outbox
           ELSE dom'.layout = Write(pointer.layout, shown) /\ outbox' # << >>
    BY <1>2, <2>1, <2>3, CommitIs
  <2>6. CASE pointer.layout = pointer.current
    <3>1. dom' = dom
      BY <1>2, <2>2, <2>5, <2>6 DEF Columns
    <3> QED BY <1>1, <2>5, <2>6, <3>1
  <2>7. CASE pointer.layout # pointer.current
    BY <1>1, <1>4, <2>1, <2>4, <2>5, <2>7
  <2> QED BY <2>6, <2>7
<1> QED BY <1>3, <1>4

LEMMA PointerStepKeepsTypes ==
  ASSUME GTypes, PointerStep
  PROVE  GTypes'
<1>1. PlanInv /\ TabTypes /\ dom \in Columns /\ dom.layout \in Layouts
  BY DEF GTypes, TabTypes, Columns
<1>2. AfterKeyCancel \in Layouts /\ DOMAIN AfterKeyCancel = DOMAIN dom.layout
  BY <1>1, AfterKeyCancelIs
<1>3. dom' = [dom EXCEPT !.layout = AfterKeyCancel] => dom' \in Columns
  BY <1>1, <1>2 DEF Columns
<1>4. ASSUME NEW i \in BlockId, NEW mode \in {"drag", "resize"}, Press(i, mode) PROVE GTypes'
  <2>1. /\ grab' = None /\ kresize' = None /\ dom' \in Columns
        /\ i \in DOMAIN AfterKeyCancel /\ pointer' = Held(i, mode, AfterKeyCancel)
        /\ UNCHANGED <<block, bounds, outbox, inbox>>
    BY <1>2, <1>3, <1>4 DEF Press, Held
  <2>2. pointer' \in PointerGestures /\ pointer'.id \in DOMAIN pointer'.current
    BY <1>1, <1>2, <2>1, HeldIs
  <2> QED BY <1>1, <2>1, <2>2, PlanRests DEF GTypes, TabTypes, KeyTyped, PointerTyped
<1>5. ASSUME PressElsewhere PROVE GTypes'
  <2>1. /\ grab' = None /\ kresize' = None /\ dom' \in Columns
        /\ UNCHANGED <<block, bounds, pointer, outbox, inbox>>
    BY <1>3, <1>5 DEF PressElsewhere
  <2> QED BY <1>1, <2>1, PlanRests DEF GTypes, TabTypes, KeyTyped, PointerTyped
<1>6. ASSUME NEW n \in MinDayStart .. MaxDayEnd, Preview(n) PROVE GTypes'
  <2>1. /\ pointer # None /\ pointer \in PointerGestures /\ n \in Int
        /\ \E l \in Layouts : pointer' = [pointer EXCEPT !.at = n, !.layout = l]
        /\ UNCHANGED <<block, bounds, dom, grab, kresize, outbox, inbox>>
    BY <1>1, <1>6, PreviewIs
  <2>2. pointer.id \in DOMAIN pointer.current
    BY <1>1, <2>1 DEF TabTypes, PointerTyped
  <2>3. pointer' \in PointerGestures /\ pointer'.id \in DOMAIN pointer'.current
    BY <2>1, <2>2 DEF PointerGestures
  <2> QED BY <1>1, <2>1, <2>3, PlanRests DEF GTypes, TabTypes, KeyTyped, PointerTyped
<1>7. ASSUME NEW keep \in BOOLEAN, Release(keep) PROVE GTypes'
  <2>1. /\ pointer # None
        /\ pointer' = [pointer EXCEPT !.phase = "settling", !.layout = IF keep THEN @ ELSE pointer.current]
        /\ UNCHANGED <<block, bounds, dom, grab, kresize, outbox, inbox>>
    BY <1>7 DEF Release
  <2>2. pointer \in PointerGestures /\ pointer.id \in DOMAIN pointer.current
    BY <1>1, <2>1 DEF TabTypes, PointerTyped
  <2>3. pointer' \in PointerGestures /\ pointer'.id \in DOMAIN pointer'.current
    BY <2>1, <2>2 DEF PointerGestures
  <2> QED BY <1>1, <2>1, <2>3, PlanRests DEF GTypes, TabTypes, KeyTyped, PointerTyped
<1>8. ASSUME Settle PROVE GTypes'
  <2>1. /\ pointer' = None /\ dom' \in Columns /\ outbox' \in Seq(Requests)
        /\ UNCHANGED <<block, bounds, grab, kresize, inbox>>
    BY <1>1, <1>8, SettleIs
  <2> QED BY <1>1, <2>1, PlanRests DEF GTypes, TabTypes, KeyTyped, PointerTyped
<1> QED BY <1>4, <1>5, <1>6, <1>7, <1>8 DEF PointerStep

\* What holds of the column a plan renders.
ColumnSound ==
  /\ Column \in Columns /\ Column.day = bounds[me] /\ DOMAIN Column.layout = Ids(me)
  /\ Legal(bounds[me], Column.layout)

LEMMA ColumnIsSound == PlanInv => ColumnSound
BY ColumnIs DEF ColumnSound

LEMMA NextColumnIsSound == PlanInv' => ColumnSound'
BY ColumnIsSound, PTL

\* A request served, with the place in the queue it leaves.
LEMMA WithoutIs ==
  ASSUME GTypes, NEW k \in DOMAIN outbox
  PROVE  Without(k) \in Seq(Requests)
<1> DEFINE n == Len(outbox) - 1
<1>1. /\ outbox \in Seq(Requests) /\ k \in 1 .. Len(outbox) /\ Len(outbox) \in Nat
      /\ \A j \in 1 .. Len(outbox) : outbox[j] \in Requests
  BY DEF GTypes, TabTypes
<1>2. n \in Nat
  BY <1>1
<1>3. \A j \in 1 .. n : outbox[IF j < k THEN j ELSE j + 1] \in Requests
  BY <1>1
<1>4. Without(k) = [j \in 1 .. n |-> outbox[IF j < k THEN j ELSE j + 1]]
  BY DEF Without
<1> HIDE DEF n
<1>5. Without(k) \in [1 .. n -> Requests]
  BY <1>3, <1>4
<1> QED BY <1>2, <1>5

LEMMA ServeIs ==
  ASSUME GTypes, NEW k \in DOMAIN outbox, Serve(k)
  PROVE  /\ PlanInv' /\ ColumnSound' /\ bounds' = bounds /\ Ids(me)' \subseteq Ids(me)
         /\ outbox' \in Seq(Requests) /\ inbox' = Append(inbox, Column') /\ unanswered' = FALSE
         /\ UNCHANGED <<dom, grab, kresize, pointer, foreign, crossed>>
<1> DEFINE r == outbox[k]
<1>1. /\ outbox \in Seq(Requests) /\ k \in 1 .. Len(outbox) /\ Len(outbox) \in Nat
      /\ \A j \in 1 .. Len(outbox) : outbox[j] \in Requests
  BY DEF GTypes, TabTypes
<1>2. r \in Requests /\ Handles(r)
  BY <1>1 DEF Serve
<1>3. /\ inbox' = Append(inbox, Column') /\ unanswered' = FALSE
      /\ outbox' = Without(k)
      /\ UNCHANGED <<dom, grab, kresize, pointer, foreign, crossed>>
  BY DEF Serve, Send, tab
<1>4. outbox' \in Seq(Requests)
  BY <1>3, WithoutIs
<1>5. PlanInv
  BY DEF GTypes
<1> HIDE DEF r
<1>6. PlanInv' /\ bounds' = bounds /\ Ids(me)' \subseteq Ids(me)
  BY <1>2, <1>5, HandlerKeepsPlan
<1> QED BY <1>3, <1>4, <1>6, NextColumnIsSound

LEMMA UnansweredIs ==
  ASSUME GTypes, NEW k \in DOMAIN outbox, Unanswered(k)
  PROVE  /\ PlanInv' /\ bounds' = bounds /\ Ids(me)' \subseteq Ids(me)
         /\ outbox' \in Seq(Requests) /\ unanswered' = TRUE
         /\ UNCHANGED <<dom, grab, kresize, pointer, inbox, foreign, crossed>>
<1>1. outbox \in Seq(Requests) /\ outbox[k] \in Requests /\ PlanInv
  BY DEF GTypes, TabTypes
<1>2. /\ Handles(outbox[k]) \/ UNCHANGED vars
      /\ outbox' \in {outbox, Without(k)} /\ unanswered' = TRUE
      /\ UNCHANGED <<dom, grab, kresize, pointer, inbox, foreign, crossed>>
  BY DEF Unanswered, tab
<1>3. outbox' \in Seq(Requests)
  BY <1>1, <1>2, WithoutIs
<1>4. CASE Handles(outbox[k])
  <2>1. PlanInv' /\ bounds' = bounds /\ Ids(me)' \subseteq Ids(me)
    BY <1>1, <1>4, HandlerKeepsPlan
  <2> QED BY <1>2, <1>3, <2>1
<1>5. CASE UNCHANGED vars
  <2>1. PlanInv'
    BY <1>1, <1>5, NextPlanInv
  <2> QED BY <1>2, <1>3, <1>5, <2>1 DEF vars, Ids
<1> QED BY <1>2, <1>4, <1>5

LEMMA RefreshIs ==
  ASSUME GTypes, Refresh
  PROVE  /\ PlanInv' /\ ColumnSound' /\ bounds' = bounds /\ Ids(me)' \subseteq Ids(me)
         /\ inbox' = Append(inbox, Column') /\ unanswered' = FALSE
         /\ UNCHANGED <<dom, grab, kresize, pointer, outbox, foreign, crossed>>
<1>1. /\ inbox' = Append(inbox, Column) /\ unanswered' = FALSE /\ UNCHANGED <<block, bounds>>
      /\ UNCHANGED <<dom, grab, kresize, pointer, outbox, foreign, crossed>>
  BY DEF Refresh, Send, tab
<1>2. Column' = Column /\ Ids(me)' = Ids(me)
  BY <1>1 DEF Column, Ids
<1>3. PlanInv'
  BY <1>1, PlanRests DEF GTypes
<1> QED BY <1>1, <1>2, <1>3, NextColumnIsSound

LEMMA ForeignIs ==
  ASSUME GTypes, Foreign
  PROVE  /\ PlanInv' /\ ColumnSound' /\ foreign < MaxForeign /\ foreign' = foreign + 1
         /\ inbox' = Append(inbox, Column') /\ unanswered' = FALSE
         /\ UNCHANGED <<dom, grab, kresize, pointer, outbox, crossed>>
<1>1. /\ Mutation(me) /\ foreign < MaxForeign /\ foreign' = foreign + 1
      /\ inbox' = Append(inbox, Column') /\ unanswered' = FALSE
      /\ UNCHANGED <<dom, grab, kresize, pointer, outbox, crossed>>
  BY DEF Foreign, Send, tab
<1>2. Next /\ PlanInv
  BY <1>1, GestureAssumption DEF Next, GTypes
<1>3. PlanInv'
  BY <1>2, NextPlanInv
<1> QED BY <1>1, <1>3, NextColumnIsSound

LEMMA MorphIs ==
  ASSUME GTypes, Morph
  PROVE  /\ inbox # << >> /\ dom' = inbox[1] /\ inbox[1] \in Columns /\ pointer' = None
         /\ inbox' = Tail(inbox) /\ inbox' \in Seq(Columns)
         /\ crossed' = (grab # None \/ kresize # None)
         /\ UNCHANGED <<block, bounds, grab, kresize, outbox, foreign, unanswered>>
<1>1. inbox \in Seq(Columns) /\ inbox # << >>
  BY DEF GTypes, TabTypes, Morph
<1>2. inbox[1] \in Columns /\ Tail(inbox) \in Seq(Columns) /\ Head(inbox) = inbox[1]
  BY <1>1
<1> QED BY <1>1, <1>2 DEF Morph

LEMMA NextKeepsTypes ==
  ASSUME GTypes, [GNext]_gestureVars
  PROVE  GTypes'
<1>1. PlanInv /\ TabTypes /\ inbox \in Seq(Columns)
  BY DEF GTypes, TabTypes
<1>2. ASSUME NEW k \in DOMAIN outbox, Serve(k) PROVE GTypes'
  <2>1. /\ PlanInv' /\ ColumnSound' /\ outbox' \in Seq(Requests) /\ inbox' = Append(inbox, Column')
        /\ UNCHANGED <<dom, grab, kresize, pointer>>
    BY <1>2, ServeIs
  <2>2. Column' \in Columns
    BY <2>1 DEF ColumnSound
  <2>3. inbox' \in Seq(Columns)
    BY <1>1, <2>1, <2>2
  <2> QED BY <1>1, <2>1, <2>3 DEF GTypes, TabTypes, KeyTyped, PointerTyped
<1>3. ASSUME Foreign PROVE GTypes'
  <2>1. /\ PlanInv' /\ ColumnSound' /\ inbox' = Append(inbox, Column')
        /\ UNCHANGED <<dom, grab, kresize, pointer, outbox>>
    BY <1>3, ForeignIs
  <2>2. Column' \in Columns
    BY <2>1 DEF ColumnSound
  <2>3. inbox' \in Seq(Columns)
    BY <1>1, <2>1, <2>2
  <2> QED BY <1>1, <2>1, <2>3 DEF GTypes, TabTypes, KeyTyped, PointerTyped
<1>4. ASSUME Morph PROVE GTypes'
  <2>1. /\ dom' \in Columns /\ pointer' = None /\ inbox' \in Seq(Columns)
        /\ UNCHANGED <<block, bounds, grab, kresize, outbox>>
    BY <1>4, MorphIs
  <2> QED BY <1>1, <2>1, PlanRests DEF GTypes, TabTypes, KeyTyped, PointerTyped
<1>5. ASSUME UNCHANGED gestureVars PROVE GTypes'
  <2>1. UNCHANGED <<block, bounds, dom, grab, kresize, pointer, outbox, inbox>>
    BY <1>5 DEF gestureVars
  <2> QED BY <1>1, <2>1, PlanRests DEF GTypes, TabTypes, KeyTyped, PointerTyped
<1>6. ASSUME NEW k \in DOMAIN outbox, Unanswered(k) PROVE GTypes'
  <2>1. PlanInv' /\ outbox' \in Seq(Requests) /\ UNCHANGED <<dom, grab, kresize, pointer, inbox>>
    BY <1>6, UnansweredIs
  <2> QED BY <1>1, <2>1 DEF GTypes, TabTypes, KeyTyped, PointerTyped
<1>7. ASSUME Refresh PROVE GTypes'
  <2>1. /\ PlanInv' /\ ColumnSound' /\ inbox' = Append(inbox, Column')
        /\ UNCHANGED <<dom, grab, kresize, pointer, outbox>>
    BY <1>7, RefreshIs
  <2>2. Column' \in Columns
    BY <2>1 DEF ColumnSound
  <2>3. inbox' \in Seq(Columns)
    BY <1>1, <2>1, <2>2
  <2> QED BY <1>1, <2>1, <2>3 DEF GTypes, TabTypes, KeyTyped, PointerTyped
<1> QED BY <1>2, <1>3, <1>4, <1>5, <1>6, <1>7, KeyStepKeepsTypes, PointerStepKeepsTypes DEF GNext

LEMMA TypesKept == GSpec => []GTypes
<1>1. GInit => GTypes
  BY GInitTypes
<1>2. GTypes /\ [GNext]_gestureVars => GTypes'
  BY NextKeepsTypes
<1> QED BY <1>1, <1>2, PTL DEF GSpec

-----------------------------------------------------------------------------
(* A pointer gesture and the column it works on.                           *)

PointerInv ==
  pointer # None =>
    /\ dom = [day |-> pointer.day, layout |-> pointer.current]
    /\ grab = None /\ kresize = None

LEMMA PointerInvKept ==
  ASSUME GTypes, PointerInv, [GNext]_gestureVars
  PROVE  PointerInv'
<1>1. TabTypes /\ dom \in Columns
  BY DEF GTypes, TabTypes
<1>2. CASE KeyStep
  <2>1. pointer' = None
    BY <1>1, <1>2, KeyMoveIs, KeyResizeIs
       DEF KeyStep, KeyGrab, KeyDelete, KeyDrop, KeyCancel, KeyResizeCommit, KeyResizeCancel, KeysReach, tab
  <2> QED BY <2>1 DEF PointerInv
<1>3. CASE \E i \in BlockId, mode \in {"drag", "resize"} : Press(i, mode)
  <2>1. PICK i \in BlockId, mode \in {"drag", "resize"} : Press(i, mode)
    BY <1>3
  <2>2. /\ grab' = None /\ kresize' = None
        /\ pointer'.day = dom.day /\ pointer'.current = AfterKeyCancel
        /\ dom' = [dom EXCEPT !.layout = AfterKeyCancel]
    BY <2>1 DEF Press
  <2>3. dom' = [day |-> dom.day, layout |-> AfterKeyCancel]
    BY <1>1, <2>2 DEF Columns
  <2> QED BY <2>2, <2>3 DEF PointerInv
<1>4. CASE PressElsewhere
  BY <1>4 DEF PressElsewhere, PointerInv
<1>5. CASE \E n \in MinDayStart .. MaxDayEnd : Preview(n)
  <2>1. /\ pointer # None /\ pointer \in PointerGestures
        /\ \E n \in Int, l \in Layouts : pointer' = [pointer EXCEPT !.at = n, !.layout = l]
        /\ UNCHANGED <<dom, grab, kresize>>
    <3>1. PICK n \in MinDayStart .. MaxDayEnd : Preview(n)
      BY <1>5
    <3>2. /\ pointer # None /\ pointer \in PointerGestures /\ n \in Int
          /\ \E l \in Layouts : pointer' = [pointer EXCEPT !.at = n, !.layout = l]
          /\ UNCHANGED <<dom, grab, kresize>>
      BY <1>1, <3>1, PreviewIs
    <3> QED BY <3>2
  <2>2. pointer'.day = pointer.day /\ pointer'.current = pointer.current
    BY <2>1 DEF PointerGestures
  <2> QED BY <2>1, <2>2 DEF PointerInv
<1>6. CASE \E keep \in BOOLEAN : Release(keep)
  <2>1. /\ pointer # None /\ UNCHANGED <<dom, grab, kresize>>
        /\ \E keep \in BOOLEAN :
             pointer' = [pointer EXCEPT !.phase = "settling", !.layout = IF keep THEN @ ELSE pointer.current]
    BY <1>6 DEF Release
  <2>2. pointer'.day = pointer.day /\ pointer'.current = pointer.current
    BY <1>1, <2>1 DEF TabTypes, PointerTyped, PointerGestures
  <2> QED BY <2>1, <2>2 DEF PointerInv
<1>7. CASE Settle \/ Morph
  BY <1>7 DEF Settle, Morph, PointerInv
<1>8. CASE \/ \E k \in DOMAIN outbox : Serve(k) \/ Unanswered(k)
           \/ Refresh \/ Foreign \/ UNCHANGED gestureVars
  <2>1. UNCHANGED <<dom, grab, kresize, pointer>>
    BY <1>8 DEF Serve, Unanswered, Refresh, Foreign, gestureVars, tab
  <2> QED BY <2>1 DEF PointerInv
<1> QED BY <1>2, <1>3, <1>4, <1>5, <1>6, <1>7, <1>8 DEF GNext, PointerStep

LEMMA PointerInvHolds == GSpec => []PointerInv
<1>1. GInit => PointerInv
  BY DEF GInit, PointerInv
<1>2. GTypes /\ PointerInv /\ [GNext]_gestureVars => PointerInv'
  BY PointerInvKept
<1> QED BY <1>1, <1>2, TypesKept, PTL DEF GSpec

\* A pointer gesture, held or settling, works on the column the DOM shows, whatever
\* the server and other tabs do: a patch ends it (watchServer in pointer.js).
THEOREM PointerKeepsItsColumn == GSpec => []PointerOwnsColumn
<1>1. PointerInv => PointerOwnsColumn
  BY DEF PointerInv, PointerOwnsColumn
<1> QED BY <1>1, PointerInvHolds, PTL

\* While the pointer path holds a gesture the keyboard path holds none, neither a move
\* nor a resize (the cancel calls of gestures.js).
THEOREM PathsExclude == GSpec => []OnePathAtATime
<1>1. PointerInv => OnePathAtATime
  BY DEF PointerInv, OnePathAtATime
<1> QED BY <1>1, PointerInvHolds, PTL

-----------------------------------------------------------------------------
(* A quiet tab shows the stored plan.                                      *)

\* While no patch crossed it, a keyboard gesture shows what it proposes, for the
\* blocks it started from.
InStep(g) == g # None => DOMAIN g.start = DOMAIN dom.layout /\ g.layout = dom.layout

KeysInStep == (grab = None \/ kresize = None) /\ InStep(grab) /\ InStep(kresize)

\* The layout the column goes back to when the keyboard gesture is cancelled.
Base == IF grab # None THEN grab.start
        ELSE IF kresize # None THEN kresize.start
        ELSE dom.layout

\* Both hold of a tab that was sent a column after each of its requests.
LastPatchIsStored == inbox # << >> /\ ~unanswered => inbox[Len(inbox)] = Column

BaseIsStored ==
  inbox = << >> /\ outbox = << >> /\ ~unanswered => [day |-> dom.day, layout |-> Base] = Column

ConvergeInv == LastPatchIsStored /\ (~crossed => KeysInStep /\ BaseIsStored)

LEMMA WriteAll ==
  ASSUME NEW l \in Layouts, NEW shown \in Layouts, DOMAIN l = DOMAIN shown
  PROVE  Write(l, shown) = l
<1>1. l \in [DOMAIN shown -> Spot]
  BY LayoutIs
<1> QED BY <1>1 DEF Write

\* A step of the tab that leaves the base alone, or posts a request.
LEMMA TabStepConverges ==
  ASSUME ConvergeInv, UNCHANGED <<block, bounds, inbox, crossed, unanswered>>,
         ~crossed => /\ KeysInStep' /\ dom'.day = dom.day
                     /\ outbox' = << >> => outbox = << >> /\ Base' = Base
  PROVE  ConvergeInv'
<1>1. Column' = Column
  BY DEF Column, Ids
<1> QED BY <1>1 DEF ConvergeInv, LastPatchIsStored, BaseIsStored

LEMMA KeyStepConverges ==
  ASSUME GTypes, ConvergeInv, KeyStep
  PROVE  ConvergeInv'
<1>1. TabTypes /\ dom \in Columns /\ dom.layout \in Layouts /\ outbox \in Seq(Requests)
  BY DEF GTypes, TabTypes, Columns
<1>2. /\ grab # None => grab \in KeyGestures /\ grab.start \in Layouts /\ grab.layout \in Layouts
                        /\ grab.id \in DOMAIN grab.start
      /\ kresize # None => kresize \in KeyGestures /\ kresize.start \in Layouts /\ kresize.layout \in Layouts
                           /\ kresize.id \in DOMAIN kresize.start
  BY <1>1 DEF TabTypes, KeyTyped, KeyGestures
<1>3. ASSUME ~crossed
      PROVE  /\ KeysInStep /\ (grab # None => kresize = None /\ Present(grab))
             /\ (kresize # None => grab = None /\ Present(kresize))
  BY <1>2, <1>3 DEF ConvergeInv, KeysInStep, InStep, Present
<1>4. ASSUME NEW i \in BlockId, KeyGrab(i) PROVE ConvergeInv'
  <2>1. /\ grab = None /\ ~Present(kresize) /\ i \in DOMAIN dom.layout
        /\ grab' = Begun(i, dom.layout[i].slot)
        /\ UNCHANGED <<block, bounds, dom, kresize, pointer, outbox, inbox, crossed, unanswered>>
    BY <1>4 DEF KeyGrab, Begun
  <2>2. dom.layout[i].slot \in Int
    BY <1>1, <2>1, LayoutIs
  <2>3. grab' # None /\ grab'.start = dom.layout /\ grab'.layout = dom.layout
    BY <1>1, <2>1, <2>2, BegunIs
  <2>4. ASSUME ~crossed PROVE KeysInStep' /\ Base' = Base
    <3>1. kresize = None
      BY <1>3, <2>1, <2>4
    <3> QED BY <2>1, <2>3, <3>1 DEF KeysInStep, InStep, Base
  <2> QED BY <2>1, <2>4, TabStepConverges
<1>5. ASSUME NEW i \in BlockId, KeyDelete(i) PROVE ConvergeInv'
  <2>1. /\ outbox' = Append(outbox, [kind |-> "delete", id |-> i])
        /\ UNCHANGED <<block, bounds, dom, grab, kresize, inbox, crossed, unanswered>>
    BY <1>5 DEF KeyDelete, tab
  <2>2. [kind |-> "delete", id |-> i] \in Requests
    BY DEF Requests
  <2>3. outbox' # << >>
    BY <1>1, <2>1, <2>2
  <2>4. ~crossed => KeysInStep'
    BY <1>3, <2>1 DEF KeysInStep, InStep
  <2> QED BY <2>1, <2>3, <2>4, TabStepConverges
<1>6. ASSUME NEW step \in {-1, 1}, KeyMove(step) PROVE ConvergeInv'
  <2>1. /\ grab # None /\ UNCHANGED <<block, bounds, kresize, outbox, inbox, crossed, unanswered>>
        /\ \E n \in Int, l \in Layouts :
             Proposes(grab.day, grab.start, grab.id, l) /\ grab' = Stepped(grab, n, l) /\ Shows(l)
    BY <1>1, <1>6, KeyMoveIs
  <2>2. PICK n \in Int, l \in Layouts :
          Proposes(grab.day, grab.start, grab.id, l) /\ grab' = Stepped(grab, n, l) /\ Shows(l)
    BY <2>1
  <2>3. /\ grab' # None /\ grab'.start = grab.start /\ grab'.layout = l
    BY <1>2, <2>1, <2>2, SteppedIs
  <2>4. dom'.day = dom.day /\ dom'.layout = Write(l, dom.layout)
    BY <1>1, <2>2, ShowsIs
  <2>5. ASSUME ~crossed PROVE KeysInStep' /\ Base' = Base
    <3>1. kresize = None /\ DOMAIN grab.start = DOMAIN dom.layout
      BY <1>3, <2>1, <2>5 DEF KeysInStep, InStep
    <3>2. DOMAIN l = DOMAIN dom.layout
      BY <2>2, <3>1 DEF Proposes
    <3>3. dom'.layout = l
      BY <1>1, <2>4, <3>2, WriteAll
    <3> QED BY <2>1, <2>3, <3>1, <3>2, <3>3 DEF KeysInStep, InStep, Base
  <2> QED BY <2>1, <2>4, <2>5, TabStepConverges
<1>7. ASSUME NEW i \in BlockId, NEW key \in {"ArrowDown", "ArrowUp", "Home", "End"}, KeyResize(i, key)
      PROVE  ConvergeInv'
  <2>1. /\ ~Present(grab) /\ i \in DOMAIN dom.layout
        /\ UNCHANGED <<block, bounds, grab, pointer, outbox, inbox, crossed, unanswered>>
    BY <1>1, <1>7, KeyResizeIs
  <2>2. PICK r \in KeyGestures :
          /\ r = (IF kresize # None THEN kresize ELSE Begun(i, dom.layout[i].span))
          /\ r.id \in DOMAIN r.start
          /\ \/ kresize' = r /\ UNCHANGED dom
             \/ \E n \in Int, l \in Layouts :
                  Proposes(r.day, r.start, r.id, l) /\ kresize' = Stepped(r, n, l) /\ Shows(l)
    BY <1>1, <1>7, KeyResizeIs
  <2>3. r # None /\ r.start \in Layouts
    BY <2>2, MarkerAssumption DEF KeyGestures
  <2>4. ASSUME ~crossed
        PROVE  /\ grab = None /\ Base = r.start
               /\ DOMAIN r.start = DOMAIN dom.layout /\ r.layout = dom.layout
    <3>1. grab = None
      BY <1>3, <2>1, <2>4
    <3>2. CASE kresize # None
      BY <1>3, <2>2, <2>4, <3>1, <3>2 DEF KeysInStep, InStep, Base
    <3>3. CASE kresize = None
      BY <2>2, <3>1, <3>3 DEF Begun, Base
    <3> QED BY <3>1, <3>2, <3>3
  <2>5. CASE kresize' = r /\ UNCHANGED dom
    <3>1. ~crossed => KeysInStep' /\ Base' = Base
      BY <2>1, <2>3, <2>4, <2>5 DEF KeysInStep, InStep, Base
    <3> QED BY <2>1, <2>5, <3>1, TabStepConverges
  <2>6. ASSUME NEW n \in Int, NEW l \in Layouts,
               Proposes(r.day, r.start, r.id, l), kresize' = Stepped(r, n, l), Shows(l)
        PROVE  ConvergeInv'
    <3>1. kresize' # None /\ kresize'.start = r.start /\ kresize'.layout = l
      BY <2>6, SteppedIs
    <3>2. dom'.day = dom.day /\ dom'.layout = Write(l, dom.layout)
      BY <1>1, <2>6, ShowsIs
    <3>3. ASSUME ~crossed PROVE KeysInStep' /\ Base' = Base
      <4>1. DOMAIN l = DOMAIN dom.layout
        BY <2>4, <2>6, <3>3 DEF Proposes
      <4>2. dom'.layout = l
        BY <1>1, <3>2, <4>1, WriteAll
      <4> QED BY <2>1, <2>4, <3>1, <3>3, <4>1, <4>2 DEF KeysInStep, InStep, Base
    <3> QED BY <2>1, <3>2, <3>3, TabStepConverges
  <2> QED BY <2>2, <2>5, <2>6
<1>8. ASSUME KeyDrop PROVE ConvergeInv'
  <2>1. /\ grab # None /\ Commit(grab.id, grab.start, grab.layout, dom.layout) /\ grab' = None
        /\ UNCHANGED <<block, bounds, kresize, pointer, inbox, crossed, unanswered>>
    BY <1>8 DEF KeyDrop
  <2>2. /\ dom'.day = dom.day /\ DOMAIN dom'.layout = DOMAIN dom.layout
        /\ IF grab.start = grab.layout \/ grab.id \notin DOMAIN dom.layout
           THEN dom'.layout = dom.layout /\ outbox' = outbox
           ELSE dom'.layout = Write(grab.layout, dom.layout) /\ outbox' # << >>
    BY <1>1, <1>2, <2>1, CommitIs
  <2>3. ASSUME ~crossed PROVE KeysInStep' /\ (outbox' = << >> => outbox = << >> /\ Base' = Base)
    <3>1. kresize = None /\ grab.layout = dom.layout /\ grab.id \in DOMAIN dom.layout
      BY <1>3, <2>1, <2>3 DEF KeysInStep, InStep, Present
    <3> QED BY <2>1, <2>2, <3>1 DEF KeysInStep, InStep, Base
  <2> QED BY <2>1, <2>2, <2>3, TabStepConverges
<1>9. ASSUME KeyCancel PROVE ConvergeInv'
  <2>1. /\ grab # None /\ Shows(grab.start) /\ grab' = None
        /\ UNCHANGED <<block, bounds, kresize, pointer, outbox, inbox, crossed, unanswered>>
    BY <1>9 DEF KeyCancel, Shows
  <2>2. dom'.day = dom.day /\ dom'.layout = Write(grab.start, dom.layout)
    BY <1>1, <1>2, <2>1, ShowsIs
  <2>3. ASSUME ~crossed PROVE KeysInStep' /\ Base' = Base
    <3>1. kresize = None /\ DOMAIN grab.start = DOMAIN dom.layout
      BY <1>3, <2>1, <2>3 DEF KeysInStep, InStep
    <3>2. dom'.layout = grab.start
      BY <1>1, <1>2, <2>1, <2>2, <3>1, WriteAll
    <3> QED BY <2>1, <3>1, <3>2 DEF KeysInStep, InStep, Base
  <2> QED BY <2>1, <2>2, <2>3, TabStepConverges
<1>10. ASSUME KeyResizeCommit PROVE ConvergeInv'
  <2>1. /\ kresize # None /\ Commit(kresize.id, kresize.start, kresize.layout, dom.layout) /\ kresize' = None
        /\ UNCHANGED <<block, bounds, grab, pointer, inbox, crossed, unanswered>>
    BY <1>10 DEF KeyResizeCommit
  <2>2. /\ dom'.day = dom.day /\ DOMAIN dom'.layout = DOMAIN dom.layout
        /\ IF kresize.start = kresize.layout \/ kresize.id \notin DOMAIN dom.layout
           THEN dom'.layout = dom.layout /\ outbox' = outbox
           ELSE dom'.layout = Write(kresize.layout, dom.layout) /\ outbox' # << >>
    BY <1>1, <1>2, <2>1, CommitIs
  <2>3. ASSUME ~crossed PROVE KeysInStep' /\ (outbox' = << >> => outbox = << >> /\ Base' = Base)
    <3>1. grab = None /\ kresize.layout = dom.layout /\ kresize.id \in DOMAIN dom.layout
      BY <1>3, <2>1, <2>3 DEF KeysInStep, InStep, Present
    <3> QED BY <2>1, <2>2, <3>1 DEF KeysInStep, InStep, Base
  <2> QED BY <2>1, <2>2, <2>3, TabStepConverges
<1>11. ASSUME KeyResizeCancel PROVE ConvergeInv'
  <2>1. /\ kresize # None /\ Shows(kresize.start) /\ kresize' = None
        /\ UNCHANGED <<block, bounds, grab, pointer, outbox, inbox, crossed, unanswered>>
    BY <1>11 DEF KeyResizeCancel, Shows
  <2>2. dom'.day = dom.day /\ dom'.layout = Write(kresize.start, dom.layout)
    BY <1>1, <1>2, <2>1, ShowsIs
  <2>3. ASSUME ~crossed PROVE KeysInStep' /\ Base' = Base
    <3>1. grab = None /\ DOMAIN kresize.start = DOMAIN dom.layout
      BY <1>3, <2>1, <2>3 DEF KeysInStep, InStep
    <3>2. dom'.layout = kresize.start
      BY <1>1, <1>2, <2>1, <2>2, <3>1, WriteAll
    <3> QED BY <2>1, <3>1, <3>2 DEF KeysInStep, InStep, Base
  <2> QED BY <2>1, <2>2, <2>3, TabStepConverges
<1> QED BY <1>4, <1>5, <1>6, <1>7, <1>8, <1>9, <1>10, <1>11 DEF KeyStep

LEMMA PointerStepConverges ==
  ASSUME GTypes, PointerInv, ConvergeInv, PointerStep
  PROVE  ConvergeInv'
<1>1. TabTypes /\ dom \in Columns /\ dom.layout \in Layouts
  BY DEF GTypes, TabTypes, Columns
<1>2. ASSUME ~crossed PROVE AfterKeyCancel = Base
  <2>1. KeysInStep /\ (grab = None \/ kresize = None)
    BY <1>2 DEF ConvergeInv, KeysInStep
  <2>2. \A g \in {grab, kresize} : g # None => Write(g.start, dom.layout) = g.start
    <3> SUFFICES ASSUME NEW g \in {grab, kresize}, g # None PROVE Write(g.start, dom.layout) = g.start
      OBVIOUS
    <3>1. g.start \in Layouts
      BY <1>1 DEF TabTypes, KeyTyped, KeyGestures
    <3>2. DOMAIN g.start = DOMAIN dom.layout
      BY <2>1 DEF KeysInStep, InStep
    <3> QED BY <1>1, <3>1, <3>2, WriteAll
  <2>3. CASE grab # None
    BY <2>1, <2>2, <2>3 DEF AfterKeyCancel, Base
  <2>4. CASE grab = None
    BY <2>2, <2>4 DEF AfterKeyCancel, Base
  <2> QED BY <2>3, <2>4
<1>3. ASSUME grab' = None, kresize' = None, dom' = [dom EXCEPT !.layout = AfterKeyCancel],
             UNCHANGED <<block, bounds, outbox, inbox, crossed, unanswered>>
      PROVE  ConvergeInv'
  <2>1. dom'.day = dom.day /\ dom'.layout = AfterKeyCancel
    BY <1>1, <1>3 DEF Columns
  <2>2. ~crossed => KeysInStep' /\ Base' = Base
    BY <1>2, <1>3, <2>1 DEF KeysInStep, InStep, Base
  <2> QED BY <1>3, <2>1, <2>2, TabStepConverges
<1>4. ASSUME UNCHANGED <<block, bounds, dom, grab, kresize, inbox, crossed, unanswered>>, outbox' = outbox
      PROVE  ConvergeInv'
  <2>1. ~crossed => KeysInStep' /\ Base' = Base
    BY <1>4 DEF ConvergeInv, KeysInStep, InStep, Base
  <2> QED BY <1>4, <2>1, TabStepConverges
<1>5. CASE (\E i \in BlockId, mode \in {"drag", "resize"} : Press(i, mode)) \/ PressElsewhere
  BY <1>3, <1>5 DEF Press, PressElsewhere
<1>6. CASE (\E n \in MinDayStart .. MaxDayEnd : Preview(n)) \/ (\E keep \in BOOLEAN : Release(keep))
  BY <1>4, <1>6 DEF Preview, Release
<1>7. CASE Settle
  <2>1. /\ pointer # None
        /\ \/ dom' = dom /\ outbox' = outbox
           \/ outbox' # << >> /\ dom'.day = dom.day
        /\ UNCHANGED <<block, bounds, grab, kresize, inbox, crossed, unanswered>>
    BY <1>1, <1>7, SettleIs
  <2>2. grab = None /\ kresize = None
    BY <2>1 DEF PointerInv
  <2>3. KeysInStep'
    BY <2>1, <2>2 DEF KeysInStep, InStep
  <2>4. outbox' = << >> => outbox = << >> /\ Base' = Base
    BY <2>1 DEF Base
  <2>5. dom'.day = dom.day
    BY <2>1
  <2> QED BY <2>1, <2>3, <2>4, <2>5, TabStepConverges
<1> QED BY <1>5, <1>6, <1>7 DEF PointerStep

LEMMA ConvergeInvKept ==
  ASSUME GTypes, PointerInv, ConvergeInv, [GNext]_gestureVars
  PROVE  ConvergeInv'
<1>1. inbox \in Seq(Columns)
  BY DEF GTypes, TabTypes
<1>2. ASSUME ColumnSound', inbox' = Append(inbox, Column'),
             UNCHANGED <<dom, grab, kresize, crossed>>
      PROVE  ConvergeInv'
  <2>1. Column' \in Columns
    BY <1>2 DEF ColumnSound
  <2>2. inbox' # << >> /\ inbox'[Len(inbox')] = Column'
    BY <1>1, <1>2, <2>1
  <2>3. ~crossed => KeysInStep'
    BY <1>2 DEF ConvergeInv, KeysInStep, InStep
  <2> QED BY <1>2, <2>2, <2>3 DEF ConvergeInv, LastPatchIsStored, BaseIsStored
<1>3. CASE \E k \in DOMAIN outbox : Serve(k)
  <2>1. /\ ColumnSound' /\ inbox' = Append(inbox, Column')
        /\ UNCHANGED <<dom, grab, kresize, crossed>>
    BY <1>3, ServeIs
  <2> QED BY <1>2, <2>1
<1>4. CASE Foreign
  <2>1. /\ ColumnSound' /\ inbox' = Append(inbox, Column')
        /\ UNCHANGED <<dom, grab, kresize, crossed>>
    BY <1>4, ForeignIs
  <2> QED BY <1>2, <2>1
<1>5. CASE Morph
  <2>1. /\ inbox # << >> /\ dom' = inbox[1] /\ dom' \in Columns /\ inbox' = Tail(inbox)
        /\ crossed' = (grab # None \/ kresize # None)
        /\ UNCHANGED <<block, bounds, grab, kresize, outbox, unanswered>>
    BY <1>5, MorphIs
  <2>2. Column' = Column
    BY <2>1 DEF Column, Ids
  <2>3. ~unanswered => inbox[Len(inbox)] = Column
    BY <2>1 DEF ConvergeInv, LastPatchIsStored
  <2>4. LastPatchIsStored'
    <3>1. inbox' # << >> => inbox'[Len(inbox')] = inbox[Len(inbox)]
      BY <1>1, <2>1
    <3> QED BY <2>1, <2>2, <2>3, <3>1 DEF LastPatchIsStored
  <2>5. ASSUME ~crossed' PROVE KeysInStep' /\ BaseIsStored'
    <3>1. grab' = None /\ kresize' = None
      BY <2>1, <2>5
    <3>2. inbox' = << >> => Len(inbox) = 1
      <4>1. Len(inbox) \in Nat /\ Len(inbox) # 0 /\ Len(Tail(inbox)) = Len(inbox) - 1
        BY <1>1, <2>1
      <4>2. ASSUME Tail(inbox) = << >> PROVE Len(Tail(inbox)) = 0
        <5>1. Len(<< >>) = 0
          OBVIOUS
        <5> QED BY <4>2, <5>1, Zenon
      <4>3. Tail(inbox) = << >> => Len(inbox) = 1
        BY <4>1, <4>2
      <4> QED BY <2>1, <4>3
    <3>3. inbox' = << >> /\ ~unanswered => dom' = Column
      BY <2>1, <2>3, <3>2
    <3>4. dom' = [day |-> dom'.day, layout |-> dom'.layout]
      BY <2>1 DEF Columns
    <3> QED BY <2>1, <2>2, <3>1, <3>3, <3>4 DEF KeysInStep, InStep, BaseIsStored, Base
  <2> QED BY <2>4, <2>5 DEF ConvergeInv
<1>6. CASE UNCHANGED gestureVars
  BY <1>6 DEF gestureVars, ConvergeInv, LastPatchIsStored, BaseIsStored, KeysInStep, InStep, Base, Column, Ids
<1>7. CASE \E k \in DOMAIN outbox : Unanswered(k)
  <2>1. unanswered' = TRUE /\ UNCHANGED <<dom, grab, kresize, crossed>>
    BY <1>7, UnansweredIs
  <2>2. ~crossed => KeysInStep'
    BY <2>1 DEF ConvergeInv, KeysInStep, InStep
  <2> QED BY <2>1, <2>2 DEF ConvergeInv, LastPatchIsStored, BaseIsStored
<1>8. CASE Refresh
  <2>1. /\ ColumnSound' /\ inbox' = Append(inbox, Column')
        /\ UNCHANGED <<dom, grab, kresize, crossed>>
    BY <1>8, RefreshIs
  <2> QED BY <1>2, <2>1
<1> QED BY <1>3, <1>4, <1>5, <1>6, <1>7, <1>8, KeyStepConverges, PointerStepConverges DEF GNext

\* A tab with no gesture under way and nothing in flight shows the stored plan, unless
\* the last patch landed amid a keyboard gesture or a request ended without a column and
\* none was sent since, with any number of edits from the user's other tabs, of failed
\* handlers and of lost answers (commitGesture and cancel in gestures.js, mutate and
\* patchColumn of the server).
THEOREM QuietTabsConverge == GSpec => []QuietConverged
<1>1. GInit => ConvergeInv
  <2> SUFFICES ASSUME GInit PROVE ConvergeInv
    OBVIOUS
  <2>1. dom \in Columns
    BY GInitTypes DEF GTypes, TabTypes
  <2>2. dom = [day |-> dom.day, layout |-> dom.layout]
    BY <2>1 DEF Columns
  <2> QED BY <2>2 DEF GInit, ConvergeInv, LastPatchIsStored, BaseIsStored, KeysInStep, InStep, Base
<1>2. GTypes /\ PointerInv /\ ConvergeInv /\ [GNext]_gestureVars => ConvergeInv'
  BY ConvergeInvKept
<1>3. GTypes /\ ConvergeInv => QuietConverged
  <2> SUFFICES ASSUME GTypes, ConvergeInv, Quiet, ~crossed, ~unanswered PROVE dom = Column
    BY DEF QuietConverged
  <2>1. dom = [day |-> dom.day, layout |-> dom.layout]
    BY DEF GTypes, TabTypes, Columns
  <2> QED BY <2>1 DEF Quiet, ConvergeInv, BaseIsStored, Base
<1> QED BY <1>1, <1>2, <1>3, TypesKept, PointerInvHolds, PTL DEF GSpec

-----------------------------------------------------------------------------
(* What the gestures in progress propose.                                  *)

ProposesOwn(g) == g # None => Proposes(g.day, g.start, g.id, g.layout)

PointerProposes ==
  pointer # None => Proposes(pointer.day, pointer.current, pointer.id, pointer.layout)

ProposeInv == ProposesOwn(grab) /\ ProposesOwn(kresize) /\ PointerProposes

LEMMA KeyStepProposes ==
  ASSUME GTypes, ProposeInv, KeyStep
  PROVE  ProposeInv'
<1>1. TabTypes /\ dom \in Columns /\ dom.layout \in Layouts /\ dom.day \in Bounds
  BY DEF GTypes, TabTypes, Columns
<1>2. ASSUME NEW i \in BlockId, KeyGrab(i) PROVE ProposeInv'
  <2>1. /\ i \in DOMAIN dom.layout
        /\ grab' = Begun(i, dom.layout[i].slot)
        /\ UNCHANGED <<kresize, pointer>>
    BY <1>2 DEF KeyGrab, Begun
  <2>2. dom.layout[i].slot \in Int
    BY <1>1, <2>1, LayoutIs
  <2>3. /\ grab'.id = i /\ grab'.day = dom.day
        /\ grab'.start = dom.layout /\ grab'.layout = dom.layout
    BY <1>1, <2>1, <2>2, BegunIs
  <2>4. Proposes(dom.day, dom.layout, i, dom.layout)
    BY <1>1, <2>1, BeginProposes
  <2> QED BY <2>1, <2>3, <2>4 DEF ProposeInv, ProposesOwn, PointerProposes
<1>3. ASSUME NEW step \in {-1, 1}, KeyMove(step) PROVE ProposeInv'
  <2>1. /\ grab # None /\ UNCHANGED <<kresize, pointer>>
        /\ \E n \in Int, l \in Layouts :
             Proposes(grab.day, grab.start, grab.id, l) /\ grab' = Stepped(grab, n, l)
    BY <1>1, <1>3, KeyMoveIs
  <2>2. PICK n \in Int, l \in Layouts :
          Proposes(grab.day, grab.start, grab.id, l) /\ grab' = Stepped(grab, n, l)
    BY <2>1
  <2>3. grab \in KeyGestures
    BY <1>1, <2>1 DEF TabTypes, KeyTyped
  <2>4. grab'.id = grab.id /\ grab'.day = grab.day /\ grab'.start = grab.start /\ grab'.layout = l
    BY <2>2, <2>3, SteppedIs
  <2> QED BY <2>1, <2>2, <2>4 DEF ProposeInv, ProposesOwn, PointerProposes
<1>4. ASSUME NEW i \in BlockId, NEW key \in {"ArrowDown", "ArrowUp", "Home", "End"}, KeyResize(i, key)
      PROVE  ProposeInv'
  <2>1. i \in DOMAIN dom.layout /\ UNCHANGED <<grab, pointer>>
    BY <1>1, <1>4, KeyResizeIs
  <2>2. PICK r \in KeyGestures :
          /\ r = (IF kresize # None THEN kresize ELSE Begun(i, dom.layout[i].span))
          /\ \/ kresize' = r
             \/ \E n \in Int, l \in Layouts :
                  Proposes(r.day, r.start, r.id, l) /\ kresize' = Stepped(r, n, l)
    BY <1>1, <1>4, KeyResizeIs
  <2>3. ProposesOwn(kresize')
    <3>1. CASE kresize' = r
      <4>1. CASE kresize # None
        BY <2>2, <3>1, <4>1 DEF ProposeInv, ProposesOwn
      <4>2. CASE kresize = None
        <5>1. Proposes(dom.day, dom.layout, i, dom.layout)
          BY <1>1, <2>1, BeginProposes
        <5>2. kresize' = Begun(i, dom.layout[i].span)
          BY <2>2, <3>1, <4>2
        <5> QED BY <5>1, <5>2 DEF Begun, ProposesOwn
      <4> QED BY <4>1, <4>2
    <3>2. ASSUME NEW n \in Int, NEW l \in Layouts,
                 Proposes(r.day, r.start, r.id, l), kresize' = Stepped(r, n, l)
          PROVE  ProposesOwn(kresize')
      <4>1. /\ kresize'.id = r.id /\ kresize'.day = r.day
            /\ kresize'.start = r.start /\ kresize'.layout = l
        BY <3>2, SteppedIs
      <4> QED BY <3>2, <4>1 DEF ProposesOwn
    <3> QED BY <2>2, <3>1, <3>2
  <2> QED BY <2>1, <2>3 DEF ProposeInv, ProposesOwn, PointerProposes
<1>5. ASSUME \/ \E i \in BlockId : KeyDelete(i)
             \/ KeyDrop \/ KeyCancel \/ KeyResizeCommit \/ KeyResizeCancel
      PROVE  ProposeInv'
  <2>1. grab' \in {None, grab} /\ kresize' \in {None, kresize} /\ pointer' = pointer
    BY <1>5 DEF KeyDelete, KeyDrop, KeyCancel, KeyResizeCommit, KeyResizeCancel, tab
  <2> QED BY <2>1 DEF ProposeInv, ProposesOwn, PointerProposes
<1> QED BY <1>2, <1>3, <1>4, <1>5 DEF KeyStep

LEMMA ProposeInvKept ==
  ASSUME GTypes, ProposeInv, [GNext]_gestureVars
  PROVE  ProposeInv'
<1>1. TabTypes /\ dom \in Columns /\ dom.layout \in Layouts /\ dom.day \in Bounds
  BY DEF GTypes, TabTypes, Columns
<1>2. ASSUME NEW i \in BlockId, NEW mode \in {"drag", "resize"}, Press(i, mode) PROVE ProposeInv'
  <2>1. AfterKeyCancel \in Layouts /\ DOMAIN AfterKeyCancel = DOMAIN dom.layout
    BY <1>1, AfterKeyCancelIs
  <2>2. /\ grab' = None /\ kresize' = None
        /\ i \in DOMAIN AfterKeyCancel /\ pointer' = Held(i, mode, AfterKeyCancel)
    BY <1>2, <2>1 DEF Press, Held
  <2>3. /\ pointer'.id = i /\ pointer'.day = dom.day
        /\ pointer'.current = AfterKeyCancel /\ pointer'.layout = AfterKeyCancel
    BY <1>1, <2>1, <2>2, HeldIs
  <2>4. Proposes(dom.day, AfterKeyCancel, i, AfterKeyCancel)
    BY <1>1, <2>1, <2>2, BeginProposes
  <2> QED BY <2>2, <2>3, <2>4 DEF ProposeInv, ProposesOwn, PointerProposes
<1>3. ASSUME NEW n \in MinDayStart .. MaxDayEnd, Preview(n) PROVE ProposeInv'
  <2>1. /\ pointer # None /\ pointer \in PointerGestures /\ n \in Int
        /\ \E l \in Layouts : /\ Proposes(pointer.day, pointer.current, pointer.id, l)
                              /\ pointer' = [pointer EXCEPT !.at = n, !.layout = l]
        /\ UNCHANGED <<grab, kresize>>
    BY <1>1, <1>3, PreviewIs
  <2>2. PICK l \in Layouts : /\ Proposes(pointer.day, pointer.current, pointer.id, l)
                             /\ pointer' = [pointer EXCEPT !.at = n, !.layout = l]
    BY <2>1
  <2>3. /\ pointer'.id = pointer.id /\ pointer'.day = pointer.day
        /\ pointer'.current = pointer.current /\ pointer'.layout = l
    BY <2>1, <2>2 DEF PointerGestures
  <2> QED BY <2>1, <2>2, <2>3 DEF ProposeInv, ProposesOwn, PointerProposes
<1>4. ASSUME NEW keep \in BOOLEAN, Release(keep) PROVE ProposeInv'
  <2>1. /\ pointer # None /\ UNCHANGED <<grab, kresize>>
        /\ pointer' = [pointer EXCEPT !.phase = "settling", !.layout = IF keep THEN @ ELSE pointer.current]
    BY <1>4 DEF Release
  <2>2. /\ pointer \in PointerGestures /\ pointer.id \in DOMAIN pointer.current
        /\ pointer.day \in Bounds /\ pointer.current \in Layouts
    BY <1>1, <2>1 DEF TabTypes, PointerTyped, PointerGestures
  <2>3. /\ pointer'.id = pointer.id /\ pointer'.day = pointer.day /\ pointer'.current = pointer.current
        /\ pointer'.layout \in {pointer.layout, pointer.current}
    BY <2>1, <2>2 DEF PointerGestures
  <2>4. Proposes(pointer.day, pointer.current, pointer.id, pointer.current)
    BY <2>2, BeginProposes
  <2> QED BY <2>1, <2>3, <2>4 DEF ProposeInv, ProposesOwn, PointerProposes
<1>5. ASSUME \/ PressElsewhere \/ Settle \/ Refresh \/ Foreign \/ Morph \/ UNCHANGED gestureVars
             \/ \E k \in DOMAIN outbox : Serve(k) \/ Unanswered(k)
      PROVE  ProposeInv'
  <2>1. grab' \in {None, grab} /\ kresize' \in {None, kresize} /\ pointer' \in {None, pointer}
    BY <1>5 DEF PressElsewhere, Settle, Serve, Unanswered, Refresh, Foreign, Morph, gestureVars, tab
  <2> QED BY <2>1 DEF ProposeInv, ProposesOwn, PointerProposes
<1> QED BY <1>2, <1>3, <1>4, <1>5, KeyStepProposes DEF GNext, PointerStep

LEMMA ProposeInvHolds == GSpec => []ProposeInv
<1>1. GInit => ProposeInv
  BY DEF GInit, ProposeInv, ProposesOwn, PointerProposes
<1>2. GTypes /\ ProposeInv /\ [GNext]_gestureVars => ProposeInv'
  BY ProposeInvKept
<1> QED BY <1>1, <1>2, TypesKept, PTL DEF GSpec

\* What a proposal must be, whatever it was made from.
Sound(p) == LegalProposal(p) /\ MinimalPush(p) /\ ClosestFirst(p)

\* A proposal made from a legal layout is sound.
LegalStartsPropose == \A p \in Proposals : Legal(p.day, p.start) => Sound(p)

LEMMA ProposesIsSound ==
  ASSUME NEW b \in Bounds, NEW start \in Layouts, NEW id, NEW l,
         Proposes(b, start, id, l), Legal(b, start)
  PROVE  Sound(Proposal(id, b, start, l))
<1> DEFINE D == DOMAIN start
<1>1. D \in SUBSET BlockId /\ start \in [D -> Spot]
  BY LayoutIs
<1>2. l \in [D -> Spot] /\ Legal(b, l) /\ MinimalPush(Proposal(id, b, start, l))
      /\ ClosestFirst(Proposal(id, b, start, l))
  BY DEF Proposes, Pushed
<1>3. LegalProposal(Proposal(id, b, start, l))
  <2>1. D \in SUBSET BlockId
    BY <1>1
  <2>2. start \in [D -> Spot]
    BY <1>1
  <2>3. l \in [D -> Spot] /\ Legal(b, l)
    BY <1>2
  <2> HIDE DEF D
  <2> QED BY <2>1, <2>2, <2>3, LegalIsProposable
<1> QED BY <1>2, <1>3 DEF Sound

\* Who proposes.
LEMMA ProposalsAre ==
  ASSUME NEW p \in Proposals
  PROVE  \/ \E g \in {grab, kresize} : g # None /\ p = Proposal(g.id, g.day, g.start, g.layout)
         \/ pointer # None /\ p = Proposal(pointer.id, pointer.day, pointer.current, pointer.layout)
BY DEF Proposals, Proposal

\* Whatever the user's other tabs did, a gesture that started from a legal column
\* proposes a layout that is legal for it, displaced no farther than needed and
\* compressed from the closest block on: the push cascade of push.js from every
\* legal layout, for a move and for a resize, on both input paths.
THEOREM CascadeIsSound == GSpec => []LegalStartsPropose
<1>1. GTypes /\ ProposeInv => LegalStartsPropose
  <2> SUFFICES ASSUME GTypes, ProposeInv, NEW p \in Proposals, Legal(p.day, p.start)
               PROVE  Sound(p)
    BY DEF LegalStartsPropose
  <2>1. TabTypes
    BY DEF GTypes
  <2>2. ASSUME NEW g \in {grab, kresize}, g # None, p = Proposal(g.id, g.day, g.start, g.layout)
        PROVE  Sound(p)
    <3>1. g.day \in Bounds /\ g.start \in Layouts /\ Proposes(g.day, g.start, g.id, g.layout)
      BY <2>1, <2>2 DEF TabTypes, KeyTyped, KeyGestures, ProposeInv, ProposesOwn
    <3>2. Legal(g.day, g.start)
      BY <2>2 DEF Proposal
    <3> QED BY <2>2, <3>1, <3>2, ProposesIsSound
  <2>3. ASSUME pointer # None,
               p = Proposal(pointer.id, pointer.day, pointer.current, pointer.layout)
        PROVE  Sound(p)
    <3>1. /\ pointer.day \in Bounds /\ pointer.current \in Layouts
          /\ Proposes(pointer.day, pointer.current, pointer.id, pointer.layout)
      BY <2>1, <2>3 DEF TabTypes, PointerTyped, PointerGestures, ProposeInv, PointerProposes
    <3>2. Legal(pointer.day, pointer.current)
      BY <2>3 DEF Proposal
    <3> QED BY <2>3, <3>1, <3>2, ProposesIsSound
  <2> QED BY <2>2, <2>3, ProposalsAre
<1> QED BY <1>1, TypesKept, ProposeInvHolds, PTL

-----------------------------------------------------------------------------
(* With this tab alone, every gesture starts from a legal column.          *)

\* A column the plan could have rendered before blocks were deleted from it.
Past(c) == c.day = bounds[me] /\ Legal(bounds[me], c.layout) /\ Ids(me) \subseteq DOMAIN c.layout

\* Columns shrink from the one shown, over the patches to come, to the plan.
ColumnsShrink ==
  /\ foreign = 0 /\ Past(dom)
  /\ \A k \in 1 .. Len(inbox) :
       Past(inbox[k]) /\ DOMAIN inbox[k].layout \subseteq DOMAIN dom.layout
  /\ \A j, k \in 1 .. Len(inbox) :
       j < k => DOMAIN inbox[k].layout \subseteq DOMAIN inbox[j].layout

StartIsLegal(g) ==
  g # None => /\ g.day = bounds[me] /\ Legal(bounds[me], g.start)
              /\ DOMAIN dom.layout \subseteq DOMAIN g.start

SourceInv == ColumnsShrink /\ StartIsLegal(grab) /\ StartIsLegal(kresize)

LEMMA WriteIsLegal ==
  ASSUME NEW b, NEW l \in Layouts, NEW shown \in Layouts, Legal(b, l),
         DOMAIN shown \subseteq DOMAIN l
  PROVE  Legal(b, Write(l, shown))
<1>1. /\ DOMAIN Write(l, shown) = DOMAIN shown
      /\ \A i \in DOMAIN shown : Write(l, shown)[i] = l[i]
  BY WriteIs
<1> QED BY <1>1 DEF Legal

\* The column keeps its day and its blocks, and stays legal.
Redrawn ==
  dom'.day = dom.day /\ DOMAIN dom'.layout = DOMAIN dom.layout /\ Legal(bounds[me], dom'.layout)

LEMMA RedrawKeepsSource ==
  ASSUME SourceInv, Redrawn, UNCHANGED <<block, bounds, inbox, foreign>>
  PROVE  /\ ColumnsShrink' /\ (grab' \in {None, grab} => StartIsLegal(grab)')
         /\ (kresize' \in {None, kresize} => StartIsLegal(kresize)')
<1>1. Ids(me)' = Ids(me)
  BY DEF Ids
<1>2. \A c : Past(c)' <=> Past(c)
  BY <1>1 DEF Past
<1>3. Past(dom)'
  BY <1>1 DEF SourceInv, ColumnsShrink, Past, Redrawn
<1>4. ColumnsShrink'
  BY <1>1, <1>3 DEF SourceInv, ColumnsShrink, Past, Redrawn
<1> QED BY <1>4 DEF SourceInv, StartIsLegal, Redrawn

\* What a keyboard gesture may write over the column.
LEMMA WriteRedraws ==
  ASSUME GTypes, SourceInv, NEW l \in Layouts, Legal(bounds[me], l),
         DOMAIN dom.layout \subseteq DOMAIN l, dom' \in Columns, dom'.day = dom.day,
         dom'.layout = Write(l, dom.layout)
  PROVE  Redrawn
<1>1. dom.layout \in Layouts
  BY DEF GTypes, TabTypes, Columns
<1>2. DOMAIN dom'.layout = DOMAIN dom.layout
  BY <1>1, WriteIs
<1>3. Legal(bounds[me], Write(l, dom.layout))
  BY <1>1, WriteIsLegal
<1> QED BY <1>2, <1>3 DEF Redrawn

LEMMA SameRedraws ==
  ASSUME SourceInv, dom'.day = dom.day, dom'.layout = dom.layout
  PROVE  Redrawn
BY DEF SourceInv, ColumnsShrink, Past, Redrawn

LEMMA CancelIsLegal ==
  ASSUME GTypes, SourceInv
  PROVE  /\ AfterKeyCancel \in Layouts /\ DOMAIN AfterKeyCancel = DOMAIN dom.layout
         /\ Legal(bounds[me], AfterKeyCancel)
<1> DEFINE afterGrab == IF grab = None THEN dom.layout ELSE Write(grab.start, dom.layout)
<1>1. /\ TabTypes /\ dom.layout \in Layouts
      /\ grab # None => grab.start \in Layouts
      /\ kresize # None => kresize.start \in Layouts
  BY DEF GTypes, TabTypes, Columns, KeyTyped, KeyGestures
<1>2. Legal(bounds[me], dom.layout)
  BY DEF SourceInv, ColumnsShrink, Past
<1>3. afterGrab \in Layouts /\ DOMAIN afterGrab = DOMAIN dom.layout /\ Legal(bounds[me], afterGrab)
  <2>1. CASE grab = None
    BY <1>1, <1>2, <2>1
  <2>2. CASE grab # None
    <3>1. Legal(bounds[me], grab.start) /\ DOMAIN dom.layout \subseteq DOMAIN grab.start
      BY <2>2 DEF SourceInv, StartIsLegal
    <3>2. Legal(bounds[me], Write(grab.start, dom.layout))
      BY <1>1, <2>2, <3>1, WriteIsLegal
    <3> QED BY <1>1, <2>2, <3>2, WriteIs
  <2> QED BY <2>1, <2>2
<1>4. AfterKeyCancel = IF kresize = None THEN afterGrab ELSE Write(kresize.start, afterGrab)
  BY DEF AfterKeyCancel
<1> HIDE DEF afterGrab
<1>5. CASE kresize = None
  BY <1>3, <1>4, <1>5
<1>6. CASE kresize # None
  <2>1. Legal(bounds[me], kresize.start) /\ DOMAIN afterGrab \subseteq DOMAIN kresize.start
    BY <1>3, <1>6 DEF SourceInv, StartIsLegal
  <2>2. Legal(bounds[me], Write(kresize.start, afterGrab))
    BY <1>1, <1>3, <1>6, <2>1, WriteIsLegal
  <2> QED BY <1>1, <1>3, <1>4, <1>6, <2>2, WriteIs
<1> QED BY <1>5, <1>6

\* What a gesture from a legal start proposes may be written.
LEMMA ProposalRedraws ==
  ASSUME GTypes, SourceInv, NEW start \in Layouts, NEW id, NEW l \in Layouts,
         Legal(bounds[me], start), DOMAIN dom.layout \subseteq DOMAIN start,
         Proposes(bounds[me], start, id, l),
         dom' \in Columns, dom'.day = dom.day, dom'.layout = Write(l, dom.layout)
  PROVE  Redrawn
<1>1. Legal(bounds[me], l) /\ DOMAIN dom.layout \subseteq DOMAIN l
  BY DEF Proposes, Pushed
<1> QED BY <1>1, WriteRedraws

LEMMA KeyStepKeepsSource ==
  ASSUME GTypes, ProposeInv, SourceInv, KeyStep
  PROVE  SourceInv'
<1>1. /\ TabTypes /\ dom \in Columns /\ dom.layout \in Layouts /\ outbox \in Seq(Requests)
      /\ dom.day = bounds[me] /\ Legal(bounds[me], dom.layout)
  BY DEF GTypes, TabTypes, Columns, SourceInv, ColumnsShrink, Past
<1>2. ASSUME NEW g \in {grab, kresize}, g # None
      PROVE  /\ g \in KeyGestures /\ g.start \in Layouts /\ g.layout \in Layouts
             /\ g.day = bounds[me] /\ Legal(bounds[me], g.start)
             /\ DOMAIN dom.layout \subseteq DOMAIN g.start
             /\ Proposes(bounds[me], g.start, g.id, g.layout)
             /\ Proposes(bounds[me], g.start, g.id, g.start)
  <2>1. g \in KeyGestures /\ g.day \in Bounds /\ g.start \in Layouts /\ g.layout \in Layouts
        /\ g.id \in DOMAIN g.start
    BY <1>1, <1>2 DEF TabTypes, KeyTyped, KeyGestures
  <2>2. /\ g.day = bounds[me] /\ Legal(bounds[me], g.start)
        /\ DOMAIN dom.layout \subseteq DOMAIN g.start
    BY <1>2 DEF SourceInv, StartIsLegal
  <2>3. Proposes(g.day, g.start, g.id, g.layout)
    BY <1>2 DEF ProposeInv, ProposesOwn
  <2>4. Proposes(g.day, g.start, g.id, g.start)
    BY <2>1, BeginProposes
  <2> QED BY <2>1, <2>2, <2>3, <2>4
<1>3. ASSUME NEW i \in BlockId, KeyGrab(i) PROVE SourceInv'
  <2>1. /\ i \in DOMAIN dom.layout
        /\ grab' = Begun(i, dom.layout[i].slot)
        /\ UNCHANGED <<block, bounds, dom, kresize, inbox, foreign>>
    BY <1>3 DEF KeyGrab, Begun
  <2>2. dom.layout[i].slot \in Int
    BY <1>1, <2>1, LayoutIs
  <2>3. grab'.day = dom.day /\ grab'.start = dom.layout
    BY <1>1, <2>1, <2>2, BegunIs
  <2>4. ColumnsShrink' /\ StartIsLegal(kresize)'
    BY <1>1, <2>1, SameRedraws, RedrawKeepsSource
  <2> QED BY <1>1, <2>1, <2>3, <2>4 DEF SourceInv, StartIsLegal
<1>4. ASSUME NEW i \in BlockId, KeyDelete(i) PROVE SourceInv'
  <2>1. UNCHANGED <<block, bounds, dom, grab, kresize, inbox, foreign>>
    BY <1>4 DEF KeyDelete, tab
  <2>2. Redrawn
    BY <2>1, SameRedraws
  <2> QED BY <2>1, <2>2, RedrawKeepsSource DEF SourceInv
<1>5. ASSUME NEW step \in {-1, 1}, KeyMove(step) PROVE SourceInv'
  <2>1. /\ grab # None /\ UNCHANGED <<block, bounds, kresize, inbox, foreign>>
        /\ \E n \in Int, l \in Layouts :
             Proposes(grab.day, grab.start, grab.id, l) /\ grab' = Stepped(grab, n, l) /\ Shows(l)
    BY <1>1, <1>5, KeyMoveIs
  <2>2. PICK n \in Int, l \in Layouts :
          Proposes(grab.day, grab.start, grab.id, l) /\ grab' = Stepped(grab, n, l) /\ Shows(l)
    BY <2>1
  <2>3. /\ grab \in KeyGestures /\ grab.start \in Layouts
        /\ grab.day = bounds[me] /\ Legal(bounds[me], grab.start)
        /\ DOMAIN dom.layout \subseteq DOMAIN grab.start
    BY <1>2, <2>1
  <2>4. grab'.day = grab.day /\ grab'.start = grab.start
    BY <2>2, <2>3, SteppedIs
  <2>5. dom' \in Columns /\ dom'.day = dom.day /\ dom'.layout = Write(l, dom.layout)
    BY <1>1, <2>2, ShowsIs
  <2>6. Proposes(bounds[me], grab.start, grab.id, l)
    BY <2>2, <2>3
  <2>7. Redrawn
    BY <2>3, <2>5, <2>6, ProposalRedraws
  <2>8. ColumnsShrink' /\ StartIsLegal(kresize)'
    BY <2>1, <2>7, RedrawKeepsSource
  <2> QED BY <2>1, <2>3, <2>4, <2>7, <2>8 DEF SourceInv, StartIsLegal, Redrawn
<1>6. ASSUME NEW i \in BlockId, NEW key \in {"ArrowDown", "ArrowUp", "Home", "End"}, KeyResize(i, key)
      PROVE  SourceInv'
  <2>1. i \in DOMAIN dom.layout /\ UNCHANGED <<block, bounds, grab, inbox, foreign>>
    BY <1>1, <1>6, KeyResizeIs
  <2>2. PICK r \in KeyGestures :
          /\ r = (IF kresize # None THEN kresize ELSE Begun(i, dom.layout[i].span))
          /\ \/ kresize' = r /\ UNCHANGED dom
             \/ \E n \in Int, l \in Layouts :
                  Proposes(r.day, r.start, r.id, l) /\ kresize' = Stepped(r, n, l) /\ Shows(l)
    BY <1>1, <1>6, KeyResizeIs
  <2>3. /\ r.start \in Layouts /\ r.day = bounds[me] /\ Legal(bounds[me], r.start)
        /\ DOMAIN dom.layout \subseteq DOMAIN r.start
    <3>1. CASE kresize # None
      BY <1>2, <2>2, <3>1
    <3>2. CASE kresize = None
      BY <1>1, <2>2, <3>2 DEF Begun
    <3> QED BY <3>1, <3>2
  <2>4. /\ kresize'.day = r.day /\ kresize'.start = r.start
        /\ Redrawn
    <3>1. CASE kresize' = r /\ UNCHANGED dom
      BY <3>1, SameRedraws
    <3>2. ASSUME NEW n \in Int, NEW l \in Layouts,
                 Proposes(r.day, r.start, r.id, l), kresize' = Stepped(r, n, l), Shows(l)
          PROVE  kresize'.day = r.day /\ kresize'.start = r.start /\ Redrawn
      <4>1. kresize'.day = r.day /\ kresize'.start = r.start
        BY <3>2, SteppedIs
      <4>2. dom' \in Columns /\ dom'.day = dom.day /\ dom'.layout = Write(l, dom.layout)
        BY <1>1, <3>2, ShowsIs
      <4>3. Proposes(bounds[me], r.start, r.id, l)
        BY <2>3, <3>2
      <4>4. Redrawn
        BY <2>3, <4>2, <4>3, ProposalRedraws
      <4> QED BY <4>1, <4>4
    <3> QED BY <2>2, <3>1, <3>2
  <2>5. ColumnsShrink' /\ StartIsLegal(grab)'
    BY <2>1, <2>4, RedrawKeepsSource
  <2> QED BY <2>1, <2>3, <2>4, <2>5 DEF SourceInv, StartIsLegal, Redrawn
<1>7. ASSUME NEW g \in {grab, kresize}, g # None, Commit(g.id, g.start, g.layout, dom.layout),
             grab' \in {None, grab}, kresize' \in {None, kresize},
             UNCHANGED <<block, bounds, inbox, foreign>>
      PROVE  SourceInv'
  <2>1. /\ g.start \in Layouts /\ g.layout \in Layouts /\ Legal(bounds[me], g.start)
        /\ DOMAIN dom.layout \subseteq DOMAIN g.start
        /\ Proposes(bounds[me], g.start, g.id, g.layout)
    BY <1>2, <1>7
  <2>2. /\ dom' \in Columns /\ dom'.day = dom.day
        /\ dom'.layout = dom.layout \/ dom'.layout = Write(g.layout, dom.layout)
    BY <1>1, <1>7, <2>1, CommitIs
  <2>3. Redrawn
    BY <2>1, <2>2, SameRedraws, ProposalRedraws
  <2> QED BY <1>7, <2>3, RedrawKeepsSource DEF SourceInv
<1>8. ASSUME NEW g \in {grab, kresize}, g # None, Shows(g.start),
             grab' \in {None, grab}, kresize' \in {None, kresize},
             UNCHANGED <<block, bounds, inbox, foreign>>
      PROVE  SourceInv'
  <2>1. /\ g.start \in Layouts /\ Legal(bounds[me], g.start)
        /\ DOMAIN dom.layout \subseteq DOMAIN g.start
    BY <1>2, <1>8
  <2>2. dom' \in Columns /\ dom'.day = dom.day /\ dom'.layout = Write(g.start, dom.layout)
    BY <1>1, <1>8, <2>1, ShowsIs
  <2>3. Redrawn
    BY <2>1, <2>2, WriteRedraws
  <2> QED BY <1>8, <2>3, RedrawKeepsSource DEF SourceInv
<1>9. CASE KeyDrop
  BY <1>7, <1>9 DEF KeyDrop
<1>10. CASE KeyResizeCommit
  BY <1>7, <1>10 DEF KeyResizeCommit
<1>11. CASE KeyCancel
  BY <1>8, <1>11 DEF KeyCancel, Shows
<1>12. CASE KeyResizeCancel
  BY <1>8, <1>12 DEF KeyResizeCancel, Shows
<1> QED BY <1>3, <1>4, <1>5, <1>6, <1>9, <1>10, <1>11, <1>12 DEF KeyStep

LEMMA PointerStepKeepsSource ==
  ASSUME GTypes, PointerInv, ProposeInv, SourceInv, PointerStep
  PROVE  SourceInv'
<1>1. /\ TabTypes /\ dom \in Columns /\ dom.layout \in Layouts
      /\ dom.day = bounds[me] /\ Legal(bounds[me], dom.layout)
  BY DEF GTypes, TabTypes, Columns, SourceInv, ColumnsShrink, Past
<1>2. CASE (\E i \in BlockId, mode \in {"drag", "resize"} : Press(i, mode)) \/ PressElsewhere
  <2>1. /\ grab' = None /\ kresize' = None
        /\ dom' = [dom EXCEPT !.layout = AfterKeyCancel]
        /\ UNCHANGED <<block, bounds, inbox, foreign>>
    BY <1>2 DEF Press, PressElsewhere
  <2>2. Redrawn
    BY <1>1, <2>1, CancelIsLegal DEF Columns, Redrawn
  <2> QED BY <2>1, <2>2, RedrawKeepsSource DEF SourceInv
<1>3. CASE (\E n \in MinDayStart .. MaxDayEnd : Preview(n)) \/ (\E keep \in BOOLEAN : Release(keep))
  <2>1. UNCHANGED <<block, bounds, dom, grab, kresize, inbox, foreign>>
    BY <1>3 DEF Preview, Release
  <2>2. Redrawn
    BY <2>1, SameRedraws
  <2> QED BY <2>1, <2>2, RedrawKeepsSource DEF SourceInv
<1>4. CASE Settle
  <2>1. /\ pointer # None /\ dom' \in Columns
        /\ \/ dom' = dom
           \/ /\ dom.layout = pointer.current
              /\ dom'.day = dom.day /\ dom'.layout = Write(pointer.layout, dom.layout)
        /\ UNCHANGED <<block, bounds, grab, kresize, inbox, foreign>>
    BY <1>1, <1>4, SettleIs
  <2>2. Redrawn
    <3>1. CASE dom' = dom
      BY <3>1, SameRedraws
    <3>2. CASE /\ dom.layout = pointer.current
               /\ dom'.day = dom.day /\ dom'.layout = Write(pointer.layout, dom.layout)
      <4>1. pointer.day = bounds[me] /\ pointer.layout \in Layouts
        BY <1>1, <2>1 DEF PointerInv, TabTypes, PointerTyped, PointerGestures
      <4>2. Proposes(bounds[me], dom.layout, pointer.id, pointer.layout)
        BY <2>1, <3>2, <4>1 DEF ProposeInv, PointerProposes
      <4> QED BY <1>1, <2>1, <3>2, <4>1, <4>2, ProposalRedraws
    <3> QED BY <2>1, <3>1, <3>2
  <2> QED BY <2>1, <2>2, RedrawKeepsSource DEF SourceInv
<1> QED BY <1>2, <1>3, <1>4 DEF PointerStep

LEMMA SendKeepsSource ==
  ASSUME GTypes, SourceInv, ColumnSound', bounds' = bounds, Ids(me)' \subseteq Ids(me),
         inbox' = Append(inbox, Column'), UNCHANGED <<dom, grab, kresize, foreign>>
  PROVE  SourceInv'
<1>1. /\ ColumnSound' /\ bounds' = bounds /\ Ids(me)' \subseteq Ids(me)
      /\ inbox' = Append(inbox, Column')
      /\ UNCHANGED <<dom, grab, kresize, foreign>>
  OBVIOUS
<1> DEFINE n == Len(inbox) + 1
           Still(c) == c.day = bounds[me] /\ Legal(bounds[me], c.layout) /\ Ids(me)' \subseteq DOMAIN c.layout
<1>2. inbox \in Seq(Columns) /\ Len(inbox) \in Nat
  BY DEF GTypes, TabTypes
<1>3. /\ Column'.day = bounds[me] /\ Legal(bounds[me], Column'.layout)
      /\ DOMAIN Column'.layout = Ids(me)' /\ Column' \in Columns
  BY <1>1 DEF ColumnSound
<1>4. \A c : Past(c) => Still(c) /\ DOMAIN Column'.layout \subseteq DOMAIN c.layout
  BY <1>1, <1>3 DEF Past
<1>5. /\ Len(inbox') = n /\ inbox'[n] = Column'
      /\ \A j \in 1 .. Len(inbox) : inbox'[j] = inbox[j]
  BY <1>1, <1>2, <1>3
<1>6. /\ \A j \in 1 .. n : j # n => j \in 1 .. Len(inbox)
      /\ \A j, m \in 1 .. n : j < m => j \in 1 .. Len(inbox)
  BY <1>2
<1> HIDE DEF n
<1>7. Still(dom) /\ Still(Column') /\ DOMAIN Column'.layout \subseteq DOMAIN dom.layout
  BY <1>3, <1>4 DEF SourceInv, ColumnsShrink
<1>8. \A j \in 1 .. n : Still(inbox'[j]) /\ DOMAIN inbox'[j].layout \subseteq DOMAIN dom.layout
  <2> SUFFICES ASSUME NEW j \in 1 .. n
               PROVE  Still(inbox'[j]) /\ DOMAIN inbox'[j].layout \subseteq DOMAIN dom.layout
    OBVIOUS
  <2> HIDE DEF Still
  <2>1. CASE j = n
    BY <1>5, <1>7, <2>1
  <2>2. CASE j # n
    <3>1. j \in 1 .. Len(inbox) /\ inbox'[j] = inbox[j]
      BY <1>5, <1>6, <2>2
    <3>2. Past(inbox[j]) /\ DOMAIN inbox[j].layout \subseteq DOMAIN dom.layout
      BY <3>1 DEF SourceInv, ColumnsShrink
    <3> QED BY <1>4, <3>1, <3>2
  <2> QED BY <2>1, <2>2
<1>9. \A j, m \in 1 .. n : j < m => DOMAIN inbox'[m].layout \subseteq DOMAIN inbox'[j].layout
  <2> SUFFICES ASSUME NEW j \in 1 .. n, NEW m \in 1 .. n, j < m
               PROVE  DOMAIN inbox'[m].layout \subseteq DOMAIN inbox'[j].layout
    OBVIOUS
  <2>1. j \in 1 .. Len(inbox) /\ inbox'[j] = inbox[j]
    BY <1>5, <1>6
  <2>2. CASE m = n
    BY <1>4, <1>5, <2>1, <2>2 DEF SourceInv, ColumnsShrink
  <2>3. CASE m # n
    <3>1. m \in 1 .. Len(inbox) /\ inbox'[m] = inbox[m]
      BY <1>5, <1>6, <2>3
    <3> QED BY <2>1, <3>1 DEF SourceInv, ColumnsShrink
  <2> QED BY <2>2, <2>3
<1>10. ColumnsShrink'
  <2>1. foreign' = 0 /\ Past(dom)'
    BY <1>1, <1>7 DEF SourceInv, ColumnsShrink, Past
  <2>2. (\A j \in 1 .. Len(inbox) : Past(inbox[j]) /\ DOMAIN inbox[j].layout \subseteq DOMAIN dom.layout)'
    BY <1>1, <1>5, <1>8 DEF Past
  <2>3. (\A j, m \in 1 .. Len(inbox) : j < m => DOMAIN inbox[m].layout \subseteq DOMAIN inbox[j].layout)'
    BY <1>5, <1>9
  <2> QED BY <2>1, <2>2, <2>3 DEF ColumnsShrink
<1> QED BY <1>1, <1>10 DEF SourceInv, StartIsLegal

\* A request that ends without a column leaves its gesture on the screen.
LEMMA UnansweredKeepsSource ==
  ASSUME GTypes, SourceInv, NEW k \in DOMAIN outbox, Unanswered(k)
  PROVE  SourceInv'
<1>1. /\ bounds' = bounds /\ Ids(me)' \subseteq Ids(me)
      /\ UNCHANGED <<dom, grab, kresize, inbox, foreign>>
  BY UnansweredIs
<1>2. \A c : Past(c) => c.day = bounds[me] /\ Legal(bounds[me], c.layout) /\ Ids(me)' \subseteq DOMAIN c.layout
  BY <1>1 DEF Past
<1>3. Past(dom)'
  BY <1>1, <1>2 DEF SourceInv, ColumnsShrink, Past
<1>4. \A j \in 1 .. Len(inbox) : Past(inbox[j]) /\ DOMAIN inbox[j].layout \subseteq DOMAIN dom.layout
  BY DEF SourceInv, ColumnsShrink
<1>5. (\A j \in 1 .. Len(inbox) : Past(inbox[j]) /\ DOMAIN inbox[j].layout \subseteq DOMAIN dom.layout)'
  BY <1>1, <1>2, <1>4 DEF Past
<1>6. ColumnsShrink'
  BY <1>1, <1>3, <1>5 DEF SourceInv, ColumnsShrink
<1> QED BY <1>1, <1>6 DEF SourceInv, StartIsLegal

LEMMA MorphKeepsSource ==
  ASSUME GTypes, SourceInv, Morph
  PROVE  SourceInv'
<1>1. /\ inbox # << >> /\ dom' = inbox[1] /\ inbox' = Tail(inbox)
      /\ UNCHANGED <<block, bounds, grab, kresize, foreign>>
  BY MorphIs
<1>2. inbox \in Seq(Columns) /\ Len(inbox) \in Nat /\ Len(inbox) # 0
  BY <1>1 DEF GTypes, TabTypes
<1>3. /\ 1 \in 1 .. Len(inbox)
      /\ \A j \in 1 .. Len(inbox') : /\ j + 1 \in 1 .. Len(inbox) /\ inbox'[j] = inbox[j + 1]
                                     /\ 1 < j + 1
      /\ \A j, m \in 1 .. Len(inbox') : j < m => j + 1 < m + 1
  <2>1. Len(inbox') = Len(inbox) - 1
    BY <1>1, <1>2
  <2>2. \A j \in 1 .. Len(inbox') : inbox'[j] = inbox[j + 1]
    BY <1>1, <1>2
  <2> QED BY <1>2, <2>1, <2>2
<1>4. Ids(me)' = Ids(me)
  BY <1>1 DEF Ids
<1>5. Past(inbox[1]) /\ DOMAIN inbox[1].layout \subseteq DOMAIN dom.layout
  BY <1>3 DEF SourceInv, ColumnsShrink
<1>6. foreign' = 0 /\ Past(dom)'
  BY <1>1, <1>4, <1>5 DEF SourceInv, ColumnsShrink, Past
<1>7. \A j \in 1 .. Len(inbox') :
        Past(inbox'[j]) /\ DOMAIN inbox'[j].layout \subseteq DOMAIN dom'.layout
  BY <1>1, <1>3 DEF SourceInv, ColumnsShrink
<1>8. (\A j, m \in 1 .. Len(inbox) : j < m => DOMAIN inbox[m].layout \subseteq DOMAIN inbox[j].layout)'
  BY <1>3 DEF SourceInv, ColumnsShrink
<1>9. (\A j \in 1 .. Len(inbox) : Past(inbox[j]) /\ DOMAIN inbox[j].layout \subseteq DOMAIN dom.layout)'
  BY <1>1, <1>4, <1>7 DEF Past
<1>10. ColumnsShrink'
  BY <1>6, <1>8, <1>9 DEF ColumnsShrink
<1>11. \A g : StartIsLegal(g) => (g # None => DOMAIN dom'.layout \subseteq DOMAIN g.start)
  BY <1>1, <1>5 DEF StartIsLegal
<1> QED BY <1>1, <1>10, <1>11 DEF SourceInv, StartIsLegal

LEMMA SourceInvKept ==
  ASSUME MaxForeign = 0, GTypes, PointerInv, ProposeInv, SourceInv, [GNext]_gestureVars
  PROVE  SourceInv'
<1>1. ~Foreign
  BY DEF Foreign, SourceInv, ColumnsShrink
<1>2. CASE UNCHANGED gestureVars
  BY <1>2 DEF gestureVars, SourceInv, ColumnsShrink, StartIsLegal, Past, Ids
<1>3. CASE \E k \in DOMAIN outbox : Serve(k)
  BY <1>3, ServeIs, SendKeepsSource
<1>4. CASE Refresh
  BY <1>4, RefreshIs, SendKeepsSource
<1> QED BY <1>1, <1>2, <1>3, <1>4, KeyStepKeepsSource, PointerStepKeepsSource, UnansweredKeepsSource,
           MorphKeepsSource DEF GNext

LEMMA SourceInvHolds == MaxForeign = 0 => (GSpec => []SourceInv)
<1> SUFFICES ASSUME MaxForeign = 0 PROVE GSpec => []SourceInv
  OBVIOUS
<1>1. GInit => SourceInv
  <2> SUFFICES ASSUME GInit PROVE SourceInv
    OBVIOUS
  <2>1. dom = Column /\ ColumnSound
    BY GInitPlanInv, ColumnIsSound DEF GInit
  <2>2. Past(dom)
    BY <2>1 DEF ColumnSound, Past
  <2> QED BY <2>2 DEF GInit, SourceInv, ColumnsShrink, StartIsLegal
<1>2. GTypes /\ PointerInv /\ ProposeInv /\ SourceInv /\ [GNext]_gestureVars => SourceInv'
  BY SourceInvKept
<1> QED BY <1>1, <1>2, TypesKept, PointerInvHolds, ProposeInvHolds, PTL DEF GSpec

\* Every proposal is sound.
AllSound == \A p \in Proposals : Sound(p)

LEMMA ProposalsSound == MaxForeign = 0 => (GSpec => []AllSound)
<1> SUFFICES ASSUME MaxForeign = 0 PROVE GSpec => []AllSound
  OBVIOUS
<1>1. PointerInv /\ SourceInv /\ LegalStartsPropose => AllSound
  <2> SUFFICES ASSUME PointerInv, SourceInv, LegalStartsPropose, NEW p \in Proposals
               PROVE  Sound(p)
    BY DEF AllSound
  <2>1. Legal(p.day, p.start)
    <3>1. ASSUME NEW g \in {grab, kresize}, g # None, p = Proposal(g.id, g.day, g.start, g.layout)
          PROVE  Legal(p.day, p.start)
      BY <3>1 DEF Proposal, SourceInv, StartIsLegal
    <3>2. ASSUME pointer # None,
                 p = Proposal(pointer.id, pointer.day, pointer.current, pointer.layout)
          PROVE  Legal(p.day, p.start)
      <4>1. dom.day = pointer.day /\ dom.layout = pointer.current
        BY <3>2 DEF PointerInv
      <4> QED BY <3>2, <4>1 DEF Proposal, SourceInv, ColumnsShrink, Past
    <3> QED BY <3>1, <3>2, ProposalsAre
  <2> QED BY <2>1 DEF LegalStartsPropose
<1> QED BY <1>1, PointerInvHolds, SourceInvHolds, CascadeIsSound, PTL

\* As long as no other tab edits the plan, every proposal of every gesture is a layout
\* ValidateLayout accepts for the column it started from: pushLayout keeps the blocks,
\* their spans positive, inside the day and apart.
THEOREM ProposalsStayLegal == MaxForeign = 0 => (GSpec => []ProposalsLegal)
<1> SUFFICES ASSUME MaxForeign = 0 PROVE GSpec => []ProposalsLegal
  OBVIOUS
<1>1. AllSound => ProposalsLegal
  BY DEF AllSound, Sound, ProposalsLegal
<1> QED BY <1>1, ProposalsSound, PTL

\* Under the same hypothesis a displaced block slides toward the vacated slot, no farther
\* than the run that pushes it, and keeps its span; a resize moves none up.
THEOREM PushStaysMinimal == MaxForeign = 0 => (GSpec => []PushMinimal)
<1> SUFFICES ASSUME MaxForeign = 0 PROVE GSpec => []PushMinimal
  OBVIOUS
<1>1. AllSound => PushMinimal
  BY DEF AllSound, Sound, PushMinimal
<1> QED BY <1>1, ProposalsSound, PTL

\* Under the same hypothesis a grow shortens the closest block below first, and only when
\* the blocks below, packed tight, fill the day to its end (compressBelow).
THEOREM CompressStaysClosestFirst == MaxForeign = 0 => (GSpec => []CompressClosestFirst)
<1> SUFFICES ASSUME MaxForeign = 0 PROVE GSpec => []CompressClosestFirst
  OBVIOUS
<1>1. AllSound => CompressClosestFirst
  BY DEF AllSound, Sound, CompressClosestFirst
<1> QED BY <1>1, ProposalsSound, PTL

\* No size up to the largest one accepted is refused.
LEMMA NoSizeIsSkipped ==
  ASSUME NEW b \in Bounds, NEW l \in Layouts, Legal(b, l), NEW id \in DOMAIN l,
         NEW n \in 1 .. MaxResizeSpan(b, l, id)
  PROVE  Push(b, l, id, Resized(l, id, n), TRUE) # NoLayout
<1> DEFINE D == DOMAIN l
           below == BelowOf(l, id, l[id])
           spans == {m \in 2 .. (b.end - l[id].slot) : Push(b, l, id, Resized(l, id, m), TRUE) # NoLayout}
<1>1. D \in SUBSET BlockId /\ l \in [D -> Spot] /\ id \in D
  BY LayoutIs
<1>2. ASSUME NEW m \in Int, m >= 1
      PROVE  IF Growable(b, l, id, m) THEN Push(b, l, id, Resized(l, id, m), TRUE) # NoLayout
             ELSE Push(b, l, id, Resized(l, id, m), TRUE) = NoLayout
  <2>1. D \in SUBSET BlockId
    BY <1>1
  <2>2. l \in [D -> Spot]
    BY <1>1
  <2> HIDE DEF D
  <2>3. id \in D
    BY <1>1
  <2> QED BY <1>2, <2>1, <2>2, <2>3, ResizeAccepted
<1>3. /\ b.end \in Int /\ l[id].slot \in Int /\ l[id].span \in Int /\ l[id].span >= 1
      /\ l[id].slot + l[id].span <= b.end
  BY <1>1 DEF Bounds, Spot, Legal, Fits
<1>4. Cardinality(below) \in Nat
  <2>1. below \in SUBSET BlockId
    BY <1>1 DEF BelowOf
  <2> QED BY <2>1, IdAssumption, FS_Subset, FS_CardinalityType
<1> DEFINE largest == MaxResizeSpan(b, l, id)
<1>5. largest \in Int
  BY MaxResizeSpanIs
<1>6. largest >= 1 /\ Growable(b, l, id, largest)
  <2>1. MaxResizeSpan(b, l, id) = IF spans = {} THEN 1 ELSE CHOOSE m \in spans : \A k \in spans : m >= k
    BY DEF MaxResizeSpan
  <2>2. \A m \in Int : m \in spans <=> (2 <= m /\ m <= b.end - l[id].slot /\ Growable(b, l, id, m))
    <3> DEFINE far == b.end - l[id].slot
    <3>1. far \in Int
      BY <1>3
    <3> HIDE DEF far
    <3>2. \A m : m \in spans <=> (m \in 2 .. far /\ Push(b, l, id, Resized(l, id, m), TRUE) # NoLayout)
      BY DEF far
    <3> HIDE DEF spans
    <3>3. \A m \in Int : m \in 2 .. far <=> (2 <= m /\ m <= far)
      BY <3>1
    <3>4. ASSUME NEW m \in Int PROVE m \in spans <=> (2 <= m /\ m <= far /\ Growable(b, l, id, m))
      <4>1. CASE 2 <= m
        <5>1. m >= 1
          BY <4>1
        <5>2. IF Growable(b, l, id, m) THEN Push(b, l, id, Resized(l, id, m), TRUE) # NoLayout
              ELSE Push(b, l, id, Resized(l, id, m), TRUE) = NoLayout
          BY <1>2, <5>1
        <5> QED BY <3>2, <3>3, <4>1, <5>2
      <4>2. CASE ~(2 <= m)
        BY <3>2, <3>3, <4>2
      <4> QED BY <4>1, <4>2
    <3> QED BY <3>4 DEF far
  <2>3. spans \subseteq Int /\ \A m \in spans : m <= b.end - l[id].slot
    <3> DEFINE far == b.end - l[id].slot
    <3>1. far \in Int
      BY <1>3
    <3> HIDE DEF far
    <3>2. \A m \in spans : m \in 2 .. far
      BY DEF far
    <3> HIDE DEF spans
    <3>3. spans \subseteq Int /\ \A m \in spans : m <= far
      BY <3>1, <3>2
    <3> QED BY <3>3 DEF far
  <2> HIDE DEF spans
  <2>4. CASE spans = {}
    <3>1. largest = 1
      BY <2>1, <2>4
    <3>2. Growable(b, l, id, l[id].span)
      <4>1. l = [l EXCEPT ![id] = l[id]] /\ Resized(l, id, l[id].span) = l[id]
        BY <1>1 DEF Resized, Spot
      <4> DEFINE from == l[id].slot + l[id].span
      <4>2. below \in SUBSET D /\ \A j \in below : l[j].slot > l[id].slot
        BY DEF BelowOf
      <4>3. \A j \in below : l[j].slot >= from
        BY <1>1, <4>2, BelowIsApart
      <4>4. from \in Int /\ from <= b.end
        BY <1>3
      <4> HIDE DEF from, below
      <4>5. Total(Spans(l), below) <= b.end - from
        BY <1>1, <4>2, <4>3, <4>4, RunsFit
      <4>6. IsFiniteSet(below) /\ \A j \in below : Spans(l)[j] \in Int /\ Spans(l)[j] >= 1
        <5>1. \A j \in D : Spans(l)[j] \in Int /\ Spans(l)[j] >= 1
          BY <1>1 DEF Spans, Spot, Legal
        <5>2. below \in SUBSET BlockId
          BY <1>1, <4>2
        <5> QED BY <4>2, <5>1, <5>2, IdAssumption, FS_Subset
      <4>7. {} \in SUBSET below /\ below \ {} = below /\ Total(Spans(l), {}) = 0
        BY <4>6, TotalFold
      <4>8. Total(Spans(l), below) >= Total(Spans(l), {}) + Cardinality(below \ {})
        BY <4>6, <4>7, TotalGrows
      <4>9. Total(Spans(l), below) \in Int
        BY <4>6, TotalType
      <4>10. Cardinality(below) <= b.end - from
        BY <1>3, <1>4, <4>4, <4>5, <4>7, <4>8, <4>9
      <4> QED BY <1>3, <4>10 DEF Growable, from, below
    <3>3. Growable(b, l, id, 1)
      <4> HIDE DEF below
      <4> QED BY <1>3, <1>4, <3>2 DEF Growable, below
    <3> QED BY <3>1, <3>3
  <2>5. CASE spans # {}
    <3>1. \E m \in spans : \A k \in spans : m >= k
      <4>1. b.end - l[id].slot \in Int
        BY <1>3
      <4> QED BY <2>3, <2>5, <4>1, GreatestInt
    <3>2. largest \in spans
      BY <2>1, <2>5, <3>1
    <3> QED BY <1>5, <2>2, <3>2
  <2> QED BY <2>4, <2>5
<1> HIDE DEF largest
<1>7. n \in Int /\ 1 <= n /\ n <= largest
  BY <1>5 DEF largest
<1> HIDE DEF below
<1>8. Growable(b, l, id, n)
  BY <1>3, <1>4, <1>5, <1>6, <1>7 DEF Growable, below
<1> QED BY <1>2, <1>7, <1>8

\* Under the same hypothesis the End key reaches what repeated arrows reach: a resize is
\* accepted just when a slot is left for each block below (maxResizeSpan in
\* keyboard-reducer.js, compressBelow in push.js), so no size on the way is refused.
THEOREM ResizesHaveNoHoles == MaxForeign = 0 => (GSpec => []ResizeHasNoHoles)
<1> SUFFICES ASSUME MaxForeign = 0 PROVE GSpec => []ResizeHasNoHoles
  OBVIOUS
<1>1. GTypes /\ SourceInv => ResizeHasNoHoles
  <2> SUFFICES ASSUME GTypes, SourceInv PROVE ResizeHasNoHoles
    OBVIOUS
  <2>1. dom.day \in Bounds /\ dom.layout \in Layouts
    BY DEF GTypes, TabTypes, Columns
  <2>2. Legal(dom.day, dom.layout)
    BY DEF SourceInv, ColumnsShrink, Past
  <2> QED BY <2>1, <2>2, NoSizeIsSkipped DEF ResizeHasNoHoles
<1> QED BY <1>1, TypesKept, SourceInvHolds, PTL

-----------------------------------------------------------------------------
(* What sequences of gestures reach.                                       *)

\* The first n steps of the search from layout.
FoundTo(g, b, layout, n) ==
  /\ g[0] = [seen |-> {layout}, new |-> {layout}]
  /\ \A k \in 1 .. n : g[k] = Explore(b, g[k - 1])

LEMMA FoundExists ==
  ASSUME NEW b, NEW layout
  PROVE  \E f : /\ f[0] = [seen |-> {layout}, new |-> {layout}]
                /\ \A n \in Nat : f[n + 1] = Explore(b, f[n])
                /\ \A n \in Nat : Reached(b, layout, n) = f[n].seen
<1> DEFINE base == [seen |-> {layout}, new |-> {layout}]
           Bad == {n \in Nat : ~(\E g : FoundTo(g, b, layout, n))}
           Eqn(f) == f = [k \in Nat |-> IF k = 0 THEN base ELSE Explore(b, f[k - 1])]
<1>1. ASSUME Bad # {} PROVE FALSE
  <2>1. PICK n \in Bad : \A m \in Bad : n <= m
    <3>1. Bad \subseteq Nat
      OBVIOUS
    <3> HIDE DEF Bad
    <3> QED BY <1>1, <3>1, LeastNat
  <2>2. n # 0
    <3>1. FoundTo([k \in {0} |-> base], b, layout, 0)
      BY DEF FoundTo
    <3> QED BY <2>1, <3>1
  <2>3. n - 1 \in Nat /\ n - 1 \notin Bad
    <3>1. n \in Nat
      BY <2>1
    <3>2. n - 1 \in Nat /\ ~(n <= n - 1)
      BY <2>2, <3>1
    <3> HIDE DEF Bad
    <3> QED BY <2>1, <3>2
  <2>4. PICK g : FoundTo(g, b, layout, n - 1)
    BY <2>3
  <2> DEFINE h == [k \in 0 .. n |-> IF k = n THEN Explore(b, g[n - 1]) ELSE g[k]]
  <2>5. n \in Nat
    BY <2>1
  <2>6. h[0] = base
    BY <2>2, <2>4, <2>5 DEF FoundTo
  <2>7. ASSUME NEW k \in 1 .. n PROVE h[k] = Explore(b, h[k - 1])
    <3>1. k - 1 \in 0 .. n /\ k - 1 # n /\ k \in 0 .. n
      BY <2>5
    <3>2. h[k - 1] = g[k - 1]
      BY <3>1
    <3>3. CASE k = n
      BY <3>1, <3>2, <3>3
    <3>4. CASE k # n
      <4>1. k \in 1 .. (n - 1)
        BY <2>5, <3>4
      <4>2. g[k] = Explore(b, g[k - 1])
        BY <2>4, <4>1 DEF FoundTo
      <4>3. h[k] = g[k]
        BY <3>1, <3>4
      <4> QED BY <3>2, <4>2, <4>3
    <3> QED BY <3>3, <3>4
  <2> HIDE DEF h
  <2>8. FoundTo(h, b, layout, n)
    BY <2>6, <2>7 DEF FoundTo
  <2> QED BY <2>1, <2>8
<1>2. \A n \in Nat : \E g : FoundTo(g, b, layout, n)
  BY <1>1
<1> HIDE DEF Bad
\* Two searches agree as far as both go.
<1>3. ASSUME NEW n \in Nat, NEW g, NEW h, FoundTo(g, b, layout, n), FoundTo(h, b, layout, n + 1)
      PROVE  g[n] = h[n]
  <2> DEFINE Odd == {k \in 0 .. n : g[k] # h[k]}
  <2>1. ASSUME Odd # {} PROVE FALSE
    <3>1. PICK k \in Odd : \A m \in Odd : k <= m
      <4>1. Odd \subseteq Nat
        OBVIOUS
      <4> HIDE DEF Odd
      <4> QED BY <2>1, <4>1, LeastNat
    <3>2. k \in 0 .. n /\ g[k] # h[k]
      BY <3>1
    <3>3. k # 0
      BY <1>3, <3>2 DEF FoundTo
    <3>4. k - 1 \in 0 .. n /\ k - 1 \notin Odd
      <4>1. k - 1 \in 0 .. n /\ ~(k <= k - 1)
        BY <3>2, <3>3
      <4> HIDE DEF Odd
      <4> QED BY <3>1, <4>1
    <3>5. g[k - 1] = h[k - 1]
      BY <3>4
    <3>6. k \in 1 .. n /\ k \in 1 .. (n + 1)
      BY <3>2, <3>3
    <3>7. g[k] = Explore(b, g[k - 1]) /\ h[k] = Explore(b, h[k - 1])
      BY <1>3, <3>6 DEF FoundTo
    <3> QED BY <3>2, <3>5, <3>7
  <2>2. n \in 0 .. n
    OBVIOUS
  <2> QED BY <2>1, <2>2
<1> DEFINE upto(n) == CHOOSE g : FoundTo(g, b, layout, n)
           f == [n \in Nat |-> upto(n)[n]]
<1>4. \A n \in Nat : FoundTo(upto(n), b, layout, n)
  BY <1>2
<1> HIDE DEF upto
<1>5. f[0] = base
  BY <1>4 DEF FoundTo
<1>6. ASSUME NEW n \in Nat PROVE f[n + 1] = Explore(b, f[n])
  <2>1. n + 1 \in Nat /\ n + 1 \in 1 .. (n + 1) /\ (n + 1) - 1 = n
    OBVIOUS
  <2>2. upto(n + 1)[n + 1] = Explore(b, upto(n + 1)[n])
    <3>1. FoundTo(upto(n + 1), b, layout, n + 1)
      BY <1>4, <2>1
    <3> QED BY <2>1, <3>1 DEF FoundTo
  <2>3. upto(n)[n] = upto(n + 1)[n]
    BY <1>3, <1>4, <2>1
  <2>4. f[n] = upto(n)[n] /\ f[n + 1] = upto(n + 1)[n + 1]
    BY <2>1
  <2> QED BY <2>2, <2>3, <2>4
<1>7. Eqn(f)
  <2>1. ASSUME NEW k \in Nat PROVE f[k] = IF k = 0 THEN base ELSE Explore(b, f[k - 1])
    <3>1. CASE k = 0
      BY <1>5, <3>1
    <3>2. CASE k # 0
      <4>1. k - 1 \in Nat /\ (k - 1) + 1 = k
        BY <3>2
      <4> HIDE DEF f
      <4>2. f[(k - 1) + 1] = Explore(b, f[k - 1])
        BY <1>6, <4>1
      <4> QED BY <3>2, <4>1, <4>2
    <3> QED BY <3>1, <3>2
  <2>2. f = [k \in Nat |-> f[k]]
    OBVIOUS
  <2> HIDE DEF f
  <2> QED BY <2>1, <2>2
<1> HIDE DEF f
<1> DEFINE found == CHOOSE h : Eqn(h)
<1>8. Eqn(found)
  <2> HIDE DEF Eqn
  <2> QED BY <1>7
<1>9. \A n \in Nat : Reached(b, layout, n) = found[n].seen
  BY DEF Reached
<1> HIDE DEF found
<1>10. found[0] = base
  BY <1>8
<1>11. ASSUME NEW n \in Nat PROVE found[n + 1] = Explore(b, found[n])
  <2>1. n + 1 \in Nat /\ n + 1 # 0 /\ (n + 1) - 1 = n
    OBVIOUS
  <2> QED BY <1>8, <2>1
<1> QED BY <1>9, <1>10, <1>11

\* Each gesture more finds the outcomes of one gesture from what was found, and no others.
LEMMA ReachedIs ==
  ASSUME NEW b, NEW layout
  PROVE  /\ Reached(b, layout, 0) = {layout}
         /\ \A n \in Nat : /\ Reached(b, layout, n) \subseteq Reached(b, layout, n + 1)
                           /\ \A x \in Reached(b, layout, n) : OneGesture(b, x) \subseteq Reached(b, layout, n + 1)
                           /\ \A y \in Reached(b, layout, n + 1) :
                                \/ y \in Reached(b, layout, n)
                                \/ \E x \in Reached(b, layout, n) : y \in OneGesture(b, x)
<1>1. PICK f : /\ f[0] = [seen |-> {layout}, new |-> {layout}]
               /\ \A n \in Nat : f[n + 1] = Explore(b, f[n])
               /\ \A n \in Nat : Reached(b, layout, n) = f[n].seen
  BY FoundExists
<1> DEFINE Outcomes(S) == UNION {OneGesture(b, l) : l \in S}
<1>2. \A S : \A y : y \in Outcomes(S) <=> \E l \in S : y \in OneGesture(b, l)
  OBVIOUS
<1>3. \A n \in Nat : /\ f[n + 1].seen = f[n].seen \cup Outcomes(f[n].new)
                     /\ f[n + 1].new = Outcomes(f[n].new) \ f[n].seen
  <2>1. \A n \in Nat : f[n + 1] = [seen |-> f[n].seen \cup Outcomes(f[n].new),
                                   new |-> Outcomes(f[n].new) \ f[n].seen]
    BY <1>1 DEF Explore
  <2> HIDE DEF Outcomes
  <2> SUFFICES ASSUME NEW n \in Nat
               PROVE  /\ f[n + 1].seen = f[n].seen \cup Outcomes(f[n].new)
                      /\ f[n + 1].new = Outcomes(f[n].new) \ f[n].seen
    OBVIOUS
  <2> DEFINE s == f[n].seen \cup Outcomes(f[n].new)
             t == Outcomes(f[n].new) \ f[n].seen
  <2>2. f[n + 1] = [seen |-> s, new |-> t]
    BY <2>1
  <2> HIDE DEF s, t
  <2>3. f[n + 1].seen = s /\ f[n + 1].new = t
    BY <2>2
  <2> QED BY <2>3 DEF s, t
<1> HIDE DEF Outcomes
<1> DEFINE Done(n) == /\ f[n].new \subseteq f[n].seen
                      /\ \A x \in f[n].seen \ f[n].new : OneGesture(b, x) \subseteq f[n].seen
           Bad == {n \in Nat : ~Done(n)}
<1>4. ASSUME Bad # {} PROVE FALSE
  <2>1. PICK n \in Bad : \A m \in Bad : n <= m
    <3>1. Bad \subseteq Nat
      OBVIOUS
    <3> HIDE DEF Bad
    <3> QED BY <1>4, <3>1, LeastNat
  <2>2. n \in Nat /\ ~Done(n)
    BY <2>1
  <2>3. n # 0
    BY <1>1, <2>2
  <2>4. n - 1 \in Nat /\ n - 1 \notin Bad
    <3>1. n - 1 \in Nat /\ ~(n <= n - 1)
      BY <2>2, <2>3
    <3> HIDE DEF Bad
    <3> QED BY <2>1, <3>1
  <2> DEFINE m == n - 1
  <2>5. Done(m) /\ m \in Nat /\ n = m + 1
    BY <2>2, <2>4
  <2> HIDE DEF m, Bad
  <2>6. /\ f[n].seen = f[m].seen \cup Outcomes(f[m].new)
        /\ f[n].new = Outcomes(f[m].new) \ f[m].seen
    BY <1>3, <2>5
  <2>7. ASSUME NEW x \in f[n].seen \ f[n].new PROVE OneGesture(b, x) \subseteq f[n].seen
    <3>1. x \in f[m].seen
      BY <2>6
    <3>2. CASE x \in f[m].new
      BY <1>2, <2>6, <3>2
    <3>3. CASE x \notin f[m].new
      BY <2>5, <2>6, <3>1, <3>3
    <3> QED BY <3>2, <3>3
  <2> QED BY <2>2, <2>6, <2>7
<1>5. \A n \in Nat : Done(n)
  BY <1>4
<1> HIDE DEF Bad
<1>6. Reached(b, layout, 0) = {layout}
  BY <1>1
<1>7. ASSUME NEW n \in Nat
      PROVE  /\ Reached(b, layout, n) \subseteq Reached(b, layout, n + 1)
             /\ \A x \in Reached(b, layout, n) : OneGesture(b, x) \subseteq Reached(b, layout, n + 1)
             /\ \A y \in Reached(b, layout, n + 1) :
                  \/ y \in Reached(b, layout, n)
                  \/ \E x \in Reached(b, layout, n) : y \in OneGesture(b, x)
  <2>1. Reached(b, layout, n) = f[n].seen /\ Reached(b, layout, n + 1) = f[n + 1].seen
    BY <1>1
  <2>2. Done(n) /\ f[n + 1].seen = f[n].seen \cup Outcomes(f[n].new)
    BY <1>3, <1>5
  <2>3. ASSUME NEW x \in f[n].seen PROVE OneGesture(b, x) \subseteq f[n + 1].seen
    <3>1. CASE x \in f[n].new
      BY <1>2, <2>2, <3>1
    <3>2. CASE x \notin f[n].new
      BY <2>2, <3>2
    <3> QED BY <3>1, <3>2
  <2>4. ASSUME NEW y \in f[n + 1].seen, y \notin f[n].seen PROVE \E x \in f[n].seen : y \in OneGesture(b, x)
    BY <1>2, <2>2, <2>4
  <2> QED BY <2>1, <2>2, <2>3, <2>4
<1> QED BY <1>6, <1>7

\* From wherever x was found, at most k gestures more find y.
Leads(b, layout, x, y, k) ==
  \A n \in Nat : x \in Reached(b, layout, n) => y \in Reached(b, layout, n + k)

LEMMA LeadsIs ==
  ASSUME NEW b, NEW layout
  PROVE  /\ \A x : Leads(b, layout, x, x, 0)
         /\ \A x, y : \A z \in OneGesture(b, y) : \A k \in Nat :
              Leads(b, layout, x, y, k) => Leads(b, layout, x, z, k + 1)
         /\ \A x, y : \A k \in Nat : Leads(b, layout, x, y, k) => Leads(b, layout, x, y, k + 1)
         /\ \A x, y, z : \A j, k \in Nat :
              Leads(b, layout, x, y, j) /\ Leads(b, layout, y, z, k) => Leads(b, layout, x, z, j + k)
<1>1. \A n \in Nat : n + 0 = n
  OBVIOUS
<1>2. \A n, j, k \in Nat : n + k \in Nat /\ n + (k + 1) = (n + k) + 1 /\ n + (j + k) = (n + j) + k
  OBVIOUS
<1>3. \A n \in Nat : /\ Reached(b, layout, n) \subseteq Reached(b, layout, n + 1)
                     /\ \A x \in Reached(b, layout, n) : OneGesture(b, x) \subseteq Reached(b, layout, n + 1)
  BY ReachedIs
<1>4. \A x : Leads(b, layout, x, x, 0)
  BY <1>1 DEF Leads
<1>5. ASSUME NEW x, NEW y, NEW k \in Nat, Leads(b, layout, x, y, k)
      PROVE  Leads(b, layout, x, y, k + 1) /\ \A z \in OneGesture(b, y) : Leads(b, layout, x, z, k + 1)
  BY <1>2, <1>3, <1>5 DEF Leads
<1>6. ASSUME NEW x, NEW y, NEW z, NEW j \in Nat, NEW k \in Nat,
             Leads(b, layout, x, y, j), Leads(b, layout, y, z, k)
      PROVE  Leads(b, layout, x, z, j + k)
  BY <1>2, <1>6 DEF Leads
<1> QED BY <1>4, <1>5, <1>6

LEMMA OneGestureIs ==
  ASSUME NEW b, NEW l
  PROVE  /\ \A i \in DOMAIN l : \A s \in b.start .. (b.end - 1) :
              Push(b, l, i, Moved(l, i, s), FALSE) # NoLayout
                => Push(b, l, i, Moved(l, i, s), FALSE) \in OneGesture(b, l)
         /\ \A i \in DOMAIN l : \A n \in 1 .. (b.end - l[i].slot) :
              Push(b, l, i, Resized(l, i, n), TRUE) # NoLayout
                => Push(b, l, i, Resized(l, i, n), TRUE) \in OneGesture(b, l)
         /\ \A y \in OneGesture(b, l) :
              /\ y # NoLayout
              /\ \E i \in DOMAIN l :
                   \/ \E s \in b.start .. (b.end - 1) : y = Push(b, l, i, Moved(l, i, s), FALSE)
                   \/ \E n \in 1 .. (b.end - l[i].slot) : y = Push(b, l, i, Resized(l, i, n), TRUE)
<1> DEFINE far == b.end - 1
           most(i) == b.end - l[i].slot
           drag(i, s) == Push(b, l, i, Moved(l, i, s), FALSE)
           size(i, n) == Push(b, l, i, Resized(l, i, n), TRUE)
<1>1. OneGesture(b, l) = (UNION {{drag(i, s) : s \in b.start .. far} \cup {size(i, n) : n \in 1 .. most(i)} :
                                   i \in DOMAIN l}) \ {NoLayout}
  BY DEF OneGesture
<1> HIDE DEF far, most, drag, size
<1>2. \A y : y \in OneGesture(b, l) <=>
        (/\ y # NoLayout
         /\ \E i \in DOMAIN l : (\E s \in b.start .. far : y = drag(i, s))
                                  \/ (\E n \in 1 .. most(i) : y = size(i, n)))
  BY <1>1
<1>3. /\ \A i \in DOMAIN l : \A s \in b.start .. far : drag(i, s) # NoLayout => drag(i, s) \in OneGesture(b, l)
      /\ \A i \in DOMAIN l : \A n \in 1 .. most(i) : size(i, n) # NoLayout => size(i, n) \in OneGesture(b, l)
  BY <1>2
<1> QED BY <1>2, <1>3 DEF far, most, drag, size

\* A gesture makes a legal layout of a legal one.
LEMMA GestureIsLegal ==
  ASSUME NEW b \in Bounds, NEW D \in SUBSET BlockId, NEW l \in [D -> Spot], Legal(b, l),
         NEW y \in OneGesture(b, l)
  PROVE  y \in [D -> Spot] /\ Legal(b, y)
<1>1. y # NoLayout /\ DOMAIN l = D
  BY OneGestureIs
<1> DEFINE far == b.end - 1
           most(i) == b.end - l[i].slot
           drag(i, s) == Push(b, l, i, Moved(l, i, s), FALSE)
           size(i, n) == Push(b, l, i, Resized(l, i, n), TRUE)
<1>2. PICK i \in D : (\E s \in b.start .. far : y = drag(i, s)) \/ (\E n \in 1 .. most(i) : y = size(i, n))
  <2>1. \A z \in OneGesture(b, l) : \E i \in DOMAIN l :
          (\E s \in b.start .. far : z = drag(i, s)) \/ (\E n \in 1 .. most(i) : z = size(i, n))
    BY OneGestureIs
  <2> HIDE DEF far, most, drag, size
  <2>2. \E i \in DOMAIN l :
          (\E s \in b.start .. far : y = drag(i, s)) \/ (\E n \in 1 .. most(i) : y = size(i, n))
    BY <2>1
  <2> QED BY <1>1, <2>2
<1>3. l[i].slot \in Int /\ l[i].span \in Int /\ l[i].span >= 1 /\ b.start \in Int /\ b.end \in Int
  BY DEF Spot, Legal, Bounds
<1>4. ASSUME NEW p \in Spot, p.span >= 1, NEW compress \in BOOLEAN, compress => p.slot = l[i].slot,
             y = Push(b, l, i, p, compress)
      PROVE  y \in [D -> Spot] /\ Legal(b, y)
  <2>1. Push(b, l, i, p, compress) # NoLayout
    BY <1>1, <1>4
  <2>2. Pushed(b, l, i, Push(b, l, i, p, compress))
    BY <1>4, <2>1, PushIsPushed
  <2> QED BY <1>1, <1>4, <2>2 DEF Pushed
<1>5. ASSUME NEW s \in b.start .. (b.end - 1), y = Push(b, l, i, Moved(l, i, s), FALSE)
      PROVE  y \in [D -> Spot] /\ Legal(b, y)
  <2>1. s \in Int
    <3> DEFINE limit == b.end - 1
    <3>1. limit \in Int
      BY <1>3
    <3>2. s \in b.start .. limit
      BY <1>5
    <3> HIDE DEF limit
    <3> QED BY <1>3, <3>1, <3>2
  <2>2. Moved(l, i, s) \in Spot /\ Moved(l, i, s).span >= 1 /\ FALSE \in BOOLEAN
    BY <1>3, <2>1 DEF Moved, Spot
  <2> QED BY <1>4, <1>5, <2>2
<1>6. ASSUME NEW n \in 1 .. (b.end - l[i].slot), y = Push(b, l, i, Resized(l, i, n), TRUE)
      PROVE  y \in [D -> Spot] /\ Legal(b, y)
  <2>1. n \in Int /\ n >= 1
    <3> DEFINE limit == b.end - l[i].slot
    <3>1. limit \in Int
      BY <1>3
    <3>2. n \in 1 .. limit
      BY <1>6
    <3> HIDE DEF limit
    <3> QED BY <3>1, <3>2
  <2>2. Resized(l, i, n) \in Spot /\ Resized(l, i, n).span >= 1 /\ TRUE \in BOOLEAN
        /\ Resized(l, i, n).slot = l[i].slot
    BY <1>3, <2>1 DEF Resized, Spot
  <2> QED BY <1>4, <1>6, <2>2
<1> QED BY <1>2, <1>5, <1>6

\* A block put where no other is displaces none.
LEMMA SweepFree ==
  ASSUME NEW b \in Bounds, NEW D \in SUBSET BlockId, NEW l \in [D -> Spot], Legal(b, l),
         NEW id \in D, NEW p \in Spot, NEW up \in BOOLEAN,
         \A j \in D \ {id} : ~Overlaps(p, l[j])
  PROVE  Sweep(b, l, id, p, up) = [l EXCEPT ![id] = p]
<1> DEFINE S == D \ {id}
           Kept(T) == [j \in T \cup {id} |-> IF j = id THEN p ELSE l[j]]
<1>0. PICK g : SweptBy(g, b, l, id, p, up)
  BY SweepFold
<1>1. /\ Sweep(b, l, id, p, up) = g[S]
      /\ g[{}] = [i \in {id} |-> p]
      /\ \A T \in SUBSET S : T # {} =>
           LET i == LastMet(l, up, T) IN g[T] = Cleared(b, l, up, i, g[T \ {i}])
  BY <1>0 DEF SweptBy
<1> DEFINE Bad == {T \in SUBSET S : g[T] # Kept(T)}
<1>2. ASSUME Bad # {} PROVE FALSE
  <2>1. Bad \in SUBSET (SUBSET S) /\ IsFiniteSet(S)
    BY IdAssumption, FS_Subset
  <2> HIDE DEF Bad
  <2>2. PICK T \in Bad : \A U \in Bad : U \subseteq T => U = T
    BY <1>2, <2>1, LeastSet
  <2>3. T \in SUBSET S /\ g[T] # Kept(T) /\ IsFiniteSet(T)
    BY <2>1, <2>2, FS_Subset DEF Bad
  <2>4. T # {}
    <3>1. Kept({}) = [i \in {id} |-> p]
      OBVIOUS
    <3> QED BY <1>1, <2>3, <3>1
  <2> DEFINE i == LastMet(l, up, T)
  <2>5. i \in T /\ g[T] = Cleared(b, l, up, i, g[T \ {i}])
    <3>1. T \in SUBSET D
      BY <2>3
    <3> QED BY <1>1, <2>3, <2>4, <3>1, LastMetIs
  <2> HIDE DEF i
  <2>6. T \ {i} \in SUBSET S /\ T \ {i} \notin Bad
    BY <2>2, <2>3, <2>5
  <2> DEFINE E == (T \ {i}) \cup {id}
             out == g[T \ {i}]
             next == Cleared(b, l, up, i, out)
  <2>7. out = Kept(T \ {i})
    BY <2>6 DEF Bad
  <2>8. /\ out \in [E -> Spot] /\ out[id] = p /\ \A j \in T \ {i} : out[j] = l[j]
        /\ E \in SUBSET D /\ i \in D /\ i # id /\ E \cup {i} = T \cup {id} /\ i \notin E
    BY <2>3, <2>5, <2>7
  <2> HIDE DEF out
  <2>9. /\ l[i].slot \in Int /\ l[i].span \in Int /\ b.start \in Int /\ b.end \in Int
        /\ l[i].slot >= b.start /\ l[i].slot + l[i].span <= b.end /\ l[i] \in Spot
    BY <2>8 DEF Spot, Bounds, Legal, Fits
  <2> DEFINE places == Places(b, l[i], Range(out), up)
  <2>10. l[i].slot \in places
    <3>1. [l[i] EXCEPT !.slot = l[i].slot] = l[i]
      BY <2>9 DEF Spot
    <3>2. \A f \in Range(out) : \E j \in E : f = out[j]
      BY <2>8 DEF Range
    <3>3. \A j \in E : ~Overlaps(l[i], out[j])
      <4> SUFFICES ASSUME NEW j \in E PROVE ~Overlaps(l[i], out[j])
        OBVIOUS
      <4>1. CASE j = id
        BY <2>8, <4>1 DEF Overlaps
      <4>2. CASE j # id
        <5>1. out[j] = l[j] /\ j \in D /\ j # i
          BY <2>8, <4>2
        <5> QED BY <2>8, <5>1 DEF Legal
      <4> QED BY <4>1, <4>2
    <3>4. l[i].slot \in b.start .. (b.end - l[i].span)
      <4> DEFINE far == b.end - l[i].span
      <4>1. far \in Int /\ l[i].slot <= far
        BY <2>9
      <4> HIDE DEF far
      <4>2. l[i].slot \in b.start .. far
        BY <2>9, <4>1
      <4> QED BY <4>2 DEF far
    <3>5. IF up THEN l[i].slot <= l[i].slot ELSE l[i].slot >= l[i].slot
      BY <2>9
    <3>6. \A f \in Range(out) : ~Overlaps([l[i] EXCEPT !.slot = l[i].slot], f)
      BY <3>1, <3>2, <3>3
    <3> QED BY <3>4, <3>5, <3>6 DEF Places
  <2>11. PutAmong(b, l, up, i, E, out, next)
    <3>1. E \in SUBSET D
      BY <2>8
    <3>2. i \in D
      BY <2>8
    <3>3. out \in [E -> Spot]
      BY <2>8
    <3>4. places # {}
      BY <2>10
    <3> HIDE DEF E, places
    <3>5. IF places = {} THEN next = NoLayout ELSE PutAmong(b, l, up, i, E, out, next)
      BY <3>1, <3>2, <3>3, ClearedIs DEF places
    <3> QED BY <3>4, <3>5
  <2> HIDE DEF next
  <2>12. /\ next \in [T \cup {id} -> Spot] /\ next[i].span = l[i].span
         /\ \A j \in E : next[j] = out[j]
    BY <2>8, <2>11 DEF PutAmong
  <2>13. next[i].slot = l[i].slot
    <3>1. (l[i].slot <= next[i].slot /\ next[i].slot <= l[i].slot)
            \/ (l[i].slot >= next[i].slot /\ next[i].slot >= l[i].slot)
      BY <2>10, <2>11 DEF PutAmong, NearestPlace
    <3>2. next[i].slot \in Int
      BY <2>5, <2>12 DEF Spot
    <3> QED BY <2>9, <3>1, <3>2
  <2>14. next[i] = l[i]
    <3>1. next[i] \in Spot
      BY <2>5, <2>12
    <3> QED BY <2>9, <2>12, <2>13, <3>1 DEF Spot
  <2>15. next = Kept(T)
    <3>1. \A j \in T \cup {id} : next[j] = IF j = id THEN p ELSE l[j]
      BY <2>8, <2>12, <2>14
    <3> QED BY <2>12, <3>1
  <2> QED BY <2>3, <2>5, <2>15 DEF next, out
<1>3. g[S] = Kept(S)
  BY <1>2
<1>4. Kept(S) = [l EXCEPT ![id] = p]
  <2>1. S \cup {id} = D
    OBVIOUS
  <2> QED BY <2>1
<1> QED BY <1>1, <1>3, <1>4

\* A block may be dragged to, or resized into, any room that no other block takes.
LEMMA FreeGesture ==
  ASSUME NEW b \in Bounds, NEW D \in SUBSET BlockId, NEW l \in [D -> Spot], Legal(b, l),
         NEW id \in D, NEW p \in Spot, p.span >= 1, Fits(b, p),
         \A j \in D \ {id} : ~Overlaps(p, l[j]),
         p.slot = l[id].slot \/ p.span = l[id].span
  PROVE  [l EXCEPT ![id] = p] \in OneGesture(b, l)
<1> DEFINE new == [l EXCEPT ![id] = p]
           below == BelowOf(l, id, p)
<1>1. new \in [D -> Spot] /\ new # NoLayout /\ DOMAIN l = D
  BY LayoutIsNotNone
<1>2. /\ p.slot \in Int /\ p.span \in Int /\ b.start \in Int /\ b.end \in Int
      /\ l[id] \in Spot /\ l[id].slot \in Int /\ l[id].span \in Int
      /\ p = [slot |-> p.slot, span |-> p.span]
      /\ p.slot >= b.start /\ p.slot + p.span <= b.end
  BY DEF Spot, Bounds, Fits
<1>3. \A up \in BOOLEAN : Sweep(b, l, id, p, up) = new
  <2> SUFFICES ASSUME NEW up \in BOOLEAN PROVE Sweep(b, l, id, p, up) = new
    OBVIOUS
  <2> QED BY SweepFree
<1>4. CASE p.span = l[id].span
  <2>1. Moved(l, id, p.slot) = p
    BY <1>2, <1>4 DEF Moved, Spot
  <2> DEFINE up == p.slot > l[id].slot
  <2>2. Push(b, l, id, p, FALSE) = Sweep(b, l, id, p, up) /\ up \in BOOLEAN
    BY DEF Push
  <2> HIDE DEF new, up
  <2>3. Push(b, l, id, p, FALSE) = new
    BY <1>3, <2>2
  <2>4. p.slot \in b.start .. (b.end - 1)
    BY <1>2
  <2>5. \A s \in b.start .. (b.end - 1) :
          Push(b, l, id, Moved(l, id, s), FALSE) # NoLayout
            => Push(b, l, id, Moved(l, id, s), FALSE) \in OneGesture(b, l)
    BY <1>1, OneGestureIs
  <2> QED BY <1>1, <2>1, <2>3, <2>4, <2>5 DEF new
<1>5. CASE p.slot = l[id].slot
  <2>1. Resized(l, id, p.span) = p
    BY <1>2, <1>5 DEF Resized, Spot
  <2>2. Total(Spans(l), below) <= b.end - (p.slot + p.span)
    <3> DEFINE from == p.slot + p.span
    <3>1. below \in SUBSET D /\ id \notin below /\ \A i \in below : l[i].slot > p.slot
      BY <1>1 DEF BelowOf
    <3>2. \A i \in D : l[i].slot \in Int /\ l[i].span \in Int /\ l[i].span >= 1
      BY DEF Spot, Legal
    <3> HIDE DEF below
    <3>3. \A i \in below : l[i].slot >= from
      <4> SUFFICES ASSUME NEW i \in below PROVE l[i].slot >= from
        OBVIOUS
      <4>1. ~Overlaps(p, l[i]) /\ l[i].slot > p.slot /\ i \in D
        BY <3>1
      <4> QED BY <1>2, <3>2, <4>1 DEF Overlaps
    <3>4. from \in Int /\ from <= b.end
      BY <1>2
    <3> HIDE DEF from
    <3>5. Total(Spans(l), below) <= b.end - from
      BY <3>1, <3>3, <3>4, RunsFit
    <3> QED BY <3>5 DEF from
  <2>3. Push(b, l, id, p, TRUE) = Sweep(b, l, id, p, FALSE)
    <3>1. ~(p.slot > l[id].slot)
      BY <1>2, <1>5
    <3>2. ~(Total(Spans(l), below) > b.end - (p.slot + p.span))
      <4>1. Total(Spans(l), below) \in Int
        <5>1. below \in SUBSET D /\ IsFiniteSet(D)
          BY <1>1, IdAssumption, FS_Subset DEF BelowOf
        <5>2. \A i \in D : Spans(l)[i] \in Int
          BY DEF Spans, Spot
        <5> QED BY <5>1, <5>2, TotalType
      <4> HIDE DEF below
      <4> QED BY <1>2, <2>2, <4>1
    <3> DEFINE up == p.slot > l[id].slot
               packed == Total(Spans(l), below) > b.end - (p.slot + p.span)
    <3>3. Push(b, l, id, p, TRUE) = IF ~Fits(b, p) THEN NoLayout
                                    ELSE IF TRUE /\ ~up /\ packed
                                    THEN IF CompressBelow(l, below, b.end - (p.slot + p.span)) = NoLayout
                                         THEN NoLayout
                                         ELSE Stack(l, id, p, CompressBelow(l, below, b.end - (p.slot + p.span)))
                                    ELSE Sweep(b, l, id, p, up)
      BY DEF Push, BelowOf
    <3>4. up = FALSE /\ ~packed
      BY <3>1, <3>2
    <3> HIDE DEF up, packed
    <3> QED BY <3>3, <3>4
  <2>4. Push(b, l, id, p, TRUE) = new
    BY <1>3, <2>3
  <2>5. p.span \in 1 .. (b.end - l[id].slot)
    BY <1>2, <1>5
  <2>6. \A n \in 1 .. (b.end - l[id].slot) :
          Push(b, l, id, Resized(l, id, n), TRUE) # NoLayout
            => Push(b, l, id, Resized(l, id, n), TRUE) \in OneGesture(b, l)
    BY <1>1, OneGestureIs
  <2> QED BY <1>1, <2>1, <2>4, <2>5, <2>6
<1> QED BY <1>4, <1>5

\* The layout x with the blocks of U placed as in y.
Mix(x, y, U) == [i \in DOMAIN x |-> IF i \in U THEN y[i] ELSE x[i]]

\* Where the layouts on the way, as C orders them, are legal, a gesture for each block
\* leads from x to y.
LEMMA OneByOne ==
  ASSUME NEW b \in Bounds, NEW D \in SUBSET BlockId, NEW x \in [D -> Spot], NEW y \in [D -> Spot],
         NEW layout, NEW T \in SUBSET D, NEW C \in SUBSET (SUBSET T), T \in C,
         \A i \in D \ T : x[i] = y[i],
         \A i \in T : x[i].slot = y[i].slot \/ x[i].span = y[i].span,
         \A U \in C : Legal(b, Mix(x, y, U)),
         \A U \in C : U # {} => \E i \in U : U \ {i} \in C
  PROVE  Leads(b, layout, x, y, Cardinality(T))
<1> DEFINE Done(U) == Leads(b, layout, x, Mix(x, y, U), Cardinality(U))
           Bad == {U \in C : ~Done(U)}
<1>1. IsFiniteSet(T) /\ DOMAIN x = D
  BY IdAssumption, FS_Subset
<1>2. ASSUME Bad # {} PROVE FALSE
  <2>1. Bad \in SUBSET (SUBSET T)
    OBVIOUS
  <2> HIDE DEF Bad
  <2>2. PICK U \in Bad : \A V \in Bad : V \subseteq U => V = U
    BY <1>1, <1>2, <2>1, LeastSet
  <2>3. U \in C /\ ~Done(U) /\ U \in SUBSET T /\ IsFiniteSet(U)
    BY <1>1, <2>1, <2>2, FS_Subset DEF Bad
  <2>4. U # {}
    <3>1. Mix(x, y, {}) = x /\ Cardinality({}) = 0
      BY <1>1, FS_EmptySet DEF Mix
    <3>2. Leads(b, layout, x, x, 0)
      BY LeadsIs
    <3> QED BY <2>3, <3>1, <3>2
  <2>5. PICK i \in U : U \ {i} \in C
    BY <2>3, <2>4
  <2>6. U \ {i} \notin Bad /\ i \in D /\ i \in T
    BY <2>2, <2>3, <2>5
  <2>7. Done(U \ {i})
    BY <2>5, <2>6 DEF Bad
  <2>8. Cardinality(U \ {i}) \in Nat /\ Cardinality(U) = Cardinality(U \ {i}) + 1
    <3>1. Cardinality(U) \in Nat /\ IsFiniteSet(U \ {i}) /\ Cardinality(U \ {i}) = Cardinality(U) - 1
      BY <2>3, <2>5, FS_RemoveElement, FS_CardinalityType
    <3>2. Cardinality(U \ {i}) \in Nat
      BY <3>1, FS_CardinalityType
    <3> QED BY <3>1, <3>2
  <2> DEFINE l == Mix(x, y, U \ {i})
             m == Mix(x, y, U)
  <2>9. /\ l \in [D -> Spot] /\ Legal(b, l) /\ m \in [D -> Spot] /\ Legal(b, m)
        /\ l[i] = x[i] /\ m[i] = y[i] /\ m = [l EXCEPT ![i] = y[i]]
        /\ \A j \in D \ {i} : m[j] = l[j]
    <3>1. Legal(b, l) /\ Legal(b, m)
      BY <2>3, <2>5
    <3>2. \A V : Mix(x, y, V) \in [D -> Spot] /\ \A j \in D : Mix(x, y, V)[j] = IF j \in V THEN y[j] ELSE x[j]
      BY <1>1 DEF Mix
    <3> HIDE DEF l, m
    <3>3. /\ l \in [D -> Spot] /\ \A j \in D : l[j] = IF j \in U \ {i} THEN y[j] ELSE x[j]
          /\ m \in [D -> Spot] /\ \A j \in D : m[j] = IF j \in U THEN y[j] ELSE x[j]
      BY <3>2 DEF l, m
    <3>4. l[i] = x[i] /\ m[i] = y[i] /\ \A j \in D \ {i} : m[j] = l[j]
      BY <2>5, <2>6, <3>3
    <3>5. m = [l EXCEPT ![i] = y[i]]
      BY <2>6, <3>3, <3>4
    <3> QED BY <3>1, <3>3, <3>4, <3>5
  <2> HIDE DEF l, m
  <2>10. /\ y[i] \in Spot /\ y[i].span >= 1 /\ Fits(b, y[i])
         /\ \A j \in D \ {i} : ~Overlaps(y[i], l[j])
         /\ (y[i].slot = l[i].slot \/ y[i].span = l[i].span)
    <3>1. \A j \in D \ {i} : ~Overlaps(m[i], m[j])
      BY <2>6, <2>9 DEF Legal
    <3>2. m[i].span >= 1 /\ Fits(b, m[i])
      BY <2>6, <2>9 DEF Legal
    <3>3. x[i].slot = y[i].slot \/ x[i].span = y[i].span
      BY <2>6
    <3> QED BY <2>6, <2>9, <3>1, <3>2, <3>3
  <2>11. l \in [D -> Spot] /\ i \in D /\ y[i] \in Spot
    BY <2>6, <2>9, <2>10
  <2>12. [l EXCEPT ![i] = y[i]] \in OneGesture(b, l)
    BY <2>9, <2>10, <2>11, FreeGesture
  <2>13. m \in OneGesture(b, l)
    BY <2>9, <2>12
  <2>14. Leads(b, layout, x, l, Cardinality(U \ {i}))
    BY <2>7 DEF l
  <2>15. Leads(b, layout, x, m, Cardinality(U \ {i}) + 1)
    BY <2>8, <2>13, <2>14, LeadsIs
  <2> QED BY <2>3, <2>8, <2>15 DEF m
<1>3. Mix(x, y, T) = y
  <2>1. Mix(x, y, T) \in [D -> Spot] /\ \A j \in D : Mix(x, y, T)[j] = y[j]
    BY <1>1 DEF Mix
  <2> QED BY <2>1
<1> QED BY <1>2, <1>3

\* A layout of blocks of one slot each.
Units(b, D, x) == x \in [D -> Spot] /\ Legal(b, x) /\ \A i \in D : x[i].span = 1

\* Blocks of one slot swept up, as the sweep goes: those between the moved block and its
\* target may give a slot, the others stay.
UnitsSwept(x, id, s, T, out) ==
  /\ out \in [T \cup {id} -> Spot]
  /\ out[id].slot = s /\ out[id].span = 1
  /\ \A j \in T : /\ out[j].span = 1
                  /\ out[j].slot <= x[j].slot
                  /\ x[j].slot > s => out[j].slot = x[j].slot
                  /\ x[j].slot < x[id].slot => out[j].slot = x[j].slot
                  /\ x[j].slot > x[id].slot => out[j].slot >= x[j].slot - 1

\* A block of one slot dragged down goes where it is put: the blocks below its target stay,
\* the others move up if at all.
LEMMA UnitDrag ==
  ASSUME NEW b \in Bounds, NEW D \in SUBSET BlockId, NEW x, Units(b, D, x), NEW id \in D,
         NEW s \in Int, x[id].slot < s, s < b.end
  PROVE  \E y \in OneGesture(b, x) :
           /\ Units(b, D, y) /\ y[id].slot = s
           /\ \A j \in D \ {id} : IF x[j].slot > s THEN y[j].slot = x[j].slot ELSE y[j].slot < s
<1> DEFINE p == Moved(x, id, s)
           S == D \ {id}
<1>1. x \in [D -> Spot]
  BY DEF Units
<1>2. /\ Legal(b, x) /\ DOMAIN x = D /\ b.start \in Int /\ b.end \in Int
      /\ \A i \in D : /\ x[i] \in Spot /\ x[i].slot \in Int /\ x[i].span = 1
                      /\ x[i].slot >= b.start /\ x[i].slot < b.end
      /\ \A i, j \in D : i # j => x[i].slot # x[j].slot
  <2>1. /\ Legal(b, x) /\ DOMAIN x = D /\ b.start \in Int /\ b.end \in Int
        /\ \A i \in D : x[i] \in Spot /\ x[i].slot \in Int /\ x[i].span = 1
    BY <1>1 DEF Units, Bounds, Spot
  <2>2. \A i \in D : x[i].slot >= b.start /\ x[i].slot < b.end
    BY <2>1 DEF Legal, Fits
  <2>3. \A i, j \in D : i # j => x[i].slot # x[j].slot
    BY <2>1 DEF Legal, Overlaps
  <2> QED BY <2>1, <2>2, <2>3
<1>3. p = [slot |-> s, span |-> 1] /\ p \in Spot /\ Fits(b, p)
  <2>1. p = [slot |-> s, span |-> 1]
    BY <1>2 DEF Moved, Spot
  <2> HIDE DEF p
  <2>2. p.slot = s /\ p.span = 1 /\ p \in Spot
    BY <2>1 DEF Spot
  <2> QED BY <1>2, <2>1, <2>2 DEF Fits
<1> HIDE DEF p
<1>4. PICK g : SweptBy(g, b, x, id, p, TRUE)
  BY <1>1, <1>3, SweepFold
<1>5. /\ Sweep(b, x, id, p, TRUE) = g[S]
      /\ g[{}] = [i \in {id} |-> p]
      /\ \A T \in SUBSET S : T # {} =>
           LET i == LastMet(x, TRUE, T) IN g[T] = Cleared(b, x, TRUE, i, g[T \ {i}])
  BY <1>2, <1>4 DEF SweptBy
<1> DEFINE Bad == {T \in SUBSET S : ~UnitsSwept(x, id, s, T, g[T])}
<1>6. ASSUME Bad # {} PROVE FALSE
  <2>1. Bad \in SUBSET (SUBSET S) /\ IsFiniteSet(S)
    BY IdAssumption, FS_Subset
  <2> HIDE DEF Bad
  <2>2. PICK T \in Bad : \A U \in Bad : U \subseteq T => U = T
    BY <1>6, <2>1, LeastSet
  <2>3. T \in SUBSET S /\ ~UnitsSwept(x, id, s, T, g[T]) /\ IsFiniteSet(T)
    BY <2>1, <2>2, FS_Subset DEF Bad
  <2>4. T # {}
    <3>1. UnitsSwept(x, id, s, {}, [i \in {id} |-> p])
      BY <1>3 DEF UnitsSwept
    <3> QED BY <1>5, <2>3, <3>1
  <2> DEFINE i == LastMet(x, TRUE, T)
  <2>5. i \in T /\ (\A j \in T : x[i].slot <= x[j].slot) /\ g[T] = Cleared(b, x, TRUE, i, g[T \ {i}])
    <3>1. T \in SUBSET D
      BY <2>3
    <3>2. i \in T /\ (\A j \in T : x[i].slot <= x[j].slot)
      BY <1>1, <2>3, <2>4, <3>1, LastMetIs
    <3> QED BY <1>5, <2>3, <2>4, <3>2
  <2> HIDE DEF i
  <2>6. T \ {i} \in SUBSET S /\ T \ {i} \notin Bad
    BY <2>2, <2>3, <2>5
  <2> DEFINE E == (T \ {i}) \cup {id}
             out == g[T \ {i}]
             next == Cleared(b, x, TRUE, i, out)
  <2>7. UnitsSwept(x, id, s, T \ {i}, out)
    BY <2>6 DEF Bad
  <2>8. /\ out \in [E -> Spot] /\ E \in SUBSET D /\ i \in D /\ i # id /\ E \cup {i} = T \cup {id} /\ i \notin E
        /\ id \in E
    BY <2>3, <2>5, <2>7 DEF UnitsSwept
  <2> HIDE DEF out
  <2>9. /\ out[id].slot = s /\ out[id].span = 1
        /\ \A j \in T \ {i} :
             /\ out[j].span = 1 /\ out[j].slot <= x[j].slot
             /\ x[j].slot > s => out[j].slot = x[j].slot
             /\ x[j].slot < x[id].slot => out[j].slot = x[j].slot
             /\ x[j].slot > x[id].slot => out[j].slot >= x[j].slot - 1
    BY <2>7 DEF UnitsSwept
  <2>10. /\ \A j \in E : out[j].slot \in Int /\ out[j].span = 1
         /\ \A j \in T \ {i} : x[j].slot \in Int /\ x[j].slot > x[i].slot /\ x[j].slot # x[id].slot
         /\ x[i].slot # x[id].slot /\ x[i].slot \in Int /\ x[id].slot \in Int
    <3>1. \A j \in E : out[j].slot \in Int /\ out[j].span = 1
      BY <2>8, <2>9 DEF Spot
    <3>2. \A j \in T \ {i} : j \in D /\ j # i /\ j # id /\ x[i].slot <= x[j].slot
      BY <2>3, <2>5
    <3> QED BY <1>2, <2>8, <3>1, <3>2
  <2> DEFINE c == IF x[i].slot > x[id].slot /\ x[i].slot <= s THEN x[i].slot - 1 ELSE x[i].slot
  <2>11. /\ c \in Int /\ c <= x[i].slot /\ c >= b.start /\ c # s
         /\ x[i].slot > s => c = x[i].slot
         /\ x[i].slot < x[id].slot => c = x[i].slot
         /\ c >= x[i].slot - 1
    BY <1>2, <2>8, <2>10
  <2>12. \A j \in T \ {i} : out[j].slot > c
    <3> SUFFICES ASSUME NEW j \in T \ {i} PROVE out[j].slot > c
      OBVIOUS
    <3>1. out[j].slot \in Int
      BY <2>8, <2>10
    <3> QED BY <2>9, <2>10, <3>1
  <2> HIDE DEF c
  <2> DEFINE places == Places(b, x[i], Range(out), TRUE)
  <2>13. c \in places
    <3>1. \A f \in Range(out) : \E j \in E : f = out[j]
      BY <2>8 DEF Range
    <3>2. [x[i] EXCEPT !.slot = c].slot = c /\ [x[i] EXCEPT !.slot = c].span = 1 /\ x[i].span = 1
      BY <1>2, <2>8 DEF Spot
    <3>3. \A j \in E : ~Overlaps([x[i] EXCEPT !.slot = c], out[j])
      <4> SUFFICES ASSUME NEW j \in E PROVE ~Overlaps([x[i] EXCEPT !.slot = c], out[j])
        OBVIOUS
      <4>1. out[j].slot # c
        <5>1. CASE j = id
          BY <2>9, <2>11, <5>1
        <5>2. CASE j # id
          BY <2>10, <2>11, <2>12, <5>2
        <5> QED BY <5>1, <5>2
      <4>2. out[j].slot \in Int /\ out[j].span = 1
        BY <2>10
      <4> QED BY <2>11, <3>2, <4>1, <4>2 DEF Overlaps
    <3>4. c \in b.start .. (b.end - x[i].span)
      <4>1. x[i].span = 1 /\ x[i].slot < b.end
        BY <1>2, <2>8
      <4> QED BY <1>2, <2>10, <2>11, <4>1
    <3>5. \A f \in Range(out) : ~Overlaps([x[i] EXCEPT !.slot = c], f)
      BY <3>1, <3>3
    <3> QED BY <2>11, <3>4, <3>5 DEF Places
  <2>14. PutAmong(b, x, TRUE, i, E, out, next)
    <3>1. E \in SUBSET D
      BY <2>8
    <3>2. i \in D
      BY <2>8
    <3>3. out \in [E -> Spot]
      BY <2>8
    <3>4. places # {}
      BY <2>13
    <3> HIDE DEF E, places
    <3>5. IF places = {} THEN next = NoLayout ELSE PutAmong(b, x, TRUE, i, E, out, next)
      BY <1>1, <3>1, <3>2, <3>3, ClearedIs DEF places
    <3> QED BY <3>4, <3>5
  <2> HIDE DEF next
  <2>15. /\ next \in [T \cup {id} -> Spot] /\ next[i].span = 1
         /\ \A j \in E : next[j] = out[j]
    BY <1>2, <2>8, <2>14 DEF PutAmong
  <2>16. next[i].slot <= x[i].slot /\ next[i].slot >= c /\ next[i].slot \in Int
    <3>1. (x[i].slot <= next[i].slot /\ next[i].slot <= c) \/ (x[i].slot >= next[i].slot /\ next[i].slot >= c)
      BY <2>13, <2>14 DEF PutAmong, NearestPlace
    <3>2. next[i].slot \in Int
      BY <2>5, <2>15 DEF Spot
    <3> QED BY <2>10, <2>11, <3>1, <3>2
  <2>17. UnitsSwept(x, id, s, T, next)
    <3>1. next[id].slot = s /\ next[id].span = 1
      BY <2>8, <2>9, <2>15
    <3>2. ASSUME NEW j \in T
          PROVE  /\ next[j].span = 1
                 /\ next[j].slot <= x[j].slot
                 /\ x[j].slot > s => next[j].slot = x[j].slot
                 /\ x[j].slot < x[id].slot => next[j].slot = x[j].slot
                 /\ x[j].slot > x[id].slot => next[j].slot >= x[j].slot - 1
      <4>1. CASE j = i
        BY <2>10, <2>11, <2>15, <2>16, <4>1
      <4>2. CASE j # i
        BY <2>9, <2>15, <4>2
      <4> QED BY <4>1, <4>2
    <3> QED BY <2>15, <3>1, <3>2 DEF UnitsSwept
  <2> QED BY <2>3, <2>5, <2>17 DEF next, out
<1> DEFINE y == Sweep(b, x, id, p, TRUE)
<1>7. UnitsSwept(x, id, s, S, y)
  BY <1>5, <1>6
<1>8. S \cup {id} = D
  OBVIOUS
<1>9. /\ y \in [D -> Spot] /\ y # NoLayout /\ y[id].slot = s
      /\ \A j \in D : y[j].span = 1
  BY <1>7, <1>8, LayoutIsNotNone DEF UnitsSwept
<1> HIDE DEF y
<1>10. y \in OneGesture(b, x)
  <2> DEFINE up == p.slot > x[id].slot
  <2>1. Push(b, x, id, p, FALSE) = Sweep(b, x, id, p, up)
    BY <1>3 DEF Push
  <2>2. up = TRUE
    BY <1>3
  <2> HIDE DEF up
  <2>3. Push(b, x, id, p, FALSE) = y
    BY <2>1, <2>2 DEF y
  <2>4. s \in b.start .. (b.end - 1)
    BY <1>2
  <2>5. \A t \in b.start .. (b.end - 1) :
          Push(b, x, id, Moved(x, id, t), FALSE) # NoLayout
            => Push(b, x, id, Moved(x, id, t), FALSE) \in OneGesture(b, x)
    BY <1>2, OneGestureIs
  <2> QED BY <1>9, <2>3, <2>4, <2>5 DEF p
<1>11. Units(b, D, y)
  <2>1. Legal(b, y)
    BY <1>1, <1>2, <1>10, GestureIsLegal
  <2> QED BY <1>9, <2>1 DEF Units
<1>12. ASSUME NEW j \in D \ {id} PROVE IF x[j].slot > s THEN y[j].slot = x[j].slot ELSE y[j].slot < s
  <2>1. y[j].slot <= x[j].slot /\ (x[j].slot > s => y[j].slot = x[j].slot)
    BY <1>7 DEF UnitsSwept, y
  <2>2. y[j].slot \in Int /\ x[j].slot \in Int
    BY <1>2, <1>9 DEF Spot
  <2>3. y[j].slot # s
    <3>1. ~Overlaps(y[j], y[id]) /\ y[j].span = 1 /\ y[id].span = 1 /\ y[id].slot = s
      BY <1>9, <1>11 DEF Units, Legal
    <3> QED BY <2>2, <3>1 DEF Overlaps
  <2> QED BY <2>1, <2>2, <2>3
<1> QED BY <1>9, <1>10, <1>11, <1>12

\* Where block i goes when the blocks, one slot each, are packed at the end of the day in
\* the order of y.
Place(b, y, i) == b.end - Cardinality({j \in DOMAIN y : y[j].slot >= y[i].slot})

Bottom(b, y) == [i \in DOMAIN y |-> [slot |-> Place(b, y, i), span |-> 1]]

\* Every block where it is, but of one slot.
Shrunk(y) == [i \in DOMAIN y |-> [slot |-> y[i].slot, span |-> 1]]

Long(y) == {i \in DOMAIN y : y[i].span > 1}

LEMMA PlaceIs ==
  ASSUME NEW b \in Bounds, NEW D \in SUBSET BlockId, NEW y \in [D -> Spot], Legal(b, y)
  PROVE  /\ \A i \in D : Place(b, y, i) \in Int /\ Place(b, y, i) >= y[i].slot /\ Place(b, y, i) < b.end
         /\ \A i, j \in D : y[i].slot < y[j].slot => Place(b, y, i) < Place(b, y, j)
<1> DEFINE From(i) == {j \in D : y[j].slot >= y[i].slot}
<1>1. /\ DOMAIN y = D /\ b.start \in Int /\ b.end \in Int
      /\ \A i \in D : /\ y[i].slot \in Int /\ y[i].span \in Int /\ y[i].span >= 1
                      /\ y[i].slot >= b.start /\ y[i].slot + y[i].span <= b.end
  BY DEF Bounds, Spot, Legal, Fits
<1>2. \A i \in D : From(i) \in SUBSET D /\ i \in From(i) /\ \A j \in From(i) : y[j].slot >= y[i].slot
  BY <1>1
<1>3. \A i \in D : Place(b, y, i) = b.end - Cardinality(From(i))
  BY <1>1 DEF Place
<1>4. ASSUME NEW i \in D, NEW j \in D, y[i].slot < y[j].slot
      PROVE  From(j) \subseteq From(i) \ {i}
  BY <1>1, <1>4
<1> HIDE DEF From
<1>5. IsFiniteSet(D) /\ \A i \in D : Spans(y)[i] \in Int /\ Spans(y)[i] >= 1
  BY <1>1, IdAssumption, FS_Subset DEF Spans
<1>6. ASSUME NEW i \in D
      PROVE  /\ IsFiniteSet(From(i)) /\ Cardinality(From(i)) \in Nat
             /\ Cardinality(From(i)) >= 1 /\ Cardinality(From(i)) <= b.end - y[i].slot
  <2>1. IsFiniteSet(From(i)) /\ Cardinality(From(i)) \in Nat
    BY <1>2, <1>5, FS_Subset, FS_CardinalityType
  <2>2. Cardinality(From(i)) >= 1
    <3>1. Cardinality({i}) = 1 /\ {i} \in SUBSET From(i)
      BY <1>2, FS_Singleton
    <3> QED BY <2>1, <3>1, FS_Subset
  <2> DEFINE from == y[i].slot
  <2>3. from \in Int /\ from <= b.end /\ \A j \in From(i) : y[j].slot >= from
    BY <1>1, <1>2
  <2> HIDE DEF from
  <2>4. From(i) \in SUBSET D
    BY <1>2
  <2>5. Total(Spans(y), From(i)) <= b.end - from
    BY <2>3, <2>4, RunsFit
  <2>6. {} \in SUBSET From(i) /\ From(i) \ {} = From(i) /\ Total(Spans(y), {}) = 0
    BY <1>5, TotalFold
  <2>7. Total(Spans(y), From(i)) >= Total(Spans(y), {}) + Cardinality(From(i) \ {})
    BY <1>5, <2>1, <2>4, <2>6, TotalGrows
  <2>8. Total(Spans(y), From(i)) \in Int
    BY <1>5, <2>4, TotalType
  <2>9. Cardinality(From(i)) <= b.end - from
    BY <1>1, <2>1, <2>3, <2>5, <2>6, <2>7, <2>8
  <2> QED BY <2>1, <2>2, <2>9 DEF from
<1>7. ASSUME NEW i \in D, NEW j \in D, y[i].slot < y[j].slot
      PROVE  Place(b, y, i) < Place(b, y, j)
  <2>1. IsFiniteSet(From(i) \ {i}) /\ Cardinality(From(i) \ {i}) = Cardinality(From(i)) - 1
    BY <1>2, <1>6, FS_RemoveElement
  <2>2. Cardinality(From(j)) <= Cardinality(From(i) \ {i})
    BY <1>4, <1>7, <2>1, FS_Subset
  <2>3. Cardinality(From(i)) \in Nat /\ Cardinality(From(j)) \in Nat
    BY <1>6
  <2> QED BY <1>1, <1>3, <2>1, <2>2, <2>3
<1>8. ASSUME NEW i \in D
      PROVE  Place(b, y, i) \in Int /\ Place(b, y, i) >= y[i].slot /\ Place(b, y, i) < b.end
  <2>1. Cardinality(From(i)) \in Nat /\ Cardinality(From(i)) >= 1 /\ Cardinality(From(i)) <= b.end - y[i].slot
    BY <1>6
  <2>2. b.end \in Int /\ y[i].slot \in Int
    BY <1>1
  <2> QED BY <1>3, <2>1, <2>2
<1> QED BY <1>7, <1>8

\* Some of the blocks shortened to one slot.
Shorter(D, y, m) ==
  /\ m \in [D -> Spot]
  /\ \A i \in D : m[i].slot = y[i].slot /\ (m[i].span = 1 \/ m[i].span = y[i].span)

LEMMA ShorterIsLegal ==
  ASSUME NEW b \in Bounds, NEW D \in SUBSET BlockId, NEW y \in [D -> Spot], Legal(b, y),
         NEW m, Shorter(D, y, m)
  PROVE  Legal(b, m)
<1>1. /\ b.start \in Int /\ b.end \in Int /\ DOMAIN m = D
      /\ \A i \in D : /\ y[i].slot \in Int /\ y[i].span \in Int /\ y[i].span >= 1
                      /\ y[i].slot >= b.start /\ y[i].slot + y[i].span <= b.end
                      /\ m[i].slot = y[i].slot /\ m[i].span \in Int
                      /\ m[i].span >= 1 /\ m[i].span <= y[i].span
  BY DEF Bounds, Spot, Legal, Fits, Shorter
<1>2. ASSUME NEW i \in D, NEW j \in D, i # j PROVE ~Overlaps(m[i], m[j])
  <2>1. ~Overlaps(y[i], y[j])
    BY <1>2 DEF Legal
  <2> QED BY <1>1, <2>1 DEF Overlaps
<1>3. \A i \in D : m[i].span >= 1 /\ Fits(b, m[i])
  BY <1>1 DEF Fits
<1> QED BY <1>1, <1>2, <1>3 DEF Legal

LEMMA ShrunkIs ==
  ASSUME NEW b \in Bounds, NEW D \in SUBSET BlockId, NEW y \in [D -> Spot], Legal(b, y), NEW layout
  PROVE  /\ Units(b, D, Shrunk(y))
         /\ Leads(b, layout, y, Shrunk(y), Cardinality(Long(y)))
         /\ Leads(b, layout, Shrunk(y), y, Cardinality(Long(y)))
<1> DEFINE x == Shrunk(y)
           T == Long(y)
           C == SUBSET T
<1>1. /\ x \in [D -> Spot] /\ \A i \in D : x[i].slot = y[i].slot /\ x[i].span = 1
      /\ T \in SUBSET D
  BY DEF Shrunk, Spot, Long
<1>2. \A i \in D \ T : x[i] = y[i]
  <2> SUFFICES ASSUME NEW i \in D \ T PROVE x[i] = y[i]
    OBVIOUS
  <2>1. y[i] \in Spot /\ y[i].span = 1
    <3>1. y[i].span \in Int /\ y[i].span >= 1 /\ ~(y[i].span > 1)
      BY DEF Spot, Legal, Long
    <3> QED BY <3>1
  <2> QED BY <2>1 DEF Shrunk, Spot
<1> HIDE DEF x, T
<1>3. ASSUME NEW U PROVE Legal(b, Mix(x, y, U)) /\ Legal(b, Mix(y, x, U))
  <2>1. Shorter(D, y, Mix(x, y, U))
    <3> DEFINE m == Mix(x, y, U)
    <3>1. m \in [D -> Spot] /\ \A i \in D : m[i] = IF i \in U THEN y[i] ELSE x[i]
      BY <1>1 DEF Mix
    <3> HIDE DEF m
    <3>2. \A i \in D : m[i].slot = y[i].slot /\ (m[i].span = 1 \/ m[i].span = y[i].span)
      BY <1>1, <3>1
    <3> QED BY <3>1, <3>2 DEF Shorter, m
  <2>2. Shorter(D, y, Mix(y, x, U))
    <3> DEFINE m == Mix(y, x, U)
    <3>1. m \in [D -> Spot] /\ \A i \in D : m[i] = IF i \in U THEN x[i] ELSE y[i]
      BY <1>1 DEF Mix
    <3> HIDE DEF m
    <3>2. \A i \in D : m[i].slot = y[i].slot /\ (m[i].span = 1 \/ m[i].span = y[i].span)
      BY <1>1, <3>1
    <3> QED BY <3>1, <3>2 DEF Shorter, m
  <2> QED BY <2>1, <2>2, ShorterIsLegal
<1>4. Units(b, D, x)
  <2>1. Shorter(D, y, x)
    BY <1>1 DEF Shorter
  <2>2. Legal(b, x)
    BY <2>1, ShorterIsLegal
  <2> QED BY <1>1, <2>2 DEF Units
<1>5. /\ C \in SUBSET (SUBSET T) /\ T \in C
      /\ \A U \in C : U # {} => \E i \in U : U \ {i} \in C
      /\ \A i \in T : x[i].slot = y[i].slot /\ y[i].slot = x[i].slot
  BY <1>1
<1> HIDE DEF C
<1>6. Leads(b, layout, x, y, Cardinality(T))
  BY <1>1, <1>2, <1>3, <1>5, OneByOne
<1>7. Leads(b, layout, y, x, Cardinality(T))
  BY <1>1, <1>2, <1>3, <1>5, OneByOne
<1> QED BY <1>4, <1>6, <1>7 DEF x, T

\* A slot for each block of a legal layout, and a second one for each long block.
LEMMA LongFit ==
  ASSUME NEW b \in Bounds, NEW D \in SUBSET BlockId, NEW y \in [D -> Spot], Legal(b, y), b.start <= b.end
  PROVE  /\ Cardinality(D) \in Nat /\ Cardinality(Long(y)) \in Nat
         /\ Cardinality(D) + Cardinality(Long(y)) <= b.end - b.start
<1> DEFINE span == Spans(y)
           Lengthy(T) == {i \in T : span[i] > 1}
           Enough(T) == Total(span, T) >= Cardinality(T) + Cardinality(Lengthy(T))
           Bad == {T \in SUBSET D : ~Enough(T)}
<1>1. /\ IsFiniteSet(D) /\ b.start \in Int /\ b.end \in Int
      /\ \A i \in D : span[i] \in Int /\ span[i] >= 1 /\ y[i].slot >= b.start
      /\ Long(y) = Lengthy(D)
  BY IdAssumption, FS_Subset DEF Bounds, Spans, Spot, Legal, Fits, Long
<1> HIDE DEF span
<1>2. \A T \in SUBSET D : /\ IsFiniteSet(T) /\ IsFiniteSet(Lengthy(T)) /\ Total(span, T) \in Int
                          /\ Cardinality(T) \in Nat /\ Cardinality(Lengthy(T)) \in Nat
  <2> SUFFICES ASSUME NEW T \in SUBSET D
               PROVE  /\ IsFiniteSet(T) /\ IsFiniteSet(Lengthy(T)) /\ Total(span, T) \in Int
                      /\ Cardinality(T) \in Nat /\ Cardinality(Lengthy(T)) \in Nat
    OBVIOUS
  <2>1. Lengthy(T) \in SUBSET D
    OBVIOUS
  <2> HIDE DEF Lengthy
  <2> QED BY <1>1, <2>1, TotalType, FS_Subset, FS_CardinalityType
<1>3. ASSUME Bad # {} PROVE FALSE
  <2>1. Bad \in SUBSET (SUBSET D)
    OBVIOUS
  <2> HIDE DEF Bad
  <2>2. PICK T \in Bad : \A U \in Bad : U \subseteq T => U = T
    BY <1>1, <1>3, <2>1, LeastSet
  <2>3. T \in SUBSET D /\ ~Enough(T)
    BY <2>2 DEF Bad
  <2>4. T # {}
    <3>1. Lengthy({}) = {} /\ Cardinality({}) = 0 /\ Total(span, {}) = 0
      BY <1>1, FS_EmptySet, TotalFold
    <3> QED BY <2>3, <3>1
  <2>5. PICK i \in T : TRUE
    BY <2>4
  <2>6. T \ {i} \in SUBSET D /\ T \ {i} \notin Bad /\ i \in D
    BY <2>2, <2>3, <2>5
  <2>7. Enough(T \ {i})
    BY <2>6 DEF Bad
  <2>8. Total(span, T) = span[i] + Total(span, T \ {i})
    BY <1>1, <1>2, <2>3, <2>5, TotalSplit
  <2>9. Cardinality(T \ {i}) = Cardinality(T) - 1
    BY <1>2, <2>3, <2>5, FS_RemoveElement
  <2>10. Cardinality(Lengthy(T \ {i})) = IF span[i] > 1 THEN Cardinality(Lengthy(T)) - 1 ELSE Cardinality(Lengthy(T))
    <3>1. CASE span[i] > 1
      <4>1. i \in Lengthy(T) /\ Lengthy(T \ {i}) = Lengthy(T) \ {i}
        BY <2>5, <3>1
      <4> HIDE DEF Lengthy
      <4>2. IsFiniteSet(Lengthy(T))
        BY <1>2, <2>3
      <4>3. Cardinality(Lengthy(T) \ {i}) = Cardinality(Lengthy(T)) - 1
        BY <4>1, <4>2, FS_RemoveElement
      <4> QED BY <3>1, <4>1, <4>3
    <3>2. CASE ~(span[i] > 1)
      <4>1. Lengthy(T \ {i}) = Lengthy(T)
        BY <3>2
      <4> HIDE DEF Lengthy
      <4> QED BY <3>2, <4>1
    <3> QED BY <3>1, <3>2
  <2> HIDE DEF Lengthy
  <2>11. /\ Total(span, T) \in Int /\ Total(span, T \ {i}) \in Int /\ span[i] \in Int /\ span[i] >= 1
         /\ Cardinality(T) \in Nat /\ Cardinality(Lengthy(T)) \in Nat
    BY <1>1, <1>2, <2>3, <2>6
  <2>12. /\ Total(span, T \ {i}) >= Cardinality(T \ {i}) + Cardinality(Lengthy(T \ {i}))
         /\ ~(Total(span, T) >= Cardinality(T) + Cardinality(Lengthy(T)))
    BY <2>3, <2>7
  <2>13. CASE span[i] > 1
    BY <2>8, <2>9, <2>10, <2>11, <2>12, <2>13
  <2>14. CASE ~(span[i] > 1)
    BY <2>8, <2>9, <2>10, <2>11, <2>12, <2>14
  <2> QED BY <2>13, <2>14
<1>4. Enough(D)
  BY <1>3
<1> DEFINE from == b.start
<1>5. from \in Int /\ from <= b.end /\ \A i \in D : y[i].slot >= from
  BY <1>1
<1> HIDE DEF from
<1>6. D \in SUBSET D
  OBVIOUS
<1>7. Total(span, D) <= b.end - from
  BY <1>5, <1>6, RunsFit DEF span
<1> HIDE DEF Lengthy
<1> QED BY <1>1, <1>2, <1>4, <1>7 DEF from

\* The blocks of U packed at the end of the day, the others above them.
PackedBelow(b, D, y, U, x) ==
  /\ Units(b, D, x)
  /\ \A i \in U : x[i].slot = Place(b, y, i) /\ x[i].slot >= b.end - Cardinality(U)
  /\ \A i \in D \ U : x[i].slot < b.end - Cardinality(U)

\* Dragging each block to the end of the day, the last one first, packs blocks of one slot
\* there in any order.
LEMMA SortDown ==
  ASSUME NEW b \in Bounds, NEW D \in SUBSET BlockId, NEW y \in [D -> Spot], Legal(b, y),
         NEW u, Units(b, D, u), NEW layout
  PROVE  Leads(b, layout, u, Bottom(b, y), Cardinality(D))
<1> DEFINE C == {U \in SUBSET D : \A i \in U : \A j \in D : y[j].slot > y[i].slot => j \in U}
           Done(U) == \E x : PackedBelow(b, D, y, U, x) /\ Leads(b, layout, u, x, Cardinality(U))
           Bad == {U \in C : ~Done(U)}
<1>1. /\ IsFiniteSet(D) /\ b.start \in Int /\ b.end \in Int /\ DOMAIN y = D
      /\ \A i \in D : y[i].slot \in Int
      /\ \A i, j \in D : i # j => y[i].slot # y[j].slot
  <2>1. /\ IsFiniteSet(D) /\ b.start \in Int /\ b.end \in Int /\ DOMAIN y = D
        /\ \A i \in D : y[i].slot \in Int /\ y[i].span \in Int /\ y[i].span >= 1
    BY IdAssumption, FS_Subset DEF Bounds, Spot, Legal
  <2>2. \A i, j \in D : i # j => y[i].slot # y[j].slot
    BY <2>1 DEF Legal, Overlaps
  <2> QED BY <2>1, <2>2
<1>2. ASSUME Bad # {} PROVE FALSE
  <2>1. Bad \in SUBSET (SUBSET D)
    OBVIOUS
  <2> HIDE DEF Bad
  <2>2. PICK U \in Bad : \A V \in Bad : V \subseteq U => V = U
    BY <1>1, <1>2, <2>1, LeastSet
  <2>3. U \in C /\ ~Done(U)
    BY <2>2 DEF Bad
  <2>4. U \in SUBSET D /\ IsFiniteSet(U) /\ Cardinality(U) \in Nat
    BY <1>1, <2>3, FS_Subset, FS_CardinalityType
  <2>5. U # {}
    <3>1. \A i \in D : u[i].slot < b.end /\ u[i].slot \in Int
      <4>1. \A i \in D : u[i].slot \in Int /\ u[i].span = 1 /\ Fits(b, u[i])
        BY DEF Units, Legal, Spot
      <4> QED BY <1>1, <4>1 DEF Fits
    <3>2. Cardinality({}) = 0 /\ b.end - 0 = b.end
      BY <1>1, FS_EmptySet
    <3>3. PackedBelow(b, D, y, {}, u)
      BY <3>1, <3>2 DEF PackedBelow
    <3>4. Leads(b, layout, u, u, 0)
      BY LeadsIs
    <3> QED BY <2>3, <3>2, <3>3, <3>4
  <2> DEFINE i == LastMet(y, TRUE, U)
  <2>6. i \in U /\ \A j \in U : y[i].slot <= y[j].slot
    BY <2>4, <2>5, LastMetIs
  <2> HIDE DEF i
  <2>7. U \ {i} \in C /\ U \ {i} \notin Bad /\ i \in D
    <3>1. ASSUME NEW k \in U \ {i}, NEW j \in D, y[j].slot > y[k].slot PROVE j \in U \ {i}
      <4>1. j \in U
        BY <2>3, <3>1
      <4>2. y[i].slot <= y[k].slot /\ y[i].slot \in Int /\ y[k].slot \in Int /\ y[j].slot \in Int
        BY <1>1, <2>4, <2>6
      <4>3. j # i
        BY <3>1, <4>2
      <4> QED BY <4>1, <4>3
    <3>2. U \ {i} \in C
      BY <2>4, <3>1
    <3>3. U \ {i} \notin Bad
      BY <2>2, <2>6
    <3> QED BY <2>4, <2>6, <3>2, <3>3
  <2>8. Done(U \ {i})
    BY <2>7 DEF Bad
  <2> DEFINE k == Cardinality(U \ {i})
  <2>9. PICK x : PackedBelow(b, D, y, U \ {i}, x) /\ Leads(b, layout, u, x, k)
    BY <2>8
  <2>10. k \in Nat /\ Cardinality(U) = k + 1
    <3>1. IsFiniteSet(U \ {i}) /\ k = Cardinality(U) - 1
      BY <2>4, <2>6, FS_RemoveElement
    <3>2. k \in Nat
      BY <3>1, FS_CardinalityType
    <3> QED BY <2>4, <3>1, <3>2
  <2>11. Place(b, y, i) = b.end - Cardinality(U)
    <3>1. {j \in D : y[j].slot >= y[i].slot} = U
      <4>1. ASSUME NEW j \in D, y[j].slot >= y[i].slot PROVE j \in U
        <5>1. CASE j = i
          BY <2>6, <5>1
        <5>2. CASE j # i
          <6>1. y[j].slot > y[i].slot
            BY <1>1, <2>7, <4>1, <5>2
          <6> QED BY <2>3, <2>6, <6>1
        <5> QED BY <5>1, <5>2
      <4>2. ASSUME NEW j \in U PROVE j \in D /\ y[j].slot >= y[i].slot
        BY <1>1, <2>4, <2>6, <2>7
      <4> QED BY <4>1, <4>2
    <3> QED BY <1>1, <3>1 DEF Place
  <2>12. /\ Units(b, D, x)
         /\ \A j \in U \ {i} : x[j].slot = Place(b, y, j) /\ x[j].slot >= b.end - k
         /\ \A j \in D \ (U \ {i}) : x[j].slot < b.end - k
    BY <2>9 DEF PackedBelow
  <2> HIDE DEF k, C, Done
  <2> DEFINE s == b.end - (k + 1)
  <2>13. s \in Int /\ s < b.end /\ s = Place(b, y, i) /\ b.end - k = s + 1 /\ Cardinality(U) = k + 1
    BY <1>1, <2>10, <2>11
  <2>14. /\ \A j \in D : x[j].slot \in Int /\ x[j].span = 1
         /\ \A j, m \in D : j # m => x[j].slot # x[m].slot
    <3>1. \A j \in D : x[j].slot \in Int /\ x[j].span = 1
      BY <2>12 DEF Units, Spot
    <3>2. \A j, m \in D : j # m => ~Overlaps(x[j], x[m])
      BY <2>12 DEF Units, Legal
    <3> QED BY <3>1, <3>2 DEF Overlaps
  <2>15. s = b.end - Cardinality(U)
    BY <2>13
  <2> HIDE DEF s
  <2>16. x[i].slot <= s
    <3>1. x[i].slot < s + 1 /\ x[i].slot \in Int
      BY <2>7, <2>12, <2>13, <2>14
    <3> QED BY <2>13, <3>1
  <2>17. CASE x[i].slot = s
    <3>1. ASSUME NEW j \in U PROVE x[j].slot = Place(b, y, j) /\ x[j].slot >= s
      <4>1. CASE j = i
        BY <2>13, <2>17, <4>1
      <4>2. CASE j # i
        <5>1. j \in D /\ x[j].slot = Place(b, y, j) /\ x[j].slot >= s + 1 /\ x[j].slot \in Int
          BY <2>4, <2>12, <2>13, <2>14, <4>2
        <5> QED BY <2>13, <5>1
      <4> QED BY <4>1, <4>2
    <3>2. ASSUME NEW j \in D \ U PROVE x[j].slot < s
      <4>1. x[j].slot < s + 1 /\ x[j].slot \in Int /\ x[j].slot # s
        BY <2>6, <2>7, <2>12, <2>13, <2>14, <2>17
      <4> QED BY <2>13, <4>1
    <3>3. PackedBelow(b, D, y, U, x)
      BY <2>12, <2>15, <3>1, <3>2 DEF PackedBelow
    <3>4. Leads(b, layout, u, x, k + 1)
      BY <2>9, <2>10, LeadsIs
    <3> QED BY <2>3, <2>13, <3>3, <3>4 DEF Done
  <2>18. CASE x[i].slot < s
    <3>1. PICK z \in OneGesture(b, x) :
            /\ Units(b, D, z) /\ z[i].slot = s
            /\ \A j \in D \ {i} : IF x[j].slot > s THEN z[j].slot = x[j].slot ELSE z[j].slot < s
      BY <2>7, <2>12, <2>13, <2>18, UnitDrag
    <3>2. ASSUME NEW j \in U PROVE z[j].slot = Place(b, y, j) /\ z[j].slot >= s
      <4>1. CASE j = i
        BY <2>13, <3>1, <4>1
      <4>2. CASE j # i
        <5>1. j \in D /\ x[j].slot = Place(b, y, j) /\ x[j].slot >= s + 1 /\ x[j].slot \in Int
          BY <2>4, <2>12, <2>13, <2>14, <4>2
        <5>2. x[j].slot > s /\ x[j].slot >= s
          BY <2>13, <5>1
        <5> QED BY <3>1, <4>2, <5>1, <5>2
      <4> QED BY <4>1, <4>2
    <3>3. ASSUME NEW j \in D \ U PROVE z[j].slot < s
      <4>1. x[j].slot < s + 1 /\ x[j].slot \in Int /\ j # i
        BY <2>6, <2>12, <2>13, <2>14
      <4>2. ~(x[j].slot > s)
        BY <2>13, <4>1
      <4> QED BY <3>1, <4>1, <4>2
    <3>4. PackedBelow(b, D, y, U, z)
      BY <2>15, <3>1, <3>2, <3>3 DEF PackedBelow
    <3>5. Leads(b, layout, u, z, k + 1)
      BY <2>9, <2>10, <3>1, LeadsIs
    <3> QED BY <2>3, <2>13, <3>4, <3>5 DEF Done
  <2>19. x[i].slot \in Int
    BY <2>7, <2>14
  <2> QED BY <2>13, <2>16, <2>17, <2>18, <2>19
<1>3. D \in C
  OBVIOUS
<1>4. PICK x : PackedBelow(b, D, y, D, x) /\ Leads(b, layout, u, x, Cardinality(D))
  BY <1>2, <1>3
<1>5. x = Bottom(b, y)
  <2>1. x \in [D -> Spot] /\ \A i \in D : x[i].slot = Place(b, y, i) /\ x[i].span = 1
    BY <1>4 DEF PackedBelow, Units
  <2>2. \A i \in D : x[i] = [slot |-> Place(b, y, i), span |-> 1]
    BY <2>1 DEF Spot
  <2> QED BY <1>1, <2>1, <2>2 DEF Bottom
<1> QED BY <1>4, <1>5

\* From there each block, the first one first, can be dragged up to where it belongs.
LEMMA SpreadUp ==
  ASSUME NEW b \in Bounds, NEW D \in SUBSET BlockId, NEW y \in [D -> Spot], Legal(b, y), NEW layout
  PROVE  Leads(b, layout, Bottom(b, y), Shrunk(y), Cardinality(D))
<1> DEFINE x == Bottom(b, y)
           z == Shrunk(y)
           C == {U \in SUBSET D : \A i \in U : \A j \in D : y[j].slot < y[i].slot => j \in U}
<1>1. /\ IsFiniteSet(D) /\ b.start \in Int /\ b.end \in Int /\ DOMAIN y = D
      /\ \A i \in D : y[i].slot \in Int /\ y[i].slot >= b.start /\ y[i].slot < b.end
      /\ \A i, j \in D : i # j => y[i].slot # y[j].slot
  <2>1. /\ IsFiniteSet(D) /\ b.start \in Int /\ b.end \in Int /\ DOMAIN y = D
        /\ \A i \in D : y[i].slot \in Int /\ y[i].span \in Int /\ y[i].span >= 1
    BY IdAssumption, FS_Subset DEF Bounds, Spot, Legal
  <2>2. \A i, j \in D : i # j => y[i].slot # y[j].slot
    BY <2>1 DEF Legal, Overlaps
  <2>3. \A i \in D : y[i].slot >= b.start /\ y[i].slot < b.end
    BY <2>1 DEF Legal, Fits
  <2> QED BY <2>1, <2>2, <2>3
<1>2. /\ \A i \in D : Place(b, y, i) \in Int /\ Place(b, y, i) >= y[i].slot /\ Place(b, y, i) < b.end
      /\ \A i, j \in D : y[i].slot < y[j].slot => Place(b, y, i) < Place(b, y, j)
  BY PlaceIs
<1>3. /\ x \in [D -> Spot] /\ \A i \in D : x[i].slot = Place(b, y, i) /\ x[i].span = 1
      /\ z \in [D -> Spot] /\ \A i \in D : z[i].slot = y[i].slot /\ z[i].span = 1
  BY <1>1, <1>2 DEF Bottom, Shrunk, Spot
<1> HIDE DEF x, z
<1>4. ASSUME NEW U \in C PROVE Legal(b, Mix(x, z, U))
  <2> DEFINE m == Mix(x, z, U)
  <2>1. m \in [D -> Spot] /\ \A i \in D : m[i] = IF i \in U THEN z[i] ELSE x[i]
    BY <1>3 DEF Mix
  <2>2. U \in SUBSET D /\ \A i \in U : \A j \in D : y[j].slot < y[i].slot => j \in U
    OBVIOUS
  <2> HIDE DEF m, C
  <2>3. \A i \in D : /\ m[i].slot = IF i \in U THEN y[i].slot ELSE Place(b, y, i)
                     /\ m[i].span = 1
    BY <1>3, <2>1
  <2>4. \A i \in D : m[i].slot \in Int /\ m[i].slot >= b.start /\ m[i].slot < b.end
    <3> SUFFICES ASSUME NEW i \in D PROVE m[i].slot \in Int /\ m[i].slot >= b.start /\ m[i].slot < b.end
      OBVIOUS
    <3>1. /\ Place(b, y, i) \in Int /\ Place(b, y, i) >= y[i].slot /\ Place(b, y, i) < b.end
          /\ y[i].slot \in Int /\ y[i].slot >= b.start /\ y[i].slot < b.end
      BY <1>1, <1>2
    <3> QED BY <1>1, <2>3, <3>1
  <2>5. ASSUME NEW i \in D, NEW j \in D, y[i].slot < y[j].slot PROVE m[i].slot < m[j].slot
    <3>1. /\ Place(b, y, i) < Place(b, y, j) /\ y[i].slot <= Place(b, y, i)
          /\ Place(b, y, i) \in Int /\ Place(b, y, j) \in Int /\ y[i].slot \in Int /\ y[j].slot \in Int
      BY <1>1, <1>2, <2>5
    <3>2. j \in U => i \in U
      BY <2>2, <2>5
    <3> QED BY <2>3, <2>5, <3>1, <3>2
  <2>6. ASSUME NEW i \in D, NEW j \in D, i # j PROVE ~Overlaps(m[i], m[j])
    <3>1. m[i].slot # m[j].slot
      <4>1. y[i].slot < y[j].slot \/ y[j].slot < y[i].slot
        BY <1>1, <2>6
      <4>2. m[i].slot < m[j].slot \/ m[j].slot < m[i].slot
        BY <2>5, <4>1
      <4> QED BY <2>4, <4>2
    <3>2. m[i].slot \in Int /\ m[j].slot \in Int /\ m[i].span = 1 /\ m[j].span = 1
      BY <2>3, <2>4
    <3> QED BY <3>1, <3>2 DEF Overlaps
  <2>7. \A i \in D : m[i].span >= 1 /\ Fits(b, m[i])
    <3> SUFFICES ASSUME NEW i \in D PROVE m[i].span >= 1 /\ Fits(b, m[i])
      OBVIOUS
    <3>1. m[i].slot \in Int /\ m[i].slot >= b.start /\ m[i].slot < b.end /\ m[i].span = 1
      BY <2>3, <2>4
    <3> QED BY <1>1, <3>1 DEF Fits
  <2>8. Legal(b, m)
    BY <2>1, <2>6, <2>7 DEF Legal
  <2> QED BY <2>8 DEF m
<1>5. ASSUME NEW U \in C, U # {} PROVE \E i \in U : U \ {i} \in C
  <2> DEFINE i == LastMet(y, FALSE, U)
  <2>1. U \in SUBSET D /\ IsFiniteSet(U)
    BY <1>1, FS_Subset
  <2>2. i \in U /\ \A j \in U : y[i].slot >= y[j].slot
    BY <1>5, <2>1, LastMetIs
  <2> HIDE DEF i
  <2>3. ASSUME NEW k \in U \ {i}, NEW j \in D, y[j].slot < y[k].slot PROVE j \in U \ {i}
    <3>1. j \in U
      BY <2>3
    <3>2. y[i].slot >= y[k].slot /\ y[i].slot \in Int /\ y[k].slot \in Int /\ y[j].slot \in Int
      BY <1>1, <2>1, <2>2
    <3>3. j # i
      BY <2>3, <3>2
    <3> QED BY <3>1, <3>3
  <2>4. U \ {i} \in C
    BY <2>1, <2>3
  <2> QED BY <2>2, <2>4
<1>6. /\ D \in SUBSET D /\ C \in SUBSET (SUBSET D) /\ D \in C
      /\ \A i \in D \ D : x[i] = z[i]
      /\ \A i \in D : x[i].slot = z[i].slot \/ x[i].span = z[i].span
  BY <1>3
<1>7. (\A U \in C : Legal(b, Mix(x, z, U))) /\ (\A U \in C : U # {} => \E i \in U : U \ {i} \in C)
  BY <1>4, <1>5
<1> HIDE DEF C
<1>8. D \in SUBSET D
  OBVIOUS
<1>9. C \in SUBSET (SUBSET D)
  BY <1>6
<1>10. x \in [D -> Spot] /\ z \in [D -> Spot]
  BY <1>3
<1>11. Leads(b, layout, x, z, Cardinality(D))
  BY <1>6, <1>7, <1>8, <1>9, <1>10, OneByOne
<1> QED BY <1>11 DEF x, z

LEMMA ReachedGrows ==
  ASSUME NEW b, NEW layout, NEW m \in Nat, NEW n \in Nat, m <= n
  PROVE  Reached(b, layout, m) \subseteq Reached(b, layout, n)
<1> DEFINE Bad == {k \in Nat : m <= k /\ ~(Reached(b, layout, m) \subseteq Reached(b, layout, k))}
<1>1. ASSUME Bad # {} PROVE FALSE
  <2>1. Bad \subseteq Nat
    OBVIOUS
  <2> HIDE DEF Bad
  <2>2. PICK k \in Bad : \A j \in Bad : k <= j
    BY <1>1, <2>1, LeastNat
  <2>3. k \in Nat /\ m <= k /\ ~(Reached(b, layout, m) \subseteq Reached(b, layout, k))
    BY <2>2 DEF Bad
  <2>4. k # m
    BY <2>3
  <2> DEFINE j == k - 1
  <2>5. j \in Nat /\ m <= j /\ k = j + 1 /\ ~(k <= j)
    BY <2>3, <2>4
  <2> HIDE DEF j
  <2>6. j \notin Bad
    BY <2>2, <2>5
  <2>7. Reached(b, layout, m) \subseteq Reached(b, layout, j)
    BY <2>5, <2>6 DEF Bad
  <2>8. Reached(b, layout, j) \subseteq Reached(b, layout, j + 1)
    BY <2>5, ReachedIs
  <2> QED BY <2>3, <2>5, <2>7, <2>8
<1> QED BY <1>1

LEMMA ReachedAreLegal ==
  ASSUME NEW b \in Bounds, NEW D \in SUBSET BlockId, NEW l \in [D -> Spot], Legal(b, l), NEW n \in Nat
  PROVE  \A y \in Reached(b, l, n) : y \in [D -> Spot] /\ Legal(b, y)
<1> DEFINE Sane(y) == y \in [D -> Spot] /\ Legal(b, y)
           Bad == {k \in Nat : ~(\A y \in Reached(b, l, k) : Sane(y))}
<1>1. ASSUME Bad # {} PROVE FALSE
  <2>1. Bad \subseteq Nat
    OBVIOUS
  <2> HIDE DEF Bad
  <2>2. PICK k \in Bad : \A j \in Bad : k <= j
    BY <1>1, <2>1, LeastNat
  <2>3. k \in Nat /\ ~(\A y \in Reached(b, l, k) : Sane(y))
    BY <2>2 DEF Bad
  <2>4. k # 0
    BY <2>3, ReachedIs
  <2> DEFINE j == k - 1
  <2>5. j \in Nat /\ k = j + 1 /\ ~(k <= j)
    BY <2>3, <2>4
  <2> HIDE DEF j
  <2>6. j \notin Bad
    BY <2>2, <2>5
  <2>7. \A x \in Reached(b, l, j) : Sane(x)
    BY <2>5, <2>6 DEF Bad
  <2>8. \A y \in Reached(b, l, j + 1) :
          y \in Reached(b, l, j) \/ \E x \in Reached(b, l, j) : y \in OneGesture(b, x)
    BY <2>5, ReachedIs
  <2>9. \A x : Sane(x) => \A y \in OneGesture(b, x) : Sane(y)
    BY GestureIsLegal
  <2> HIDE DEF Sane
  <2> QED BY <2>3, <2>5, <2>7, <2>8, <2>9
<1> QED BY <1>1

\* Shrink, pack, spread, lengthen: a gesture for each block and each long block, twice, and
\* the day has a slot for each of them.
LEMMA LegalAreReached ==
  ASSUME NEW b \in Bounds, NEW D \in SUBSET BlockId, b.start <= b.end,
         NEW l \in [D -> Spot], Legal(b, l), NEW y \in [D -> Spot], Legal(b, y)
  PROVE  y \in Reached(b, l, 2 * (b.end - b.start))
<1> DEFINE p == Cardinality(Long(l))
           q == Cardinality(Long(y))
           n == Cardinality(D)
           m == 2 * (b.end - b.start)
<1>1. /\ p \in Nat /\ n \in Nat /\ n + p <= b.end - b.start
      /\ b.start \in Int /\ b.end \in Int
  BY LongFit DEF Bounds
<1>2. q \in Nat /\ n + q <= b.end - b.start
  BY LongFit
<1>3. Units(b, D, Shrunk(l)) /\ Leads(b, l, l, Shrunk(l), p)
  BY ShrunkIs
<1>4. Leads(b, l, Shrunk(l), Bottom(b, y), n)
  BY <1>3, SortDown
<1>5. Leads(b, l, Bottom(b, y), Shrunk(y), n)
  BY SpreadUp
<1>6. Leads(b, l, Shrunk(y), y, q)
  BY ShrunkIs
<1> HIDE DEF p, q, n
<1>7. p + n \in Nat /\ n + q \in Nat
  BY <1>1, <1>2
<1>8. Leads(b, l, l, Bottom(b, y), p + n) /\ Leads(b, l, Bottom(b, y), y, n + q)
  <2>1. \A v, w, z : \A j, k \in Nat : Leads(b, l, v, w, j) /\ Leads(b, l, w, z, k) => Leads(b, l, v, z, j + k)
    BY LeadsIs
  <2>2. Leads(b, l, l, Bottom(b, y), p + n)
    BY <1>1, <1>3, <1>4, <2>1
  <2>3. Leads(b, l, Bottom(b, y), y, n + q)
    BY <1>1, <1>2, <1>5, <1>6, <2>1
  <2> QED BY <2>2, <2>3
<1>9. Leads(b, l, l, y, (p + n) + (n + q))
  BY <1>7, <1>8, LeadsIs
<1>10. /\ (p + n) + (n + q) \in Nat /\ 0 + ((p + n) + (n + q)) = (p + n) + (n + q)
       /\ m \in Nat /\ (p + n) + (n + q) <= m
  BY <1>1, <1>2
<1>11. l \in Reached(b, l, 0)
  BY ReachedIs
<1> DEFINE k == (p + n) + (n + q)
<1> HIDE DEF k, m
<1>12. y \in Reached(b, l, k)
  <2>1. y \in Reached(b, l, 0 + k)
    BY <1>9, <1>11 DEF Leads, k
  <2> QED BY <1>10, <2>1 DEF k
<1>13. Reached(b, l, k) \subseteq Reached(b, l, m)
  <2>1. k \in Nat /\ m \in Nat /\ k <= m
    BY <1>10 DEF k
  <2> QED BY <2>1, ReachedGrows
<1> QED BY <1>12, <1>13 DEF m

LEMMA LegalLayoutsAre ==
  ASSUME NEW b \in Bounds, NEW D \in SUBSET BlockId, NEW y
  PROVE  y \in LegalLayouts(b, D) <=> (y \in [D -> Spot] /\ Legal(b, y))
<1> DEFINE far == b.end - 1
           size == b.end - b.start
           Box == [slot : b.start .. far, span : 1 .. size]
           Separate == /\ \A i \in D : Fits(b, y[i])
                       /\ \A i, j \in D : i # j => ~Overlaps(y[i], y[j])
<1>1. y \in LegalLayouts(b, D) <=> (y \in [D -> Box] /\ Separate)
  BY DEF LegalLayouts
<1>2. b.start \in Int /\ b.end \in Int /\ far \in Int /\ size \in Int
  BY DEF Bounds
<1>3. ASSUME y \in [D -> Box], Separate PROVE y \in [D -> Spot] /\ Legal(b, y)
  <2>1. \A i \in D : y[i] \in Spot /\ y[i].span >= 1
    <3> SUFFICES ASSUME NEW i \in D PROVE y[i] \in Spot /\ y[i].span >= 1
      OBVIOUS
    <3>1. y[i] \in Box
      BY <1>3
    <3> HIDE DEF far, size
    <3> QED BY <1>2, <3>1 DEF Spot
  <2> QED BY <1>3, <2>1 DEF Legal
<1>4. ASSUME y \in [D -> Spot], Legal(b, y) PROVE y \in [D -> Box] /\ Separate
  <2>1. \A i \in D : y[i] \in Box
    <3> SUFFICES ASSUME NEW i \in D PROVE y[i] \in Box
      OBVIOUS
    <3>1. /\ y[i] = [slot |-> y[i].slot, span |-> y[i].span]
          /\ y[i].slot \in Int /\ y[i].span \in Int
          /\ y[i].span >= 1 /\ y[i].slot >= b.start /\ y[i].slot + y[i].span <= b.end
      BY <1>4 DEF Spot, Legal, Fits
    <3>2. y[i].slot <= far /\ y[i].span <= size
      BY <1>2, <3>1
    <3> HIDE DEF far, size
    <3>3. y[i].slot \in b.start .. far /\ y[i].span \in 1 .. size
      BY <1>2, <3>1, <3>2
    <3> QED BY <3>1, <3>3
  <2> HIDE DEF Box
  <2> QED BY <1>4, <2>1 DEF Legal
<1> HIDE DEF Box, Separate
<1> QED BY <1>1, <1>3, <1>4

\* What a legal column leaves a gesture free to do.
LEMMA LegalColumnsAreFree ==
  ASSUME GTypes, dom.day = bounds[me], Legal(dom.day, dom.layout)
  PROVE  EveryLayoutReachable /\ ResizeHasNoHoles
<1> DEFINE b == dom.day
           l == dom.layout
           D == DOMAIN dom.layout
           n == 2 * (b.end - b.start)
<1>1. b \in Bounds /\ l \in Layouts
  BY DEF GTypes, TabTypes, Columns
<1>2. D \in SUBSET BlockId /\ l \in [D -> Spot]
  BY <1>1, LayoutIs
<1>3. Legal(b, l) /\ b = bounds[me]
  OBVIOUS
<1>4. b.start <= b.end
  <2>1. bounds[me].start < bounds[me].end
    BY GestureAssumption DEF GTypes, PlanInv, DaysLegal, Valid
  <2> QED BY <1>1, <1>3, <2>1 DEF Bounds
<1>5. n \in Nat
  BY <1>1, <1>4 DEF Bounds
<1> HIDE DEF b, l, D
<1>6. ASSUME NEW y \in Reached(b, l, n) PROVE y \in LegalLayouts(b, D)
  <2>1. y \in [D -> Spot] /\ Legal(b, y)
    <3> HIDE DEF n
    <3> QED BY <1>1, <1>2, <1>3, <1>5, ReachedAreLegal
  <2> QED BY <1>1, <1>2, <2>1, LegalLayoutsAre
<1>7. ASSUME NEW y \in LegalLayouts(b, D) PROVE y \in Reached(b, l, n)
  <2>1. y \in [D -> Spot]
    BY <1>1, <1>2, LegalLayoutsAre
  <2>2. Legal(b, y)
    BY <1>1, <1>2, LegalLayoutsAre
  <2> QED BY <1>1, <1>2, <1>3, <1>4, <2>1, <2>2, LegalAreReached
<1>8. Reached(b, l, n) = LegalLayouts(b, D)
  BY <1>6, <1>7
<1>9. EveryLayoutReachable
  BY <1>8 DEF EveryLayoutReachable, b, l, D
<1>10. ResizeHasNoHoles
  BY <1>1, <1>3, NoSizeIsSkipped DEF ResizeHasNoHoles, b, l
<1> QED BY <1>9, <1>10

\* Under the same hypothesis gestures alone make, of the column shown, every layout the
\* server accepts for its blocks and no other (ADR 0005), and two gestures per slot of the
\* day are enough: shorten the long blocks (resizePreview in pointer.js), drag each to the
\* end of the day and from there to its place (pushLayout in push.js), lengthen them again.
THEOREM LayoutsAreReachable == MaxForeign = 0 => (GSpec => []EveryLayoutReachable)
<1> SUFFICES ASSUME MaxForeign = 0 PROVE GSpec => []EveryLayoutReachable
  OBVIOUS
<1>1. GTypes /\ SourceInv => EveryLayoutReachable
  BY LegalColumnsAreFree DEF SourceInv, ColumnsShrink, Past
<1> QED BY <1>1, TypesKept, SourceInvHolds, PTL

\* With any number of edits from other tabs both hold of a tab at rest, unless the last
\* patch landed amid a keyboard gesture or a request ended without a column and none was
\* sent since: what it shows is the stored plan, from which no size of a resize is skipped
\* and no legal layout is out of the gestures' reach.
RestingTabIsFree == Quiet /\ ~crossed /\ ~unanswered => ResizeHasNoHoles /\ EveryLayoutReachable

THEOREM RestingTabsAreFree == GSpec => []RestingTabIsFree
<1>1. GTypes /\ QuietConverged => RestingTabIsFree
  <2> SUFFICES ASSUME GTypes, QuietConverged, Quiet, ~crossed, ~unanswered
               PROVE  ResizeHasNoHoles /\ EveryLayoutReachable
    BY DEF RestingTabIsFree
  <2>1. dom = Column
    BY DEF QuietConverged
  <2>2. ColumnSound
    BY ColumnIsSound DEF GTypes
  <2>3. dom.day = bounds[me] /\ Legal(dom.day, dom.layout)
    BY <2>1, <2>2 DEF ColumnSound
  <2> QED BY <2>3, LegalColumnsAreFree
<1> QED BY <1>1, TypesKept, QuietTabsConverge, PTL
=============================================================================
