------------------------------ MODULE SumTheorems ------------------------------
(***************************************************************************)
(* The sum of a weight over a finite set, as MapThenSumSet computes it by  *)
(* taking one element after another: whichever it takes, an element adds   *)
(* its weight.  Each lemma takes the smallest set it would be false for.   *)
(***************************************************************************)
EXTENDS Integers, FiniteSetsExt, FiniteSetTheorems, WellFoundedInduction, TLAPS

SumOver(w, S) == MapThenSumSet(LAMBDA x : w[x], S)

Taken(S) == CHOOSE x \in S : TRUE

(* What the recursion of MapThenSumSet asks of its function.               *)
IsSum(g, w, S) ==
  g = [s \in SUBSET S |-> IF s = {} THEN 0 ELSE w[Taken(s)] + g[s \ {Taken(s)}]]

LEMMA SumUnfolds ==
  ASSUME NEW w, NEW S, NEW h, IsSum(h, w, S)
  PROVE  \E g : IsSum(g, w, S) /\ SumOver(w, S) = g[S]
<1> DEFINE iter == CHOOSE g : g = [s \in SUBSET S |->
                     IF s = {} THEN 0 ELSE w[Taken(s)] + g[s \ {Taken(s)}]]
<1>1. SumOver(w, S) = iter[S]
  BY DEF SumOver, MapThenSumSet, MapThenFoldSet, Taken
<1>2. IsSum(iter, w, S)
  BY DEF IsSum
<1> QED
  BY <1>1, <1>2

(* Of any sets of subsets of a finite set, one holds no smaller one.       *)
LEMMA Smallest ==
  ASSUME NEW S, IsFiniteSet(S), NEW C \in SUBSET SUBSET S, C # {}
  PROVE  \E T \in C : \A R \in C : R \subseteq T => R = T
<1>1. C \subseteq FiniteSubsetsOf(S)
  BY FS_Subset DEF FiniteSubsetsOf
<1>2. \E T \in C : \A R \in C : ~(<<R, T>> \in StrictSubsetOrdering(S))
  BY <1>1, FS_StrictSubsetOrderingWellFounded, WFMin
<1> QED
  BY <1>2 DEF StrictSubsetOrdering

LEMMA RecursionStep ==
  ASSUME NEW w, NEW S, NEW g, IsSum(g, w, S), NEW s \in SUBSET S
  PROVE  /\ s = {} => g[s] = 0
         /\ s # {} => /\ g[s] = w[Taken(s)] + g[s \ {Taken(s)}]
                      /\ Taken(s) \in s
                      /\ s \ {Taken(s)} \subseteq s /\ s \ {Taken(s)} # s
<1>1. g[s] = IF s = {} THEN 0 ELSE w[Taken(s)] + g[s \ {Taken(s)}]
  BY DEF IsSum
<1>2. s # {} => Taken(s) \in s
  BY DEF Taken
<1> QED
  BY <1>1, <1>2

LEMMA RecursionEnds ==
  ASSUME NEW w, NEW S, NEW g, IsSum(g, w, S)
  PROVE  g[{}] = 0
  BY DEF IsSum

(* Two such functions agree wherever both are defined.                     *)
LEMMA SumsAgree ==
  ASSUME NEW w, NEW S, IsFiniteSet(S), NEW g, IsSum(g, w, S),
         NEW T, NEW h, IsSum(h, w, T), NEW s \in SUBSET S, s \in SUBSET T
  PROVE  g[s] = h[s]
<1> DEFINE C == {r \in SUBSET S : r \in SUBSET T /\ g[r] # h[r]}
<1> SUFFICES ASSUME C # {} PROVE FALSE
  OBVIOUS
<1>0. C \in SUBSET SUBSET S
  OBVIOUS
<1>1. \E r \in C : \A q \in C : q \subseteq r => q = r
  <2> HIDE DEF C
  <2> QED
    BY <1>0, Smallest
<1>2. PICK r \in SUBSET S :
        /\ r \in SUBSET T /\ g[r] # h[r]
        /\ \A q \in SUBSET r : q # r => g[q] = h[q]
  BY <1>1
<1> HIDE DEF C
<1>3. CASE r = {}
  <2>1. g[{}] = 0
    BY RecursionEnds
  <2>2. h[{}] = 0
    BY RecursionEnds
  <2> QED
    BY <1>2, <1>3, <2>1, <2>2
<1>4. CASE r # {}
  <2>1. g[r] = w[Taken(r)] + g[r \ {Taken(r)}]
    BY <1>2, <1>4, RecursionStep
  <2>2. /\ h[r] = w[Taken(r)] + h[r \ {Taken(r)}]
        /\ r \ {Taken(r)} \in SUBSET r /\ r \ {Taken(r)} # r
    BY <1>2, <1>4, RecursionStep
  <2> QED
    BY <1>2, <2>1, <2>2
<1> QED
  BY <1>3, <1>4

(* There is such a function for every finite set.                          *)
LEMMA SumExists ==
  ASSUME NEW w, NEW S, IsFiniteSet(S)
  PROVE  \E g : IsSum(g, w, S)
<1> DEFINE C == {T \in SUBSET S : ~\E g : IsSum(g, w, T)}
<1> SUFFICES ASSUME C # {} PROVE FALSE
  OBVIOUS
<1>0. C \in SUBSET SUBSET S
  OBVIOUS
<1>1. \E T \in C : \A R \in C : R \subseteq T => R = T
  <2> HIDE DEF C
  <2> QED
    BY <1>0, Smallest
<1>3. PICK T \in SUBSET S :
        /\ ~\E g : IsSum(g, w, T)
        /\ \A s \in SUBSET T : s # T => \E g : IsSum(g, w, s)
  BY <1>1
<1> DEFINE G(s) == CHOOSE g : IsSum(g, w, s)
           h == [s \in SUBSET T |->
                   IF s = {} THEN 0 ELSE w[Taken(s)] + G(s \ {Taken(s)})[s \ {Taken(s)}]]
<1>2. \A s \in SUBSET T : IsFiniteSet(s)
  BY FS_Subset
<1>4. \A s \in SUBSET T : s # T => IsSum(G(s), w, s)
  BY <1>3
<1> HIDE DEF G
<1>5. ASSUME NEW s \in SUBSET T, s # T
      PROVE  h[s] = G(s)[s]
  <2>1. IsSum(G(s), w, s) /\ s \in SUBSET s /\ IsFiniteSet(s)
    BY <1>2, <1>4, <1>5
  <2>2. CASE s = {}
    <3>1. G(s)[{}] = 0
      BY <2>1, RecursionEnds
    <3> QED
      BY <2>2, <3>1
  <2>3. CASE s # {}
    <3> DEFINE r == s \ {Taken(s)}
    <3>1. /\ G(s)[s] = w[Taken(s)] + G(s)[r]
          /\ r \subseteq s /\ r # s
      BY <2>1, <2>3, RecursionStep
    <3>2. r \in SUBSET T /\ r # T
      BY <1>5, <3>1
    <3>3. IsSum(G(r), w, r)
      BY <1>4, <3>2
    <3>4. G(s)[r] = G(r)[r]
      <4> HIDE DEF r
      <4> QED
        BY <2>1, <3>1, <3>3, SumsAgree
    <3>5. h[s] = w[Taken(s)] + G(r)[r]
      BY <2>3
    <3> QED
      BY <3>1, <3>4, <3>5
  <2> QED
    BY <2>2, <2>3
<1>6. ASSUME NEW s \in SUBSET T, s # {}
      PROVE  h[s] = w[Taken(s)] + h[s \ {Taken(s)}]
  <2>1. Taken(s) \in s
    BY <1>6 DEF Taken
  <2>2. s \ {Taken(s)} \in SUBSET T /\ s \ {Taken(s)} # T
    BY <2>1
  <2>3. h[s \ {Taken(s)}] = G(s \ {Taken(s)})[s \ {Taken(s)}]
    <3> HIDE DEF h
    <3> QED
      BY <1>5, <2>2
  <2>4. h[s] = w[Taken(s)] + G(s \ {Taken(s)})[s \ {Taken(s)}]
    BY <1>6
  <2> QED
    BY <2>3, <2>4
<1>7. /\ \A s \in SUBSET T : s = {} => h[s] = 0
      /\ h = [s \in SUBSET T |-> h[s]]
  OBVIOUS
<1> HIDE DEF h
<1>8. h = [s \in SUBSET T |-> IF s = {} THEN 0 ELSE w[Taken(s)] + h[s \ {Taken(s)}]]
  <2>1. \A s \in SUBSET T :
           h[s] = IF s = {} THEN 0 ELSE w[Taken(s)] + h[s \ {Taken(s)}]
    BY <1>6, <1>7
  <2> QED
    BY <1>7, <2>1, Zenon
<1>9. IsSum(h, w, T)
  BY <1>8 DEF IsSum
<1> QED
  BY <1>3, <1>9

------------------------------------------------------------------------------
(* SumOver(w, S), for any finite S.                                        *)

LEMMA SumOfNone ==
  ASSUME NEW w
  PROVE  SumOver(w, {}) = 0
<1>1. IsFiniteSet({})
  BY FS_EmptySet
<1>2. PICK h : IsSum(h, w, {})
  BY <1>1, SumExists
<1>3. PICK g : IsSum(g, w, {}) /\ SumOver(w, {}) = g[{}]
  BY <1>2, SumUnfolds
<1> QED
  BY <1>3, RecursionEnds

LEMMA SumTakes ==
  ASSUME NEW w, NEW S, IsFiniteSet(S), S # {}
  PROVE  /\ Taken(S) \in S
         /\ SumOver(w, S) = w[Taken(S)] + SumOver(w, S \ {Taken(S)})
<1> DEFINE R == S \ {Taken(S)}
<1>1. Taken(S) \in S /\ R \subseteq S /\ R # S
  BY DEF Taken
<1>2. IsFiniteSet(R)
  BY FS_RemoveElement
<1> HIDE DEF R
<1>3. (\E h : IsSum(h, w, S)) /\ (\E h : IsSum(h, w, R))
  BY <1>2, SumExists
<1>4. PICK g : IsSum(g, w, S) /\ SumOver(w, S) = g[S]
  BY <1>3, SumUnfolds
<1>5. PICK h : IsSum(h, w, R) /\ SumOver(w, R) = h[R]
  BY <1>3, SumUnfolds
<1>6. g[R] = h[R]
  BY <1>1, <1>4, <1>5, SumsAgree
<1>7. g[S] = w[Taken(S)] + g[S \ {Taken(S)}]
  BY <1>4, RecursionStep
<1> QED
  BY <1>1, <1>4, <1>5, <1>6, <1>7 DEF R

(* A sum of natural weights is one.                                        *)
LEMMA SumIsNatural ==
  ASSUME NEW D, NEW w \in [D -> Nat], NEW S \in SUBSET D, IsFiniteSet(S)
  PROVE  SumOver(w, S) \in Nat
<1> DEFINE C == {T \in SUBSET S : SumOver(w, T) \notin Nat}
<1> SUFFICES ASSUME C # {} PROVE FALSE
  OBVIOUS
<1>1. C \in SUBSET SUBSET S
  OBVIOUS
<1>2. \E T \in C : \A R \in C : R \subseteq T => R = T
  <2> HIDE DEF C
  <2> QED
    BY <1>1, Smallest
<1>3. PICK T \in SUBSET S :
        /\ SumOver(w, T) \notin Nat
        /\ \A R \in SUBSET T : R # T => SumOver(w, R) \in Nat
  BY <1>2
<1>4. IsFiniteSet(T)
  BY FS_Subset
<1>5. CASE T = {}
  BY <1>3, <1>5, SumOfNone
<1>6. CASE T # {}
  <2>1. Taken(T) \in T /\ SumOver(w, T) = w[Taken(T)] + SumOver(w, T \ {Taken(T)})
    BY <1>4, <1>6, SumTakes
  <2>2. w[Taken(T)] \in Nat /\ SumOver(w, T \ {Taken(T)}) \in Nat
    BY <1>3, <2>1
  <2> QED
    BY <1>3, <2>1, <2>2
<1> QED
  BY <1>5, <1>6

(* Each element adds its weight, whichever MapThenSumSet takes first.      *)
THEOREM SumWithout ==
  ASSUME NEW D, NEW w \in [D -> Nat], NEW S \in SUBSET D, IsFiniteSet(S), NEW x \in S
  PROVE  SumOver(w, S) = w[x] + SumOver(w, S \ {x})
<1> DEFINE C == {T \in SUBSET S : \E y \in T : SumOver(w, T) # w[y] + SumOver(w, T \ {y})}
<1> SUFFICES ASSUME C # {} PROVE FALSE
  OBVIOUS
<1>1. C \in SUBSET SUBSET S
  OBVIOUS
<1>2. \E T \in C : \A R \in C : R \subseteq T => R = T
  <2> HIDE DEF C
  <2> QED
    BY <1>1, Smallest
<1>3. PICK T \in SUBSET S :
        /\ \E y \in T : SumOver(w, T) # w[y] + SumOver(w, T \ {y})
        /\ \A R \in SUBSET T : R # T =>
             \A y \in R : SumOver(w, R) = w[y] + SumOver(w, R \ {y})
  BY <1>2
<1> HIDE DEF C
<1>4. PICK y \in T : SumOver(w, T) # w[y] + SumOver(w, T \ {y})
  BY <1>3
<1>5. IsFiniteSet(T) /\ T # {}
  BY <1>4, FS_Subset
<1>6. PICK c \in T : SumOver(w, T) = w[c] + SumOver(w, T \ {c})
  BY <1>5, SumTakes
<1>7. c # y
  BY <1>4, <1>6
<1> DEFINE R == (T \ {c}) \ {y}
<1>8. SumOver(w, T \ {c}) = w[y] + SumOver(w, R)
  <2>1. T \ {c} \in SUBSET T /\ T \ {c} # T /\ y \in T \ {c}
    BY <1>7
  <2> QED
    BY <1>3, <2>1
<1>9. SumOver(w, T \ {y}) = w[c] + SumOver(w, R)
  <2>1. /\ T \ {y} \in SUBSET T /\ T \ {y} # T /\ c \in T \ {y}
        /\ (T \ {y}) \ {c} = R
    BY <1>7
  <2> QED
    BY <1>3, <2>1
<1>10. w[c] \in Nat /\ w[y] \in Nat /\ SumOver(w, R) \in Nat
  <2>1. R \in SUBSET D /\ IsFiniteSet(R)
    BY <1>5, FS_Subset
  <2> HIDE DEF R
  <2> QED
    BY <2>1, SumIsNatural
<1> QED
  BY <1>4, <1>6, <1>8, <1>9, <1>10

(* A larger set has a sum at least as large.                               *)
LEMMA SumGrows ==
  ASSUME NEW D, NEW w \in [D -> Nat], NEW S \in SUBSET D, IsFiniteSet(S),
         NEW R \in SUBSET S
  PROVE  SumOver(w, R) <= SumOver(w, S)
<1> DEFINE C == {T \in SUBSET S : R \subseteq T /\ ~(SumOver(w, R) <= SumOver(w, T))}
<1> SUFFICES ASSUME C # {} PROVE FALSE
  OBVIOUS
<1>1. C \in SUBSET SUBSET S
  OBVIOUS
<1>2. \E T \in C : \A Q \in C : Q \subseteq T => Q = T
  <2> HIDE DEF C
  <2> QED
    BY <1>1, Smallest
<1>3. PICK T \in SUBSET S :
        /\ R \subseteq T /\ ~(SumOver(w, R) <= SumOver(w, T))
        /\ \A Q \in SUBSET T : Q # T /\ R \subseteq Q => SumOver(w, R) <= SumOver(w, Q)
  BY <1>2
<1> HIDE DEF C
<1>4. IsFiniteSet(T) /\ IsFiniteSet(R) /\ T \in SUBSET D /\ R \in SUBSET D
  BY FS_Subset
<1>5. SumOver(w, T) \in Nat /\ SumOver(w, R) \in Nat
  BY <1>4, SumIsNatural
<1>6. PICK x \in T : x \notin R
  <2>1. R # T
    <3> SUFFICES ASSUME R = T PROVE SumOver(w, R) <= SumOver(w, T)
      BY <1>3
    <3>1. PICK n \in Nat : n = SumOver(w, R)
      BY <1>5
    <3>2. n = SumOver(w, T)
      BY <3>1, Zenon
    <3> QED
      BY <3>1, <3>2
  <2> QED
    BY <1>3, <2>1
<1>7. SumOver(w, T) = w[x] + SumOver(w, T \ {x})
  BY <1>4, SumWithout
<1>8. SumOver(w, R) <= SumOver(w, T \ {x})
  <2>1. T \ {x} \in SUBSET T /\ T \ {x} # T /\ R \subseteq T \ {x}
    BY <1>3, <1>6
  <2> QED
    BY <1>3, <2>1
<1>9. w[x] \in Nat /\ SumOver(w, T \ {x}) \in Nat
  <2>1. IsFiniteSet(T \ {x}) /\ T \ {x} \in SUBSET D
    BY <1>4, FS_RemoveElement
  <2> QED
    BY <1>4, <2>1, SumIsNatural
<1> QED
  BY <1>3, <1>5, <1>7, <1>8, <1>9
================================================================================
