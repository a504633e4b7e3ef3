----------------------------- MODULE ListProofs -----------------------------
(***************************************************************************)
(* What the operators of Lists make, for any set and list.  InOrder is     *)
(* defined by counting: a place holds the element with as many others      *)
(* before it.  That every place has exactly one is shown by the least      *)
(* number that would be a counterexample (HasLeast), so no induction over  *)
(* the list itself is needed; everything else follows from where InOrder   *)
(* puts an element.                                                        *)
(***************************************************************************)
EXTENDS Lists, SequencesExt, FiniteSetTheorems, FunctionTheorems, SequenceTheorems,
        WellFoundedInduction, TLAPS

\* A set of numbers has a least element.
LEMMA HasLeast ==
  ASSUME NEW S \in SUBSET Nat, S # {}
  PROVE  \E x \in S : \A y \in S : x <= y
<1> DEFINE R == OpToRel(<, Nat)
<1> HIDE DEF R
<1>1. IsWellFoundedOn(R, Nat)
  BY NatLessThanWellFounded DEF R
<1>2. PICK x \in S : \A y \in S : <<y, x>> \notin R
  BY <1>1, WFMin
<1>3. \A y \in S : ~(y < x) /\ x \in Nat /\ y \in Nat
  BY <1>2 DEF R, OpToRel
<1> QED
  BY <1>3

\* A list over a set is one over any larger set.
LEMMA SeqWidens ==
  ASSUME NEW S, NEW T, S \subseteq T, NEW s \in Seq(S)
  PROVE  s \in Seq(T)
<1>1. s \in [1..Len(s) -> T] /\ Len(s) \in Nat
  OBVIOUS
<1> QED
  BY <1>1

\* What a list holds is in the set it is over.
LEMMA ToSetIs ==
  ASSUME NEW T, NEW s \in Seq(T)
  PROVE  /\ ToSet(s) \subseteq T
         /\ \A x : x \in ToSet(s) <=> \E i \in 1..Len(s) : s[i] = x
BY DEF ToSet

\* An ordered finite set: every element at one place, ascending.
LEMMA InOrderIs ==
  ASSUME NEW S, IsFiniteSet(S), NEW R, StrictOrder(S, R)
  PROVE  /\ Cardinality(S) \in Nat
         /\ InOrder(S, R) \in [1..Cardinality(S) -> S]
         /\ \A x \in S :
              LET place == Cardinality({y \in S : <<y, x>> \in R}) + 1
              IN  place \in 1..Cardinality(S) /\ InOrder(S, R)[place] = x
         /\ \A i, j \in 1..Cardinality(S) :
              i < j => <<InOrder(S, R)[i], InOrder(S, R)[j]>> \in R
<1> DEFINE n == Cardinality(S)
           below(x) == {y \in S : <<y, x>> \in R}
           place == [x \in S |-> Cardinality(below(x)) + 1]
<1>0. n \in Nat
  BY FS_CardinalityType
<1>1. \A x \in S : IsFiniteSet(below(x)) /\ Cardinality(below(x)) \in Nat
                   /\ Cardinality(below(x)) < n
  <2> TAKE x \in S
  <2>1. below(x) \in SUBSET (S \ {x})
    BY DEF StrictOrder
  <2>2. IsFiniteSet(S \ {x}) /\ Cardinality(S \ {x}) = n - 1
    BY FS_RemoveElement
  <2> HIDE DEF below
  <2>3. IsFiniteSet(below(x)) /\ Cardinality(below(x)) <= n - 1
    BY <2>1, <2>2, FS_Subset
  <2> QED
    BY <1>0, <2>3, FS_CardinalityType
<1>2. \A x, y \in S : <<x, y>> \in R => place[x] < place[y]
  <2> SUFFICES ASSUME NEW x \in S, NEW y \in S, <<x, y>> \in R PROVE place[x] < place[y]
    OBVIOUS
  <2>1. below(x) \cup {x} \in SUBSET below(y) /\ x \notin below(x)
    BY DEF StrictOrder
  <2> HIDE DEF below
  <2>2. Cardinality(below(x) \cup {x}) = Cardinality(below(x)) + 1
    BY <1>1, <2>1, FS_AddElement
  <2>3. Cardinality(below(x) \cup {x}) <= Cardinality(below(y))
    BY <1>1, <2>1, FS_Subset
  <2> QED
    BY <1>1, <2>2, <2>3
<1>3. place \in [S -> 1..n]
  <2> HIDE DEF n, below
  <2>1. \A x \in S : Cardinality(below(x)) + 1 \in 1..n
    BY <1>0, <1>1
  <2> QED
    BY <2>1
<1>4. \A x, y \in S : place[x] = place[y] => x = y
  <2> SUFFICES ASSUME NEW x \in S, NEW y \in S, place[x] = place[y], x # y PROVE FALSE
    OBVIOUS
  <2>1. <<x, y>> \in R \/ <<y, x>> \in R
    BY DEF StrictOrder
  <2>2. place[x] \in Int /\ place[y] \in Int
    BY <1>3
  <2> HIDE DEF place
  <2> QED
    BY <1>2, <2>1, <2>2
<1> HIDE DEF place
<1>5. \A i \in 1..n : \E x \in S : place[x] = i
  <2>1. place \in Injection(S, 1..n)
    BY <1>3, <1>4, Fun_IsInj
  <2>2. IsFiniteSet(1..n) /\ Cardinality(1..n) = n
    BY <1>0, FS_Interval
  <2>3. place \in Surjection(S, 1..n)
    BY <2>1, <2>2, FS_Injection
  <2> QED
    BY <2>3, Fun_SurjectionProperties
<1> DEFINE s == InOrder(S, R)
<1>6. \A i \in 1..n : s[i] \in S /\ place[s[i]] = i
  <2> TAKE i \in 1..n
  <2>1. s[i] = CHOOSE x \in S : Cardinality(below(x)) = i - 1
    BY DEF InOrder
  <2>2. \E x \in S : Cardinality(below(x)) = i - 1
    <3>1. PICK x \in S : place[x] = i
      BY <1>5
    <3>2. Cardinality(below(x)) + 1 = i /\ Cardinality(below(x)) \in Nat
      BY <1>1, <3>1 DEF place
    <3> HIDE DEF below
    <3> QED
      BY <3>2
  <2> HIDE DEF below, s
  <2>3. s[i] \in S /\ Cardinality(below(s[i])) = i - 1
    BY <2>1, <2>2
  <2> QED
    BY <2>3 DEF place
<1>7. s \in [1..n -> S]
  BY <1>6 DEF InOrder
<1>8. \A x \in S : place[x] \in 1..n /\ s[place[x]] = x
  <2> TAKE x \in S
  <2>1. place[x] \in 1..n
    BY <1>3
  <2>2. s[place[x]] \in S /\ place[s[place[x]]] = place[x]
    BY <1>6, <2>1
  <2> QED
    BY <1>4, <2>1, <2>2
<1>9. \A i, j \in 1..n : i < j => <<s[i], s[j]>> \in R
  <2> SUFFICES ASSUME NEW i \in 1..n, NEW j \in 1..n, i < j, <<s[i], s[j]>> \notin R PROVE FALSE
    OBVIOUS
  <2>1. s[i] \in S /\ s[j] \in S /\ place[s[i]] = i /\ place[s[j]] = j
    BY <1>6
  <2> HIDE DEF s
  <2>2. s[i] # s[j]
    BY <2>1
  <2>3. <<s[j], s[i]>> \in R
    BY <2>1, <2>2 DEF StrictOrder
  <2> QED
    BY <1>2, <2>1, <2>3
<1> HIDE DEF s, n
<1>10. \A x \in S : place[x] = Cardinality({y \in S : <<y, x>> \in R}) + 1
  BY DEF place
<1>11. \A x \in S : LET there == Cardinality({y \in S : <<y, x>> \in R}) + 1
                    IN  there \in 1..n /\ s[there] = x
  BY <1>8, <1>10
<1> QED
  BY <1>0, <1>7, <1>9, <1>11 DEF s, n

\* As a list: each element of the set once and nothing else.
LEMMA InOrderList ==
  ASSUME NEW S, IsFiniteSet(S), NEW R, StrictOrder(S, R)
  PROVE  /\ InOrder(S, R) \in Seq(S)
         /\ Len(InOrder(S, R)) = Cardinality(S)
         /\ DOMAIN InOrder(S, R) = 1..Cardinality(S)
         /\ Cardinality(S) \in Nat
         /\ \A x \in S : \E i \in 1..Cardinality(S) : InOrder(S, R)[i] = x
         /\ \A i, j \in 1..Cardinality(S) : i < j => <<InOrder(S, R)[i], InOrder(S, R)[j]>> \in R
         /\ \A i, j \in 1..Cardinality(S) : InOrder(S, R)[i] = InOrder(S, R)[j] => i = j
<1> DEFINE s == InOrder(S, R)
           n == Cardinality(S)
<1>1. /\ n \in Nat
      /\ s \in [1..n -> S]
      /\ \A x \in S : \E i \in 1..n : s[i] = x
      /\ \A i, j \in 1..n : i < j => <<s[i], s[j]>> \in R
  <2>1. \A x \in S : \E i \in 1..n : s[i] = x
    <3> TAKE x \in S
    <3> DEFINE place == Cardinality({y \in S : <<y, x>> \in R}) + 1
    <3>1. place \in 1..n /\ s[place] = x
      BY InOrderIs
    <3> QED
      BY <3>1
  <2> QED
    BY <2>1, InOrderIs
<1> HIDE DEF s, n
<1>2. s \in Seq(S) /\ Len(s) = n /\ DOMAIN s = 1..n
  BY <1>1
<1>3. \A i, j \in 1..n : i < j => s[i] # s[j]
  BY <1>1 DEF StrictOrder
<1>4. \A i, j \in 1..n : s[i] = s[j] => i = j
  BY <1>1, <1>3
<1> QED
  BY <1>1, <1>2, <1>4 DEF s, n

\* Integers ascend in a strict order.
LEMMA AscendingOrders ==
  ASSUME NEW S, S \subseteq Int
  PROVE  StrictOrder(S, Ascending(S))
<1>1. \A x, y : <<x, y>> \in Ascending(S) <=> x \in S /\ y \in S /\ x < y
  BY DEF Ascending
<1> QED
  BY <1>1 DEF StrictOrder

\* A cut keeps the first elements, as many as fit.
LEMMA CutList ==
  ASSUME NEW T, NEW s \in Seq(T), NEW k \in Nat
  PROVE  /\ Cut(s, k) \in Seq(T)
         /\ Len(Cut(s, k)) = AtMost(Len(s), k)
         /\ DOMAIN Cut(s, k) = 1..AtMost(Len(s), k)
         /\ AtMost(Len(s), k) \in Nat /\ AtMost(Len(s), k) <= Len(s) /\ AtMost(Len(s), k) <= k
         /\ \A i \in 1..AtMost(Len(s), k) : Cut(s, k)[i] = s[i]
<1> DEFINE n == AtMost(Len(s), k)
<1>1. n \in Nat /\ n <= Len(s) /\ n <= k
  BY DEF AtMost
<1>2. Cut(s, k) = SubSeq(s, 1, n)
  BY DEF Cut
<1> HIDE DEF n
<1>3. \A i \in 1..n : i \in 1..Len(s)
  BY <1>1
<1>4. /\ SubSeq(s, 1, n) \in Seq(T)
      /\ Len(SubSeq(s, 1, n)) = n
      /\ \A i \in 1..n : SubSeq(s, 1, n)[i] = s[i]
  BY <1>1, <1>3, SubSeqProperties
<1> QED
  BY <1>1, <1>2, <1>4 DEF n

\* The chosen places of a list are finitely many numbers.
LEMMA FinitePlaces ==
  ASSUME NEW m \in Nat, NEW S \in SUBSET (1..m)
  PROVE  IsFiniteSet(S) /\ Cardinality(S) \in Nat /\ Cardinality(S) <= m
<1>1. IsFiniteSet(1..m) /\ Cardinality(1..m) = m
  BY FS_Interval
<1>2. IsFiniteSet(S) /\ Cardinality(S) <= Cardinality(1..m)
  BY <1>1, FS_Subset
<1> QED
  BY <1>1, <1>2, FS_CardinalityType

\* What is picked keeps its order and comes from the chosen places.
LEMMA PickedList ==
  ASSUME NEW T, NEW s \in Seq(T), NEW keep \in SUBSET (1..Len(s))
  PROVE  LET at == InOrder(keep, Ascending(keep))
             n == Cardinality(keep)
         IN  /\ IsFiniteSet(keep) /\ n \in Nat /\ n <= Len(s)
             /\ Picked(s, keep) \in Seq(T)
             /\ Len(Picked(s, keep)) = n
             /\ DOMAIN Picked(s, keep) = 1..n
             /\ at \in [1..n -> keep]
             /\ \A i, j \in 1..n : i < j => at[i] < at[j]
             /\ \A i \in keep : \E k \in 1..n : at[k] = i
             /\ \A k \in 1..n : Picked(s, keep)[k] = s[at[k]]
<1> DEFINE at == InOrder(keep, Ascending(keep))
           n == Cardinality(keep)
<1>1. IsFiniteSet(keep) /\ n \in Nat /\ n <= Len(s)
  BY FinitePlaces
<1>2. StrictOrder(keep, Ascending(keep))
  <2>1. keep \subseteq Int
    OBVIOUS
  <2> QED
    BY <2>1, AscendingOrders
<1>3. /\ at \in Seq(keep) /\ Len(at) = n /\ DOMAIN at = 1..n
      /\ \A i \in keep : \E k \in 1..n : at[k] = i
      /\ \A i, j \in 1..n : i < j => <<at[i], at[j]>> \in Ascending(keep)
  BY <1>1, <1>2, InOrderList
<1>4. Picked(s, keep) = [k \in DOMAIN at |-> s[at[k]]]
  BY DEF Picked
<1>5. \A x, y : <<x, y>> \in Ascending(keep) => x < y
  BY DEF Ascending
<1> HIDE DEF at, n
<1>6. at \in [1..n -> keep]
  BY <1>1, <1>3
<1>7. /\ Picked(s, keep) \in Seq(T) /\ Len(Picked(s, keep)) = n
      /\ DOMAIN Picked(s, keep) = 1..n
      /\ \A k \in 1..n : Picked(s, keep)[k] = s[at[k]]
  <2>1. \A i \in keep : i \in 1..Len(s)
    OBVIOUS
  <2>2. \A k \in 1..n : at[k] \in 1..Len(s)
    BY <1>6, <2>1
  <2>3. \A k \in 1..n : s[at[k]] \in T
    BY <2>2
  <2> DEFINE f == [k \in 1..n |-> s[at[k]]]
  <2>4. f \in Seq(T) /\ Len(f) = n /\ DOMAIN f = 1..n /\ \A k \in 1..n : f[k] = s[at[k]]
    BY <1>1, <2>3
  <2>5. Picked(s, keep) = f
    BY <1>3, <1>4
  <2> QED
    BY <2>4, <2>5
<1>8. \A i, j \in 1..n : i < j => at[i] < at[j]
  BY <1>3, <1>5
<1> QED
  BY <1>1, <1>3, <1>6, <1>7, <1>8 DEF at, n

\* A filter keeps the elements of the test, in their order.
LEMMA OnlyList ==
  ASSUME NEW T, NEW s \in Seq(T), NEW U
  PROVE  /\ Only(s, U) \in Seq(T \cap U)
         /\ Len(Only(s, U)) <= Len(s)
         /\ ToSet(Only(s, U)) = ToSet(s) \cap U
         /\ (\A i, j \in DOMAIN s : s[i] = s[j] => i = j)
              => \A i, j \in DOMAIN Only(s, U) : Only(s, U)[i] = Only(s, U)[j] => i = j
<1> DEFINE keep == {i \in DOMAIN s : s[i] \in U}
           at == InOrder(keep, Ascending(keep))
           n == Cardinality(keep)
           o == Only(s, U)
<1>1. keep \in SUBSET (1..Len(s))
  OBVIOUS
<1>2. o = Picked(s, keep)
  BY DEF Only
<1>3. \A i : i \in keep <=> i \in DOMAIN s /\ s[i] \in U
  OBVIOUS
<1> HIDE DEF keep
<1>4. /\ n \in Nat /\ n <= Len(s) /\ o \in Seq(T)
      /\ Len(o) = n /\ DOMAIN o = 1..n
      /\ at \in [1..n -> keep]
      /\ \A i, j \in 1..n : i < j => at[i] < at[j]
      /\ \A i \in keep : \E k \in 1..n : at[k] = i
      /\ \A k \in 1..n : o[k] = s[at[k]]
  BY <1>1, <1>2, PickedList
<1> HIDE DEF at, n, o
<1>5. \A k \in 1..n : o[k] \in T \cap U
  BY <1>3, <1>4
<1>6. o \in Seq(T \cap U)
  <2>1. o = [k \in 1..n |-> o[k]]
    BY <1>4
  <2>2. [k \in 1..n |-> o[k]] \in Seq(T \cap U)
    BY <1>4, <1>5
  <2> QED
    BY <2>1, <2>2
<1>7. ToSet(o) = ToSet(s) \cap U
  <2>1. \A x : (\E i \in DOMAIN o : o[i] = x) <=> x \in U /\ \E i \in DOMAIN s : s[i] = x
    BY <1>3, <1>4
  <2> QED
    BY <2>1 DEF ToSet
<1>8. \A i, j \in 1..n : at[i] = at[j] => i = j
  <2>1. \A i \in keep : i \in Int
    BY <1>3
  <2>2. \A i \in 1..n : at[i] \in Int
    BY <1>4, <2>1
  <2> QED
    BY <1>4, <2>2
<1>9. (\A i, j \in DOMAIN s : s[i] = s[j] => i = j)
        => \A i, j \in DOMAIN o : o[i] = o[j] => i = j
  BY <1>3, <1>4, <1>8
<1> QED
  BY <1>4, <1>6, <1>7, <1>9 DEF o

\* First occurrences: everything once, none later than it was.
LEMMA DistinctList ==
  ASSUME NEW T, NEW s \in Seq(T)
  PROVE  /\ Distinct(s) \in Seq(T)
         /\ Len(Distinct(s)) <= Len(s)
         /\ \A i, j \in DOMAIN Distinct(s) : Distinct(s)[i] = Distinct(s)[j] => i = j
         /\ ToSet(Distinct(s)) = ToSet(s)
         /\ \A i \in DOMAIN s : \E j \in DOMAIN Distinct(s) : j <= i /\ Distinct(s)[j] = s[i]
<1> DEFINE keep == {i \in DOMAIN s : \A j \in 1..(i - 1) : s[j] # s[i]}
           at == InOrder(keep, Ascending(keep))
           n == Cardinality(keep)
           o == Distinct(s)
<1>1. keep \in SUBSET (1..Len(s))
  OBVIOUS
<1>2. o = Picked(s, keep)
  BY DEF Distinct
<1>3. \A i : i \in keep <=> i \in 1..Len(s) /\ \A j \in 1..(i - 1) : s[j] # s[i]
  OBVIOUS
<1> HIDE DEF keep
<1>4. /\ n \in Nat /\ n <= Len(s) /\ o \in Seq(T)
      /\ Len(o) = n /\ DOMAIN o = 1..n
      /\ at \in [1..n -> keep]
      /\ \A i, j \in 1..n : i < j => at[i] < at[j]
      /\ \A i \in keep : \E k \in 1..n : at[k] = i
      /\ \A k \in 1..n : o[k] = s[at[k]]
  BY <1>1, <1>2, PickedList
<1> HIDE DEF at, n, o
<1>5. \A i \in 1..n : at[i] \in 1..Len(s)
  BY <1>1, <1>4
<1>6. ASSUME NEW i \in 1..n, NEW j \in 1..n, i < j PROVE o[i] # o[j]
  <2>1. at[i] \in 1..(at[j] - 1) /\ at[j] \in keep
    BY <1>4, <1>5, <1>6
  <2>2. s[at[i]] # s[at[j]]
    BY <1>3, <2>1
  <2>3. o[i] = s[at[i]] /\ o[j] = s[at[j]]
    BY <1>4
  <2> QED
    BY <2>2, <2>3
<1>7. \A i, j \in 1..n : o[i] = o[j] => i = j
  BY <1>4, <1>6
<1>8. \A i \in 1..Len(s) : \E h \in keep : h <= i /\ s[h] = s[i]
  <2> TAKE i \in 1..Len(s)
  <2> DEFINE P == {h \in 1..Len(s) : s[h] = s[i]}
  <2>1. P \subseteq Nat /\ i \in P
    OBVIOUS
  <2>2. PICK h \in P : \A m \in P : h <= m
    BY <2>1, HasLeast
  <2>3. \A j \in 1..(h - 1) : s[j] # s[h]
    <3> SUFFICES ASSUME NEW j \in 1..(h - 1), s[j] = s[h] PROVE FALSE
      OBVIOUS
    <3>1. j \in P
      OBVIOUS
    <3> QED
      BY <2>2, <3>1
  <2> QED
    BY <1>3, <2>1, <2>2, <2>3
\* An increasing walk through the first i places is at place i at most.
<1>9. \A k \in 1..n : k <= at[k]
  <2> DEFINE Q == {k \in 1..n : at[k] < k}
  <2> SUFFICES ASSUME Q # {} PROVE FALSE
    BY <1>5
  <2>1. Q \subseteq Nat
    OBVIOUS
  <2>2. PICK k \in Q : \A m \in Q : k <= m
    BY <2>1, HasLeast
  <2>3. k # 1
    BY <1>5
  <2>4. k - 1 \in 1..n /\ k - 1 \notin Q
    BY <1>4, <2>2, <2>3
  <2>5. at[k - 1] >= k - 1 /\ at[k - 1] < at[k]
    BY <1>4, <1>5, <2>4
  <2> QED
    BY <1>5, <2>4, <2>5
<1>10. \A i \in DOMAIN s : \E j \in DOMAIN o : j <= i /\ o[j] = s[i]
  <2> TAKE i \in DOMAIN s
  <2>1. PICK h \in keep : h <= i /\ s[h] = s[i]
    BY <1>8
  <2>2. PICK k \in 1..n : at[k] = h
    BY <1>4
  <2>3. k <= i
    BY <1>1, <1>9, <2>1, <2>2
  <2> QED
    BY <1>4, <2>1, <2>2, <2>3
<1>11. \A i \in DOMAIN o : \E j \in DOMAIN s : s[j] = o[i]
  <2>1. DOMAIN s = 1..Len(s)
    OBVIOUS
  <2> QED
    BY <1>4, <1>5, <2>1
<1>12. ToSet(o) = ToSet(s)
  BY <1>10, <1>11 DEF ToSet
<1> QED
  BY <1>4, <1>7, <1>10, <1>12 DEF o

\* Pairs of numbers are ordered by their first part, then by their second.
LEMMA LexicalOrders ==
  ASSUME NEW W, \A t \in W : t = <<t[1], t[2]>> /\ t[1] \in Int /\ t[2] \in Int
  PROVE  /\ StrictOrder(W, Lexical(W))
         /\ \A x, y : <<x, y>> \in Lexical(W)
              <=> x \in W /\ y \in W /\ (x[1] < y[1] \/ (x[1] = y[1] /\ x[2] < y[2]))
<1>1. \A x, y : <<x, y>> \in Lexical(W)
        <=> x \in W /\ y \in W /\ (x[1] < y[1] \/ (x[1] = y[1] /\ x[2] < y[2]))
  BY DEF Lexical
<1>2. \A x, y \in W : x # y => x[1] # y[1] \/ x[2] # y[2]
  OBVIOUS
<1> QED
  BY <1>1, <1>2 DEF StrictOrder

\* The image of a finite set is finite and no larger, and as large when no two meet.
LEMMA FiniteImage ==
  ASSUME NEW S, IsFiniteSet(S), NEW f
  PROVE  /\ IsFiniteSet({f[x] : x \in S}) /\ Cardinality({f[x] : x \in S}) <= Cardinality(S)
         /\ (\A x, y \in S : f[x] = f[y] => x = y)
              => Cardinality({f[x] : x \in S}) = Cardinality(S)
<1> DEFINE T == {f[x] : x \in S}
           g == [x \in S |-> f[x]]
<1>1. g \in [S -> T] /\ g \in Surjection(S, T)
  BY Fun_IsSurj
<1>2. (\A x, y \in S : f[x] = f[y] => x = y) => g \in Injection(S, T)
  <2> SUFFICES ASSUME \A x, y \in S : f[x] = f[y] => x = y PROVE g \in Injection(S, T)
    OBVIOUS
  <2>1. \A x, y \in S : g[x] = g[y] => x = y
    OBVIOUS
  <2> HIDE DEF g, T
  <2> QED
    BY <1>1, <2>1, Fun_IsInj
<1> HIDE DEF g
<1> QED
  BY <1>1, <1>2, FS_Surjection

\* What Best goes through: everything of S once, by value and then by id.
LEMMA BestOrder ==
  ASSUME NEW S, IsFiniteSet(S), S \subseteq Int,
         NEW value, \A x \in S : value[x] \in Int
  PROVE  LET s == ByValue(S, value)
             n == Cardinality(S)
         IN  /\ n \in Nat /\ s \in Seq(S) /\ Len(s) = n /\ DOMAIN s = 1..n
             /\ \A i \in 1..n : s[i] \in S /\ value[s[i]] \in Int /\ s[i] \in Int
             /\ \A x \in S : \E i \in 1..n : s[i] = x
             /\ \A i, j \in 1..n :
                  i < j => \/ value[s[i]] > value[s[j]]
                           \/ value[s[i]] = value[s[j]] /\ s[i] < s[j]
             /\ \A i, j \in 1..n : s[i] = s[j] => i = j
<1> DEFINE valued == {<<-value[x], x>> : x \in S}
           at == InOrder(valued, Lexical(valued))
           s  == [i \in DOMAIN at |-> at[i][2]]
           n  == Cardinality(S)
<1>1. IsFiniteSet(valued) /\ Cardinality(valued) = n
  <2> DEFINE f == [x \in S |-> <<-value[x], x>>]
  <2>1. \A x, y \in S : f[x] = f[y] => x = y
    OBVIOUS
  <2>2. {f[x] : x \in S} = valued
    OBVIOUS
  <2> HIDE DEF f
  <2>3. IsFiniteSet({f[x] : x \in S}) /\ Cardinality({f[x] : x \in S}) = n
    BY <2>1, FiniteImage
  <2> QED
    BY <2>2, <2>3
<1>2. \A t \in valued : /\ t = <<t[1], t[2]>> /\ t[1] \in Int /\ t[2] \in Int
                        /\ t[2] \in S /\ t[1] = -value[t[2]]
  OBVIOUS
<1>3. \A x \in S : <<-value[x], x>> \in valued
  OBVIOUS
<1> HIDE DEF valued
<1>4. /\ StrictOrder(valued, Lexical(valued))
      /\ \A x, y : <<x, y>> \in Lexical(valued) => x[1] < y[1] \/ (x[1] = y[1] /\ x[2] < y[2])
  BY <1>2, LexicalOrders
<1>5. /\ at \in Seq(valued) /\ Len(at) = n /\ DOMAIN at = 1..n /\ n \in Nat
      /\ \A x \in valued : \E i \in 1..n : at[i] = x
      /\ \A i, j \in 1..n : i < j => <<at[i], at[j]>> \in Lexical(valued)
      /\ \A i, j \in 1..n : at[i] = at[j] => i = j
  BY <1>1, <1>4, InOrderList
<1> HIDE DEF at, n
<1>6. \A i \in 1..n : at[i] \in valued
  BY <1>5
<1>7. \A i \in 1..n : s[i] = at[i][2]
  BY <1>5
<1>8. \A i \in 1..n : s[i] \in S /\ at[i][1] = -value[s[i]] /\ at[i] = <<-value[s[i]], s[i]>>
  BY <1>2, <1>6, <1>7
<1>9. s \in Seq(S) /\ Len(s) = n /\ DOMAIN s = 1..n
  <2>1. s = [i \in 1..n |-> s[i]]
    BY <1>5
  <2> HIDE DEF s
  <2>2. [i \in 1..n |-> s[i]] \in [1..n -> S]
    BY <1>8
  <2> QED
    BY <1>5, <2>1, <2>2
<1>14. ByValue(S, value) = s
  BY DEF ByValue, valued, at
<1> HIDE DEF s
<1>10. \A i \in 1..n : value[s[i]] \in Int /\ s[i] \in Int
  BY <1>8
<1>11. \A i, j \in 1..n : i < j => \/ value[s[i]] > value[s[j]]
                                   \/ value[s[i]] = value[s[j]] /\ s[i] < s[j]
  <2> TAKE i, j \in 1..n
  <2> HAVE i < j
  <2>1. at[i][1] < at[j][1] \/ (at[i][1] = at[j][1] /\ at[i][2] < at[j][2])
    BY <1>4, <1>5
  <2>2. -value[s[i]] < -value[s[j]] \/ (-value[s[i]] = -value[s[j]] /\ s[i] < s[j])
    BY <1>7, <1>8, <2>1
  <2> QED
    BY <1>10, <2>2
<1>12. \A x \in S : \E i \in 1..n : s[i] = x
  <2> TAKE x \in S
  <2>1. PICK i \in 1..n : at[i] = <<-value[x], x>>
    BY <1>3, <1>5
  <2>2. at[i][2] = x
    BY <2>1
  <2> QED
    BY <1>7, <2>2
<1>13. \A i, j \in 1..n : s[i] = s[j] => i = j
  <2> TAKE i, j \in 1..n
  <2> HAVE s[i] = s[j]
  <2>1. at[i] = at[j]
    BY <1>8
  <2> QED
    BY <1>5, <2>1
<1> QED
  BY <1>5, <1>8, <1>9, <1>10, <1>11, <1>12, <1>13, <1>14 DEF n

\* The best of a set: each once, as many as there is room for, and nobody left out is
\* worth more than somebody who is in.
LEMMA BestList ==
  ASSUME NEW S, IsFiniteSet(S), S \subseteq Int,
         NEW value, \A x \in S : value[x] \in Int,
         NEW k \in Nat
  PROVE  LET b == Best(S, value, k)
             m == AtMost(Cardinality(S), k)
         IN  /\ Cardinality(S) \in Nat /\ m \in Nat /\ m <= k /\ m <= Cardinality(S)
             /\ b \in Seq(S) /\ Len(b) = m /\ DOMAIN b = 1..m
             /\ \A i, j \in 1..m :
                  i < j => \/ value[b[i]] > value[b[j]]
                           \/ value[b[i]] = value[b[j]] /\ b[i] < b[j]
             /\ \A i, j \in 1..m : b[i] = b[j] => i = j
             /\ \A x \in S : (\A i \in 1..m : b[i] # x)
                  => m = k /\ \A i \in 1..m : value[b[i]] >= value[x]
<1> DEFINE s == ByValue(S, value)
           n == Cardinality(S)
           m == AtMost(n, k)
           b == Best(S, value, k)
<1>1. /\ n \in Nat /\ s \in Seq(S) /\ Len(s) = n /\ DOMAIN s = 1..n
      /\ \A i \in 1..n : s[i] \in S /\ value[s[i]] \in Int /\ s[i] \in Int
      /\ \A x \in S : \E i \in 1..n : s[i] = x
      /\ \A i, j \in 1..n : i < j => \/ value[s[i]] > value[s[j]]
                                     \/ value[s[i]] = value[s[j]] /\ s[i] < s[j]
      /\ \A i, j \in 1..n : s[i] = s[j] => i = j
  BY BestOrder
<1>3. b = Cut(s, k)
  BY DEF Best
<1> HIDE DEF s, n, b
<1>4. /\ b \in Seq(S) /\ Len(b) = m /\ DOMAIN b = 1..m
      /\ m \in Nat /\ m <= n /\ m <= k
      /\ \A i \in 1..m : b[i] = s[i]
  <2>1. s \in Seq(S) /\ Len(s) = n
    BY <1>1
  <2>2. AtMost(Len(s), k) = m
    BY <2>1
  <2> HIDE DEF m
  <2> QED
    BY <1>3, <2>1, <2>2, CutList
<1>5. m # n => m = k
  BY DEF AtMost
<1> HIDE DEF m
<1>6. \A i \in 1..m : i \in 1..n
  BY <1>1, <1>4
<1>7. ASSUME NEW x \in S, \A i \in 1..m : b[i] # x
      PROVE  m = k /\ \A i \in 1..m : value[b[i]] >= value[x]
  <2>1. PICK j \in 1..n : s[j] = x
    BY <1>1
  <2>2. j \notin 1..m
    BY <1>4, <1>7, <2>1
  <2>3. m # n /\ \A i \in 1..m : i < j
    BY <1>1, <1>4, <2>2
  <2>4. \A i \in 1..m : value[s[i]] > value[x] \/ value[s[i]] = value[x]
    BY <1>1, <1>6, <2>1, <2>3
  <2>5. \A i \in 1..m : value[s[i]] >= value[x]
    BY <1>1, <1>6, <2>4
  <2> QED
    BY <1>4, <1>5, <2>3, <2>5
<1>8. /\ \A i, j \in 1..m : b[i] = b[j] => i = j
      /\ \A i, j \in 1..m : i < j => \/ value[b[i]] > value[b[j]]
                                     \/ value[b[i]] = value[b[j]] /\ b[i] < b[j]
  BY <1>1, <1>4, <1>6
<1> QED
  BY <1>1, <1>4, <1>7, <1>8 DEF n, m, b

\* With room for everybody, everybody is in.
LEMMA BestIsAll ==
  ASSUME NEW S, IsFiniteSet(S), S \subseteq Int,
         NEW value, \A x \in S : value[x] \in Int,
         NEW k \in Nat, Cardinality(S) <= k
  PROVE  Len(Best(S, value, k)) = Cardinality(S) /\ ToSet(Best(S, value, k)) = S
<1> DEFINE s == ByValue(S, value)
           n == Cardinality(S)
<1>1. /\ n \in Nat /\ s \in Seq(S) /\ Len(s) = n /\ DOMAIN s = 1..n
      /\ \A i \in 1..n : s[i] \in S /\ value[s[i]] \in Int /\ s[i] \in Int
      /\ \A x \in S : \E i \in 1..n : s[i] = x
      /\ \A i, j \in 1..n : i < j => \/ value[s[i]] > value[s[j]]
                                     \/ value[s[i]] = value[s[j]] /\ s[i] < s[j]
      /\ \A i, j \in 1..n : s[i] = s[j] => i = j
  BY BestOrder
<1>2. Best(S, value, k) = Cut(s, k)
  BY DEF Best
<1> HIDE DEF s, n
<1>3. AtMost(Len(s), k) = n
  BY <1>1 DEF AtMost, n
<1>4. s \in Seq(S)
  BY <1>1
<1> DEFINE b == Best(S, value, k)
<1>5. b \in Seq(S) /\ Len(b) = n /\ \A i \in 1..n : b[i] = s[i]
  BY <1>2, <1>3, <1>4, CutList
<1> HIDE DEF b
<1>6. \A x \in S : \E i \in 1..Len(b) : b[i] = x
  BY <1>1, <1>5
<1>7. ToSet(b) = S
  <2>1. ToSet(b) \subseteq S /\ \A x : x \in ToSet(b) <=> \E i \in 1..Len(b) : b[i] = x
    BY <1>5, ToSetIs
  <2> QED
    BY <1>6, <2>1
<1> QED
  BY <1>5, <1>7 DEF n, b

\* The first of the first are the first.
LEMMA BestOfBest ==
  ASSUME NEW S, IsFiniteSet(S), S \subseteq Int,
         NEW value, \A x \in S : value[x] \in Int,
         NEW k \in Nat, NEW l \in Nat, l <= k
  PROVE  Cut(Best(S, value, k), l) = Best(S, value, l)
<1> DEFINE s == ByValue(S, value)
<1>1. s \in Seq(S)
  BY BestOrder
<1>2. Best(S, value, k) = Cut(s, k) /\ Best(S, value, l) = Cut(s, l)
  BY DEF Best
<1> HIDE DEF s
<1>3. /\ Cut(s, k) \in Seq(S) /\ Len(Cut(s, k)) = AtMost(Len(s), k)
      /\ DOMAIN Cut(s, k) = 1..AtMost(Len(s), k)
      /\ \A i \in 1..AtMost(Len(s), k) : Cut(s, k)[i] = s[i]
  BY <1>1, CutList
<1>4. /\ Cut(s, l) \in Seq(S) /\ Len(Cut(s, l)) = AtMost(Len(s), l)
      /\ DOMAIN Cut(s, l) = 1..AtMost(Len(s), l)
      /\ \A i \in 1..AtMost(Len(s), l) : Cut(s, l)[i] = s[i]
  BY <1>1, CutList
<1> DEFINE c == Cut(s, k)
<1> HIDE DEF c
<1>5. c \in Seq(S)
  BY <1>3 DEF c
<1>6. /\ Cut(c, l) \in Seq(S) /\ Len(Cut(c, l)) = AtMost(Len(c), l)
      /\ DOMAIN Cut(c, l) = 1..AtMost(Len(c), l)
      /\ \A i \in 1..AtMost(Len(c), l) : Cut(c, l)[i] = c[i]
  BY <1>5, CutList
<1>7. Len(s) \in Nat /\ AtMost(Len(c), l) = AtMost(Len(s), l)
      /\ \A i \in 1..AtMost(Len(s), l) : i \in 1..AtMost(Len(s), k)
  BY <1>1, <1>3 DEF AtMost, c
<1>8. \A i \in 1..AtMost(Len(s), l) : Cut(c, l)[i] = Cut(s, l)[i]
  BY <1>3, <1>4, <1>6, <1>7 DEF c
<1>9. Cut(c, l) = Cut(s, l)
  BY <1>4, <1>6, <1>7, <1>8
<1> QED
  BY <1>2, <1>9 DEF c

\* A finite set of ids, ascending: each once and nothing else.
LEMMA ByIdList ==
  ASSUME NEW S, IsFiniteSet(S), S \subseteq Int
  PROVE  /\ ById(S) \in Seq(S)
         /\ Len(ById(S)) = Cardinality(S) /\ Cardinality(S) \in Nat
         /\ DOMAIN ById(S) = 1..Cardinality(S)
         /\ ToSet(ById(S)) = S
         /\ \A i, j \in DOMAIN ById(S) : ById(S)[i] = ById(S)[j] => i = j
<1> DEFINE s == InOrder(S, Ascending(S))
<1>1. StrictOrder(S, Ascending(S))
  BY AscendingOrders
<1>2. /\ s \in Seq(S) /\ Len(s) = Cardinality(S) /\ DOMAIN s = 1..Cardinality(S)
      /\ Cardinality(S) \in Nat
      /\ \A x \in S : \E i \in 1..Cardinality(S) : s[i] = x
      /\ \A i, j \in 1..Cardinality(S) : s[i] = s[j] => i = j
  BY <1>1, InOrderList
<1>3. ById(S) = s
  BY DEF ById
<1> HIDE DEF s
<1>4. ToSet(s) = S
  <2>1. ToSet(s) \subseteq S /\ \A x : x \in ToSet(s) <=> \E i \in 1..Len(s) : s[i] = x
    BY <1>2, ToSetIs
  <2> QED
    BY <1>2, <2>1
<1> QED
  BY <1>2, <1>3, <1>4

\* The turns of a finite number of lists, and which one comes first.
LEMMA TurnsOrder ==
  ASSUME NEW n \in Nat, NEW lists, DOMAIN lists = 1..n, NEW T,
         \A c \in 1..n : lists[c] \in Seq(T)
  PROVE  /\ IsFiniteSet(Turns(lists))
         /\ StrictOrder(Turns(lists), Lexical(Turns(lists)))
         /\ \A t \in Turns(lists) :
              t = <<t[1], t[2]>> /\ t[2] \in 1..n /\ t[1] \in 1..Len(lists[t[2]])
         /\ \A c \in 1..n : \A i \in 1..Len(lists[c]) : <<i, c>> \in Turns(lists)
<1> DEFINE one(c) == {<<i, c>> : i \in DOMAIN lists[c]}
<1>1. Turns(lists) = UNION {one(c) : c \in 1..n}
  BY DEF Turns
<1>2. \A c \in 1..n : DOMAIN lists[c] = 1..Len(lists[c]) /\ Len(lists[c]) \in Nat
  OBVIOUS
<1>3. \A c \in 1..n : IsFiniteSet(one(c))
  <2> TAKE c \in 1..n
  <2>1. IsFiniteSet(1..Len(lists[c]))
    BY <1>2, FS_Interval
  <2> DEFINE f == [i \in 1..Len(lists[c]) |-> <<i, c>>]
  <2>2. IsFiniteSet({f[i] : i \in 1..Len(lists[c])})
    BY <2>1, FiniteImage
  <2>3. {f[i] : i \in 1..Len(lists[c])} = one(c)
    BY <1>2
  <2> QED
    BY <2>2, <2>3
<1>4. IsFiniteSet(UNION {one(c) : c \in 1..n})
  <2>1. IsFiniteSet(1..n)
    BY FS_Interval
  <2> DEFINE f == [c \in 1..n |-> one(c)]
  <2> HIDE DEF one
  <2>3. IsFiniteSet({f[c] : c \in 1..n})
    BY <2>1, FiniteImage
  <2>4. {f[c] : c \in 1..n} = {one(c) : c \in 1..n}
    OBVIOUS
  <2>2. IsFiniteSet({one(c) : c \in 1..n})
    BY <2>3, <2>4
  <2> QED
    BY <1>3, <2>2, FS_UNION
<1>5. \A t \in Turns(lists) :
        t = <<t[1], t[2]>> /\ t[2] \in 1..n /\ t[1] \in 1..Len(lists[t[2]])
  BY <1>1, <1>2
<1>6. \A c \in 1..n : \A i \in 1..Len(lists[c]) : <<i, c>> \in Turns(lists)
  BY <1>1, <1>2
<1>7. StrictOrder(Turns(lists), Lexical(Turns(lists)))
  BY <1>2, <1>5, LexicalOrders
<1> QED
  BY <1>1, <1>4, <1>5, <1>6, <1>7

\* Lists that take turns: everything of each, from nowhere else, one place per turn,
\* and every list's i-th element among the first i turns.
LEMMA InTurnsList ==
  ASSUME NEW n \in Nat, NEW lists, DOMAIN lists = 1..n, NEW T,
         \A c \in 1..n : lists[c] \in Seq(T)
  PROVE  LET at == TurnOrder(lists)
             o  == InTurns(lists)
         IN  /\ o \in Seq(T) /\ DOMAIN o = 1..Len(o) /\ DOMAIN at = 1..Len(o)
             /\ \A k \in 1..Len(o) :
                  /\ at[k][2] \in 1..n /\ at[k][1] \in 1..Len(lists[at[k][2]])
                  /\ o[k] = lists[at[k][2]][at[k][1]]
             /\ \A k, l \in 1..Len(o) : at[k][1] = at[l][1] /\ at[k][2] = at[l][2] => k = l
             /\ \A c \in 1..n : \A i \in 1..Len(lists[c]) :
                  \E k \in 1..Len(o) : k <= (i - 1) * n + c /\ o[k] = lists[c][i]
<1> DEFINE W == Turns(lists)
           at == TurnOrder(lists)
           m == Cardinality(W)
           o == InTurns(lists)
<1>0. at = InOrder(W, Lexical(W))
  BY DEF TurnOrder
<1>1. /\ IsFiniteSet(W)
      /\ StrictOrder(W, Lexical(W))
      /\ \A t \in W : t = <<t[1], t[2]>> /\ t[2] \in 1..n /\ t[1] \in 1..Len(lists[t[2]])
      /\ \A c \in 1..n : \A i \in 1..Len(lists[c]) : <<i, c>> \in W
  BY TurnsOrder
<1>2. o = [k \in DOMAIN at |-> lists[at[k][2]][at[k][1]]]
  BY DEF InTurns
<1>3. \A x, y : <<x, y>> \in Lexical(W) => x[1] < y[1] \/ (x[1] = y[1] /\ x[2] < y[2])
  BY DEF Lexical
<1>4. /\ at \in Seq(W) /\ Len(at) = m /\ DOMAIN at = 1..m /\ m \in Nat
      /\ \A x \in W : \E k \in 1..m : at[k] = x
      /\ \A k, l \in 1..m : at[k] = at[l] => k = l
  <2> DEFINE s == InOrder(W, Lexical(W))
  <2> HIDE DEF W
  <2>1. /\ s \in Seq(W) /\ Len(s) = m /\ DOMAIN s = 1..m /\ m \in Nat
        /\ \A x \in W : \E k \in 1..m : s[k] = x
        /\ \A k, l \in 1..m : s[k] = s[l] => k = l
    BY <1>1, InOrderList
  <2> QED
    BY <1>0, <2>1
<1>14. \A x \in W : LET place == Cardinality({y \in W : <<y, x>> \in Lexical(W)}) + 1
                    IN  place \in 1..m /\ at[place] = x
  <2> HIDE DEF W
  <2> QED
    BY <1>0, <1>1, InOrderIs
<1>5. ASSUME NEW c \in 1..n, NEW i \in 1..Len(lists[c])
      PROVE  \E k \in 1..m : k <= (i - 1) * n + c /\ at[k] = <<i, c>>
  <2> DEFINE x == <<i, c>>
             before == {y \in W : <<y, x>> \in Lexical(W)}
             earlier == (1..(i - 1)) \X (1..n)
             f == [d \in 1..(c - 1) |-> <<i, d>>]
             now == {f[d] : d \in 1..(c - 1)}
  <2>0. lists[c] \in Seq(T) /\ Len(lists[c]) \in Nat /\ i \in Int /\ i >= 1
    OBVIOUS
  <2>1. x \in W
    BY <1>1
  <2>2. before \in SUBSET (earlier \cup now)
    <3> SUFFICES ASSUME NEW y \in W, <<y, x>> \in Lexical(W) PROVE y \in earlier \cup now
      OBVIOUS
    <3>1. y = <<y[1], y[2]>> /\ y[2] \in 1..n /\ y[1] \in 1..Len(lists[y[2]])
      BY <1>1
    <3>2. lists[y[2]] \in Seq(T)
      BY <3>1
    <3>3. y[1] >= 1 /\ y[1] \in Int /\ y[2] \in Int
      BY <3>1, <3>2
    <3>4. y[1] < i \/ (y[1] = i /\ y[2] < c)
      BY <1>3
    <3>5. CASE y[1] < i
      <4>1. y[1] \in 1..(i - 1)
        BY <2>0, <3>3, <3>5
      <4> QED
        BY <3>1, <4>1
    <3>6. CASE y[1] = i /\ y[2] < c
      <4>1. y = <<i, y[2]>> /\ y[2] \in 1..(c - 1)
        BY <3>1, <3>3, <3>6
      <4> QED
        BY <4>1
    <3> QED
      BY <3>4, <3>5, <3>6
  <2>3. IsFiniteSet(now) /\ Cardinality(now) <= c - 1
    <3> DEFINE D == 1..(c - 1)
    <3>1. IsFiniteSet(D) /\ Cardinality(D) = c - 1
      BY FS_Interval
    <3> HIDE DEF f, D
    <3>2. IsFiniteSet({f[d] : d \in D}) /\ Cardinality({f[d] : d \in D}) <= Cardinality(D)
      BY <3>1, FiniteImage
    <3> QED
      BY <3>1, <3>2 DEF D
  <2>4. IsFiniteSet(earlier) /\ Cardinality(earlier) = (i - 1) * n
    <3> DEFINE A == 1..(i - 1)
               B == 1..n
    <3>1. IsFiniteSet(A) /\ Cardinality(A) = i - 1
      <4>1. 1 \in Int /\ i - 1 \in Int /\ ~(1 > i - 1 /\ i - 1 # 0)
        BY <2>0
      <4>2. 1 > i - 1 => i - 1 = 0
        BY <4>1
      <4> DEFINE j == i - 1
      <4> HIDE DEF j
      <4>3. j \in Int /\ (1 > j => j = 0)
        BY <4>1, <4>2 DEF j
      <4>4. IsFiniteSet(1..j) /\ Cardinality(1..j) = j
        BY <4>3, FS_Interval
      <4> QED
        BY <4>4 DEF j
    <3>2. IsFiniteSet(B) /\ Cardinality(B) = n
      BY FS_Interval
    <3> HIDE DEF A, B
    <3>3. IsFiniteSet(A \X B) /\ Cardinality(A \X B) = Cardinality(A) * Cardinality(B)
      BY <3>1, <3>2, FS_Product
    <3>4. Cardinality(A) * Cardinality(B) = (i - 1) * n
      BY <3>1, <3>2
    <3> QED
      BY <3>3, <3>4 DEF A, B
  <2> HIDE DEF W, at, m
  <2>5. Cardinality(before) + 1 \in 1..m /\ at[Cardinality(before) + 1] = x
    BY <1>14, <2>1
  <2> HIDE DEF before, earlier, now
  <2>6. /\ IsFiniteSet(earlier \cup now)
        /\ Cardinality(earlier) \in Nat /\ Cardinality(now) \in Nat
        /\ Cardinality(earlier \cup now) \in Nat
        /\ Cardinality(earlier \cup now) <= Cardinality(earlier) + Cardinality(now)
    <3>1. IsFiniteSet(earlier \cup now) /\ IsFiniteSet(earlier \cap now)
      BY <2>3, <2>4, FS_Union, FS_Intersection
    <3>2. Cardinality(earlier \cup now)
            = Cardinality(earlier) + Cardinality(now) - Cardinality(earlier \cap now)
      BY <2>3, <2>4, FS_Union
    <3>3. /\ Cardinality(earlier) \in Nat /\ Cardinality(now) \in Nat
          /\ Cardinality(earlier \cup now) \in Nat /\ Cardinality(earlier \cap now) \in Nat
      BY <2>3, <2>4, <3>1, FS_CardinalityType
    <3> QED
      BY <3>1, <3>2, <3>3
  <2>7. /\ Cardinality(before) <= Cardinality(earlier \cup now)
        /\ Cardinality(before) \in Nat
    BY <2>2, <2>6, FS_Subset, FS_CardinalityType
  <2>8. Cardinality(before) + 1 <= (i - 1) * n + c
    <3> DEFINE p == (i - 1) * n
    <3>1. p \in Int
      BY <2>0
    <3>2. Cardinality(earlier) = p
      BY <2>4
    <3> HIDE DEF p
    <3>3. Cardinality(before) + 1 <= p + c
      BY <2>3, <2>6, <2>7, <3>1, <3>2
    <3> QED
      BY <3>3 DEF p
  <2> QED
    BY <2>5, <2>8
<1> HIDE DEF at, m, o
<1>6. \A k \in 1..m : at[k] \in W
  BY <1>4
<1>7. \A k \in 1..m : /\ at[k] = <<at[k][1], at[k][2]>>
                      /\ at[k][2] \in 1..n /\ at[k][1] \in 1..Len(lists[at[k][2]])
  <2> HIDE DEF W
  <2> QED
    BY <1>1, <1>6
<1>8. \A k \in 1..m : lists[at[k][2]][at[k][1]] \in T
  <2> TAKE k \in 1..m
  <2>1. at[k][2] \in 1..n /\ at[k][1] \in 1..Len(lists[at[k][2]])
    BY <1>7
  <2>2. lists[at[k][2]] \in Seq(T)
    BY <2>1
  <2> QED
    BY <2>1, <2>2
<1>9. o = [k \in 1..m |-> lists[at[k][2]][at[k][1]]]
  BY <1>2, <1>4
<1>10. /\ o \in Seq(T) /\ Len(o) = m /\ DOMAIN o = 1..m
       /\ \A k \in 1..m : o[k] = lists[at[k][2]][at[k][1]]
  BY <1>4, <1>8, <1>9
<1>11. \A k, l \in 1..m : at[k][1] = at[l][1] /\ at[k][2] = at[l][2] => k = l
  <2> TAKE k, l \in 1..m
  <2> HAVE at[k][1] = at[l][1] /\ at[k][2] = at[l][2]
  <2>1. at[k] = <<at[k][1], at[k][2]>> /\ at[l] = <<at[l][1], at[l][2]>>
    BY <1>7
  <2>2. at[k] = at[l]
    BY <2>1
  <2> QED
    BY <1>4, <2>2
<1>12. \A c \in 1..n : \A i \in 1..Len(lists[c]) :
         \E k \in 1..m : k <= (i - 1) * n + c /\ o[k] = lists[c][i]
  <2> TAKE c \in 1..n
  <2> TAKE i \in 1..Len(lists[c])
  <2>1. PICK k \in 1..m : k <= (i - 1) * n + c /\ at[k] = <<i, c>>
    BY <1>5
  <2>2. at[k][1] = i /\ at[k][2] = c
    BY <2>1
  <2>3. o[k] = lists[c][i]
    BY <1>10, <2>2
  <2> QED
    BY <2>1, <2>3
<1> HIDE DEF W
<1>15. Len(o) = m /\ DOMAIN at = 1..Len(o)
  BY <1>4, <1>10
<1>16. /\ DOMAIN o = 1..Len(o)
       /\ \A k \in 1..Len(o) :
            /\ at[k][2] \in 1..n /\ at[k][1] \in 1..Len(lists[at[k][2]])
            /\ o[k] = lists[at[k][2]][at[k][1]]
       /\ \A k, l \in 1..Len(o) : at[k][1] = at[l][1] /\ at[k][2] = at[l][2] => k = l
       /\ \A c \in 1..n : \A i \in 1..Len(lists[c]) :
            \E k \in 1..Len(o) : k <= (i - 1) * n + c /\ o[k] = lists[c][i]
  BY <1>7, <1>10, <1>11, <1>12, <1>15
<1> QED
  BY <1>10, <1>15, <1>16 DEF at, o

\* A finite set of numbers has a greatest element.
LEMMA HasGreatest ==
  ASSUME NEW S, IsFiniteSet(S), S \subseteq Int, S # {}
  PROVE  \E x \in S : \A y \in S : x >= y
<1> DEFINE s == InOrder(S, Ascending(S))
           n == Cardinality(S)
<1>1. StrictOrder(S, Ascending(S))
  BY AscendingOrders
<1>2. /\ s \in Seq(S) /\ Len(s) = n /\ n \in Nat
      /\ \A x \in S : \E i \in 1..n : s[i] = x
      /\ \A i, j \in 1..n : i < j => <<s[i], s[j]>> \in Ascending(S)
  BY <1>1, InOrderList
<1>3. \A x, y : <<x, y>> \in Ascending(S) => x < y
  BY DEF Ascending
<1> HIDE DEF s, n
<1>4. n \in 1..n
  <2>1. PICK x \in S : TRUE
    OBVIOUS
  <2>2. PICK i \in 1..n : s[i] = x
    BY <1>2, <2>1
  <2> QED
    BY <1>2, <2>2
<1>5. \A i \in 1..n : s[i] \in S /\ s[i] \in Int
  <2>1. \A i \in 1..n : s[i] \in S
    BY <1>2
  <2> QED
    BY <2>1
<1>6. \A i \in 1..n : s[n] >= s[i]
  <2> TAKE i \in 1..n
  <2>1. i = n \/ i < n
    BY <1>4
  <2>2. i < n => s[i] < s[n]
    BY <1>2, <1>3, <1>4
  <2> QED
    BY <1>4, <1>5, <2>1, <2>2
<1> QED
  BY <1>2, <1>4, <1>5, <1>6

\* A sum is the last of the sums of the first so many.
LEMMA AddedUpSums ==
  ASSUME NEW s \in Seq(Int)
  PROVE  \E f \in [0..Len(s) -> Int] :
           /\ f[0] = 0 /\ \A i \in 1..Len(s) : f[i] = f[i - 1] + s[i]
           /\ AddedUp(s) = f[Len(s)]
<1> DEFINE n == Len(s)
           Sums(m) == {f \in [0..m -> Int] : \A i \in 0..m : f[i] = IF i = 0 THEN 0 ELSE f[i - 1] + s[i]}
           bad == {m \in 0..n : Sums(m) = {}}
<1>1. n \in Nat /\ \A i \in 1..n : s[i] \in Int
  OBVIOUS
<1> HIDE DEF n
<1>2. bad = {}
  <2> SUFFICES ASSUME bad # {} PROVE FALSE
    OBVIOUS
  <2>1. bad \in SUBSET Nat
    BY <1>1
  <2>2. PICK m \in bad : \A k \in bad : m <= k
    <3> HIDE DEF bad
    <3> QED
      BY <2>1, HasLeast
  <2>3. m # 0
    <3>1. [i \in 0..0 |-> 0] \in Sums(0)
      OBVIOUS
    <3> QED
      BY <2>2, <3>1
  <2>4. m \in 1..n /\ m - 1 \in 0..n /\ m - 1 \notin bad
    <3>1. m \in 0..n
      OBVIOUS
    <3> HIDE DEF bad
    <3> QED
      BY <1>1, <2>2, <2>3, <3>1
  <2>5. PICK f \in [0..(m - 1) -> Int] :
          \A i \in 0..(m - 1) : f[i] = IF i = 0 THEN 0 ELSE f[i - 1] + s[i]
    BY <2>4
  <2> DEFINE g == [i \in 0..m |-> IF i = m THEN f[m - 1] + s[m] ELSE f[i]]
  <2>6. g \in [0..m -> Int]
    BY <1>1, <2>4
  <2>7. ASSUME NEW i \in 0..m PROVE g[i] = IF i = 0 THEN 0 ELSE g[i - 1] + s[i]
    <3>1. CASE i = m
      BY <1>1, <2>4, <3>1
    <3>2. CASE i # m
      <4>1. i \in 0..(m - 1) /\ g[i] = f[i]
        BY <2>4, <3>2
      <4>2. i # 0 => i - 1 \in 0..m /\ i - 1 # m /\ g[i - 1] = f[i - 1]
        BY <2>4, <4>1
      <4> QED
        BY <2>5, <4>1, <4>2
    <3> QED
      BY <3>1, <3>2
  <2>8. g \in Sums(m)
    <3> HIDE DEF g
    <3> QED
      BY <2>6, <2>7
  <2> QED
    BY <2>2, <2>8
<1>3. PICK f \in [0..n -> Int] : \A i \in 0..n : f[i] = IF i = 0 THEN 0 ELSE f[i - 1] + s[i]
  <2>1. n \in 0..n
    BY <1>1
  <2> QED
    BY <1>2, <2>1
<1> DEFINE body(g) == [i \in 0..n |-> IF i = 0 THEN 0 ELSE g[i - 1] + s[i]]
           sum == CHOOSE g : g = body(g)
<1>4. f = body(f)
  BY <1>3
<1>5. sum = body(sum)
  <2> HIDE DEF body
  <2> QED
    BY <1>4
<1>6. \A i \in 0..n : sum[i] = IF i = 0 THEN 0 ELSE sum[i - 1] + s[i]
  <2> HIDE DEF sum
  <2> QED
    BY <1>5
<1> HIDE DEF sum
<1>7. \A i \in 0..n : sum[i] = f[i]
  <2> DEFINE off == {i \in 0..n : sum[i] # f[i]}
  <2> SUFFICES ASSUME off # {} PROVE FALSE
    OBVIOUS
  <2>1. off \in SUBSET Nat
    BY <1>1
  <2>2. PICK i \in off : \A k \in off : i <= k
    <3> HIDE DEF off
    <3> QED
      BY <2>1, HasLeast
  <2>3. i # 0
    BY <1>3, <1>6, <2>2
  <2>4. i - 1 \in 0..n /\ i - 1 \notin off
    BY <1>1, <2>1, <2>2, <2>3
  <2>5. sum[i - 1] = f[i - 1]
    BY <2>4
  <2> QED
    BY <1>3, <1>6, <2>2, <2>3, <2>5
<1>8. AddedUp(s) = f[n]
  <2>1. AddedUp(s) = sum[n]
    BY DEF AddedUp, sum, n
  <2> QED
    BY <1>1, <1>7, <2>1
<1>9. f[0] = 0 /\ \A i \in 1..n : f[i] = f[i - 1] + s[i]
  <2>1. \A i \in 1..n : i \in 0..n /\ i # 0
    BY <1>1
  <2>2. 0 \in 0..n
    BY <1>1
  <2> QED
    BY <1>3, <2>1, <2>2
<1> QED
  BY <1>8, <1>9 DEF n

\* A sum of integers is one.
LEMMA AddedUpIs ==
  ASSUME NEW s \in Seq(Int)
  PROVE  AddedUp(s) \in Int
<1>1. PICK f \in [0..Len(s) -> Int] : AddedUp(s) = f[Len(s)]
  BY AddedUpSums
<1> QED
  BY <1>1

\* What holds of none and of one more than it holds of, holds of all.
LEMMA Upwards ==
  ASSUME NEW n \in Nat, NEW good, 0 \in good, \A i \in 1..n : i - 1 \in good => i \in good
  PROVE  n \in good
<1> DEFINE bad == {i \in 0..n : i \notin good}
<1>1. bad = {}
  <2> SUFFICES ASSUME bad # {} PROVE FALSE
    OBVIOUS
  <2>1. bad \in SUBSET Nat
    OBVIOUS
  <2>2. PICK i \in bad : \A k \in bad : i <= k
    <3> HIDE DEF bad
    <3> QED
      BY <2>1, HasLeast
  <2>3. i \in 1..n
    BY <2>2
  <2>4. i - 1 \in 0..n /\ i - 1 \notin bad
    <3>1. ~(i <= i - 1) /\ i - 1 \in 0..n
      BY <2>3
    <3> HIDE DEF bad
    <3> QED
      BY <2>2, <3>1
  <2> QED
    BY <2>2, <2>3, <2>4
<1> QED
  BY <1>1

\* Sums of two lists, place by place.
LEMMA AddedUpSplits ==
  ASSUME NEW s \in Seq(Int), NEW a \in Seq(Int), NEW b \in Seq(Int),
         Len(a) = Len(s), Len(b) = Len(s), \A i \in 1..Len(s) : s[i] = a[i] + b[i]
  PROVE  AddedUp(s) = AddedUp(a) + AddedUp(b)
<1> DEFINE n == Len(s)
<1>1. n \in Nat /\ (\A i \in 1..n : a[i] \in Int /\ b[i] \in Int /\ s[i] = a[i] + b[i])
  OBVIOUS
<1>2. PICK f \in [0..n -> Int] : /\ f[0] = 0 /\ \A i \in 1..n : f[i] = f[i - 1] + s[i]
                                 /\ AddedUp(s) = f[n]
  BY AddedUpSums
<1>3. PICK g \in [0..n -> Int] : /\ g[0] = 0 /\ \A i \in 1..n : g[i] = g[i - 1] + a[i]
                                 /\ AddedUp(a) = g[n]
  BY AddedUpSums
<1>4. PICK h \in [0..n -> Int] : /\ h[0] = 0 /\ \A i \in 1..n : h[i] = h[i - 1] + b[i]
                                 /\ AddedUp(b) = h[n]
  BY AddedUpSums
<1> HIDE DEF n
<1> DEFINE good == {i \in 0..n : f[i] = g[i] + h[i]}
<1>5. 0 \in good
  BY <1>1, <1>2, <1>3, <1>4
<1>6. ASSUME NEW i \in 1..n, i - 1 \in good PROVE i \in good
  <2>1. i - 1 \in 0..n /\ i \in 0..n /\ f[i - 1] = g[i - 1] + h[i - 1]
    BY <1>1, <1>6
  <2>2. f[i - 1] \in Int /\ g[i - 1] \in Int /\ h[i - 1] \in Int /\ a[i] \in Int /\ b[i] \in Int
    BY <1>1, <2>1
  <2>3. f[i] = f[i - 1] + (a[i] + b[i]) /\ g[i] = g[i - 1] + a[i] /\ h[i] = h[i - 1] + b[i]
    BY <1>1, <1>2, <1>3, <1>4
  <2>4. f[i] = g[i] + h[i]
    BY <2>1, <2>2, <2>3
  <2> QED
    BY <2>1, <2>4
<1>7. n \in good
  <2> HIDE DEF good
  <2> QED
    BY <1>1, <1>5, <1>6, Upwards
<1> QED
  BY <1>2, <1>3, <1>4, <1>7

\* Sums keep the order of their places, and their factor.
LEMMA AddedUpOrdered ==
  ASSUME NEW a \in Seq(Int), NEW b \in Seq(Int), Len(a) = Len(b),
         NEW u \in Nat, \A i \in 1..Len(b) : a[i] <= u * b[i]
  PROVE  AddedUp(a) <= u * AddedUp(b)
<1> DEFINE n == Len(b)
<1>1. n \in Nat /\ (\A i \in 1..n : a[i] \in Int /\ b[i] \in Int /\ a[i] <= u * b[i])
  OBVIOUS
<1>2. PICK g \in [0..n -> Int] : /\ g[0] = 0 /\ \A i \in 1..n : g[i] = g[i - 1] + a[i]
                                 /\ AddedUp(a) = g[n]
  BY AddedUpSums
<1>3. PICK h \in [0..n -> Int] : /\ h[0] = 0 /\ \A i \in 1..n : h[i] = h[i - 1] + b[i]
                                 /\ AddedUp(b) = h[n]
  BY AddedUpSums
<1> HIDE DEF n
<1> DEFINE good == {i \in 0..n : g[i] <= u * h[i]}
<1>4. 0 \in good
  BY <1>1, <1>2, <1>3
<1>5. ASSUME NEW i \in 1..n, i - 1 \in good PROVE i \in good
  <2>1. i - 1 \in 0..n /\ i \in 0..n /\ g[i - 1] <= u * h[i - 1]
    BY <1>1, <1>5
  <2>2. g[i - 1] \in Int /\ h[i - 1] \in Int /\ a[i] \in Int /\ b[i] \in Int
    BY <1>1, <2>1
  <2>3. u * (h[i - 1] + b[i]) = u * h[i - 1] + u * b[i]
    BY <2>2
  <2>4. u * h[i - 1] \in Int /\ u * b[i] \in Int
    BY <2>2
  <2>5. g[i] = g[i - 1] + a[i] /\ h[i] = h[i - 1] + b[i] /\ a[i] <= u * b[i]
    BY <1>1, <1>2, <1>3
  <2>6. g[i] <= u * h[i]
    <3> DEFINE x == u * h[i - 1]
               y == u * b[i]
    <3>1. g[i - 1] <= x /\ a[i] <= y /\ x \in Int /\ y \in Int
      BY <2>1, <2>4, <2>5
    <3>2. u * h[i] = x + y
      BY <2>3, <2>5
    <3> HIDE DEF x, y
    <3>3. g[i - 1] + a[i] <= x + y
      BY <2>2, <3>1
    <3> QED
      BY <2>5, <3>2, <3>3
  <2> QED
    BY <2>1, <2>6
<1>6. n \in good
  <2> HIDE DEF good
  <2> QED
    BY <1>1, <1>4, <1>5, Upwards
<1> QED
  BY <1>2, <1>3, <1>6

\* As many ones as there are places.
LEMMA AddedUpOnes ==
  ASSUME NEW s \in Seq(Int), \A i \in 1..Len(s) : s[i] = 1
  PROVE  AddedUp(s) = Len(s)
<1> DEFINE n == Len(s)
<1>1. n \in Nat /\ \A i \in 1..n : s[i] = 1
  OBVIOUS
<1>2. PICK f \in [0..n -> Int] : /\ f[0] = 0 /\ \A i \in 1..n : f[i] = f[i - 1] + s[i]
                                 /\ AddedUp(s) = f[n]
  BY AddedUpSums
<1> HIDE DEF n
<1> DEFINE good == {i \in 0..n : f[i] = i}
<1>3. 0 \in good
  BY <1>1, <1>2
<1>4. ASSUME NEW i \in 1..n, i - 1 \in good PROVE i \in good
  <2>1. i \in 0..n /\ f[i - 1] = i - 1
    BY <1>1, <1>4
  <2>2. f[i] = f[i - 1] + 1
    BY <1>1, <1>2
  <2>3. f[i] = i
    BY <1>1, <2>1, <2>2
  <2> QED
    BY <2>1, <2>3
<1>5. n \in good
  <2> HIDE DEF good
  <2> QED
    BY <1>1, <1>3, <1>4, Upwards
<1> QED
  BY <1>2, <1>5 DEF n

\* The sum of some places of a list is that of the list with nothing at the others.
LEMMA AddedUpPicked ==
  ASSUME NEW s \in Seq(Int), NEW keep \in SUBSET (1..Len(s))
  PROVE  AddedUp(Picked(s, keep)) = AddedUp([i \in DOMAIN s |-> IF i \in keep THEN s[i] ELSE 0])
<1> DEFINE n == Len(s)
           at == InOrder(keep, Ascending(keep))
           p == Picked(s, keep)
           k == Cardinality(keep)
           m == [i \in DOMAIN s |-> IF i \in keep THEN s[i] ELSE 0]
           first(i) == {j \in keep : j <= i}
<1>1. n \in Nat /\ DOMAIN s = 1..n /\ (\A i \in 1..n : s[i] \in Int)
  OBVIOUS
<1>2. m \in Seq(Int) /\ Len(m) = n /\ \A i \in 1..n : m[i] = IF i \in keep THEN s[i] ELSE 0
  BY <1>1
<1>3. /\ IsFiniteSet(keep) /\ k \in Nat
      /\ p \in Seq(Int) /\ Len(p) = k
      /\ \A j \in 1..k : p[j] = s[at[j]]
  BY PickedList
<1>4. \A i \in keep : i \in 1..n
  OBVIOUS
<1>5. ASSUME NEW i \in keep
      PROVE  LET place == Cardinality({y \in keep : y < i}) + 1
             IN  place \in 1..k /\ at[place] = i
  <2>1. StrictOrder(keep, Ascending(keep))
    <3>1. keep \subseteq Int
      BY <1>1, <1>4
    <3> QED
      BY <3>1, AscendingOrders
  <2>2. {y \in keep : <<y, i>> \in Ascending(keep)} = {y \in keep : y < i}
    BY DEF Ascending
  <2>3. LET place == Cardinality({y \in keep : <<y, i>> \in Ascending(keep)}) + 1
        IN  place \in 1..k /\ at[place] = i
    BY <1>3, <2>1, InOrderIs
  <2> QED
    BY <2>2, <2>3
<1>6. PICK f \in [0..n -> Int] : /\ f[0] = 0 /\ \A i \in 1..n : f[i] = f[i - 1] + m[i]
                                 /\ AddedUp(m) = f[n]
  <2> HIDE DEF m, n
  <2> QED
    BY <1>2, AddedUpSums
<1>7. PICK g \in [0..k -> Int] : /\ g[0] = 0 /\ \A i \in 1..k : g[i] = g[i - 1] + p[i]
                                 /\ AddedUp(p) = g[k]
  <2> HIDE DEF p, k
  <2> QED
    BY <1>3, AddedUpSums
<1> DEFINE c(i) == Cardinality(first(i))
           good == {i \in 0..n : c(i) \in 0..k /\ f[i] = g[c(i)]}
<1> HIDE DEF n, at, p, k, m
<1>8. 0 \in good
  <2>1. first(0) = {}
    BY <1>1, <1>4
  <2>2. c(0) = 0
    BY <2>1, FS_EmptySet
  <2> HIDE DEF c
  <2> QED
    BY <1>1, <1>3, <1>6, <1>7, <2>2
<1>9. ASSUME NEW i \in 1..n, i - 1 \in good PROVE i \in good
  <2>1. i \in 0..n /\ c(i - 1) \in 0..k /\ f[i - 1] = g[c(i - 1)]
    BY <1>1, <1>9
  <2>2. \A y \in 1..n : /\ y < i <=> y <= i - 1
                        /\ y <= i <=> y <= i - 1 \/ y = i
                        /\ ~(i <= i - 1)
    BY <1>1
  <2>3. \A y \in keep : /\ y < i <=> y <= i - 1
                        /\ y <= i <=> y <= i - 1 \/ y = i
    BY <1>4, <2>2
  <2>4. CASE i \notin keep
    <3>1. first(i) = first(i - 1)
      BY <2>3, <2>4
    <3>2. m[i] = 0 /\ f[i - 1] \in Int
      BY <1>1, <1>2, <2>4
    <3> HIDE DEF first
    <3> QED
      BY <1>6, <2>1, <3>1, <3>2
  <2>5. CASE i \in keep
    <3>1. {y \in keep : y < i} = first(i - 1)
      BY <2>3
    <3>2. c(i - 1) + 1 \in 1..k /\ at[c(i - 1) + 1] = i
      BY <1>5, <2>5, <3>1
    <3>3. c(i) = c(i - 1) + 1
      <4>1. first(i) = first(i - 1) \cup {i} /\ i \notin first(i - 1)
        BY <2>2, <2>3, <2>5
      <4>2. IsFiniteSet(first(i - 1))
        BY <1>3, FS_Subset
      <4> HIDE DEF first
      <4> QED
        BY <4>1, <4>2, FS_AddElement
    <3>4. p[c(i)] = s[i] /\ m[i] = s[i]
      BY <1>2, <1>3, <2>5, <3>2, <3>3
    <3> HIDE DEF c
    <3>5. g[c(i)] = g[c(i) - 1] + p[c(i)] /\ c(i) - 1 = c(i - 1)
      <4>1. c(i) \in 1..k /\ c(i - 1) \in Int
        BY <2>1, <3>2, <3>3
      <4>2. c(i) - 1 = c(i - 1)
        BY <3>3, <4>1
      <4>3. g[c(i)] = g[c(i) - 1] + p[c(i)]
        BY <1>7, <4>1
      <4> QED
        BY <4>2, <4>3
    <3>6. f[i] = f[i - 1] + m[i]
      BY <1>6
    <3>7. c(i) \in 0..k
      BY <1>3, <3>2, <3>3
    <3> QED
      BY <2>1, <3>4, <3>5, <3>6, <3>7
  <2> QED
    BY <2>4, <2>5
<1>10. n \in good
  <2> HIDE DEF good
  <2> QED
    BY <1>1, <1>8, <1>9, Upwards
<1>11. c(n) = k
  <2>1. first(n) = keep
    BY <1>1, <1>4
  <2> QED
    BY <2>1 DEF k
<1>12. AddedUp(p) = AddedUp(m)
  <2> HIDE DEF c
  <2> QED
    BY <1>6, <1>7, <1>10, <1>11
<1> QED
  BY <1>12 DEF p, m

\* A filter in front of a narrower one changes nothing for how many it lets through.
LEMMA OnlyOfOnly ==
  ASSUME NEW T, NEW s \in Seq(T), NEW U, NEW V,
         \A i \in DOMAIN s : s[i] \in V => s[i] \in U
  PROVE  Len(Only(Only(s, U), V)) = Len(Only(s, V))
<1> DEFINE keep == {i \in DOMAIN s : s[i] \in U}
           at == InOrder(keep, Ascending(keep))
           n == Cardinality(keep)
           o == Only(s, U)
           whole == {i \in DOMAIN s : s[i] \in V}
           part == {k \in DOMAIN o : o[k] \in V}
<1>1. keep \in SUBSET (1..Len(s)) /\ whole \in SUBSET (1..Len(s))
  OBVIOUS
<1>2. o = Picked(s, keep)
  BY DEF Only
<1>3. \A i : i \in keep <=> i \in DOMAIN s /\ s[i] \in U
  OBVIOUS
<1> HIDE DEF keep
<1>4. /\ n \in Nat /\ o \in Seq(T) /\ Len(o) = n /\ DOMAIN o = 1..n
      /\ at \in [1..n -> keep]
      /\ \A i, j \in 1..n : i < j => at[i] < at[j]
      /\ \A i \in keep : \E k \in 1..n : at[k] = i
      /\ \A k \in 1..n : o[k] = s[at[k]]
  BY <1>1, <1>2, PickedList
<1> HIDE DEF at, n, o
<1>5. \A i, j \in 1..n : at[i] = at[j] => i = j
  <2>1. \A i \in keep : i \in Int
    BY <1>3
  <2>2. \A i \in 1..n : at[i] \in Int
    BY <1>4, <2>1
  <2> QED
    BY <1>4, <2>2
<1>6. part \in SUBSET (1..Len(o)) /\ IsFiniteSet(part)
  <2>1. part \in SUBSET (1..Len(o))
    BY <1>4
  <2> HIDE DEF part
  <2> QED
    BY <1>4, <2>1, FinitePlaces
<1>7. {at[k] : k \in part} = whole
  <2>1. ASSUME NEW k \in part PROVE at[k] \in whole
    <3>1. k \in 1..n /\ o[k] \in V
      BY <1>4
    <3> QED
      BY <1>3, <1>4, <3>1
  <2>2. ASSUME NEW i \in whole PROVE \E k \in part : at[k] = i
    <3>1. i \in keep
      BY <1>3
    <3>2. PICK k \in 1..n : at[k] = i
      BY <1>4, <3>1
    <3>3. k \in part
      BY <1>4, <3>2
    <3> QED
      BY <3>2, <3>3
  <2> QED
    BY <2>1, <2>2
<1>8. \A k, l \in part : at[k] = at[l] => k = l
  BY <1>4, <1>5
<1>9. Cardinality(part) = Cardinality(whole)
  <2> HIDE DEF part, whole
  <2> QED
    BY <1>6, <1>7, <1>8, FiniteImage
<1>10. Only(o, V) = Picked(o, part) /\ Only(s, V) = Picked(s, whole)
  BY DEF Only
<1> HIDE DEF part, whole
<1>11. Len(Picked(o, part)) = Cardinality(part) /\ Len(Picked(s, whole)) = Cardinality(whole)
  BY <1>1, <1>4, <1>6, PickedList
<1> QED
  BY <1>9, <1>10, <1>11 DEF o

\* One list after the other: what is in either, each once if nothing is in both.
LEMMA JoinedList ==
  ASSUME NEW T, NEW s \in Seq(T), NEW t \in Seq(T)
  PROVE  /\ s \o t \in Seq(T) /\ Len(s \o t) = Len(s) + Len(t)
         /\ ToSet(s \o t) = ToSet(s) \cup ToSet(t)
         /\ IsInjective(s) /\ IsInjective(t) /\ ToSet(s) \cap ToSet(t) = {} => IsInjective(s \o t)
<1> DEFINE u == s \o t
           m == Len(s)
<1>1. /\ u \in Seq(T) /\ Len(u) = m + Len(t) /\ m \in Nat /\ Len(t) \in Nat
      /\ \A i \in 1..m : u[i] = s[i]
      /\ \A i \in 1..Len(t) : u[m + i] = t[i]
      /\ \A i \in 1..(m + Len(t)) : i > m => u[i] = t[i - m]
      /\ DOMAIN u = 1..(m + Len(t)) /\ DOMAIN s = 1..m /\ DOMAIN t = 1..Len(t)
  OBVIOUS
<1> HIDE DEF u, m
<1>2. ASSUME NEW i \in 1..(m + Len(t))
      PROVE  \/ i \in 1..m /\ u[i] = s[i] /\ u[i] \in ToSet(s)
             \/ i - m \in 1..Len(t) /\ u[i] = t[i - m] /\ u[i] \in ToSet(t)
  <2>1. CASE i \in 1..m
    BY <1>1, <2>1 DEF ToSet
  <2>2. CASE i \notin 1..m
    <3>1. i - m \in 1..Len(t) /\ i > m
      BY <1>1, <2>2
    <3>2. u[i] = t[i - m]
      BY <1>1, <3>1
    <3> QED
      BY <1>1, <3>1, <3>2 DEF ToSet
  <2> QED
    BY <2>1, <2>2
<1>3. ToSet(u) = ToSet(s) \cup ToSet(t)
  <2>1. ASSUME NEW x \in ToSet(u) PROVE x \in ToSet(s) \cup ToSet(t)
    <3>1. PICK i \in 1..(m + Len(t)) : u[i] = x
      BY <1>1 DEF ToSet
    <3> QED
      BY <1>2, <3>1
  <2>2. ASSUME NEW x \in ToSet(s) PROVE x \in ToSet(u)
    <3>1. PICK i \in 1..m : s[i] = x
      BY <1>1 DEF ToSet
    <3>2. i \in DOMAIN u /\ u[i] = x
      BY <1>1, <3>1
    <3> QED
      BY <3>2 DEF ToSet
  <2>3. ASSUME NEW x \in ToSet(t) PROVE x \in ToSet(u)
    <3>1. PICK i \in 1..Len(t) : t[i] = x
      BY <1>1 DEF ToSet
    <3>2. m + i \in DOMAIN u /\ u[m + i] = x
      BY <1>1, <3>1
    <3> QED
      BY <3>2 DEF ToSet
  <2> QED
    BY <2>1, <2>2, <2>3
<1>4. ASSUME IsInjective(s), IsInjective(t), ToSet(s) \cap ToSet(t) = {}
      PROVE  IsInjective(u)
  <2> SUFFICES ASSUME NEW i \in DOMAIN u, NEW j \in DOMAIN u, u[i] = u[j] PROVE i = j
    BY DEF IsInjective
  <2>1. i \in 1..(m + Len(t)) /\ j \in 1..(m + Len(t))
    BY <1>1
  <2>2. \A a, b \in 1..m : s[a] = s[b] => a = b
    BY <1>1, <1>4 DEF IsInjective
  <2>3. \A a, b \in 1..Len(t) : t[a] = t[b] => a = b
    BY <1>1, <1>4 DEF IsInjective
  <2>4. \/ i \in 1..m /\ j \in 1..m /\ s[i] = s[j]
        \/ i - m \in 1..Len(t) /\ j - m \in 1..Len(t) /\ t[i - m] = t[j - m]
    <3>1. \/ i \in 1..m /\ u[i] = s[i] /\ u[i] \in ToSet(s)
          \/ i - m \in 1..Len(t) /\ u[i] = t[i - m] /\ u[i] \in ToSet(t)
      BY <1>2, <2>1
    <3>2. \/ j \in 1..m /\ u[j] = s[j] /\ u[j] \in ToSet(s)
          \/ j - m \in 1..Len(t) /\ u[j] = t[j - m] /\ u[j] \in ToSet(t)
      BY <1>2, <2>1
    <3>3. ~(u[i] \in ToSet(s) /\ u[i] \in ToSet(t))
      BY <1>4
    <3> QED
      BY <3>1, <3>2, <3>3
  <2>5. i - m = j - m => i = j
    BY <1>1, <2>1
  <2> QED
    BY <2>2, <2>3, <2>4, <2>5
<1> QED
  BY <1>1, <1>3, <1>4 DEF u, m

\* A cut behind a list that fits cuts what comes after it.
LEMMA CutJoined ==
  ASSUME NEW T, NEW s \in Seq(T), NEW t \in Seq(T), NEW k \in Nat, Len(s) <= k
  PROVE  Cut(s \o t, k) = s \o Cut(t, k - Len(s))
<1> DEFINE u == s \o t
           m == Len(s)
           l == k - m
           c == Cut(u, k)
           d == Cut(t, l)
           v == s \o d
<1>1. /\ u \in Seq(T) /\ Len(u) = m + Len(t) /\ m \in Nat /\ Len(t) \in Nat
      /\ \A i \in 1..(m + Len(t)) : u[i] = IF i <= m THEN s[i] ELSE t[i - m]
  OBVIOUS
<1>2. l \in Nat /\ k = m + l
  OBVIOUS
<1> HIDE DEF u, m, l
<1>3. /\ c \in Seq(T) /\ Len(c) = AtMost(Len(u), k) /\ AtMost(Len(u), k) <= Len(u)
      /\ AtMost(Len(u), k) \in Nat /\ \A i \in 1..AtMost(Len(u), k) : c[i] = u[i]
  BY <1>1, CutList
<1>4. /\ d \in Seq(T) /\ Len(d) = AtMost(Len(t), l) /\ AtMost(Len(t), l) <= Len(t)
      /\ AtMost(Len(t), l) \in Nat /\ \A i \in 1..AtMost(Len(t), l) : d[i] = t[i]
  BY <1>2, CutList
<1>5. AtMost(Len(u), k) = m + AtMost(Len(t), l)
  BY <1>1, <1>2 DEF AtMost
<1> HIDE DEF c, d
<1>6. /\ v \in Seq(T) /\ Len(v) = m + Len(d)
      /\ \A i \in 1..(m + Len(d)) : v[i] = IF i <= m THEN s[i] ELSE d[i - m]
  <2>1. d \in Seq(T)
    BY <1>4
  <2> QED
    BY <2>1 DEF m
<1> HIDE DEF v
<1> DEFINE n == AtMost(Len(t), l)
<1>7. n \in Nat /\ n <= Len(t) /\ Len(c) = m + n /\ Len(v) = m + n
  BY <1>1, <1>3, <1>4, <1>5, <1>6
<1>8. ASSUME NEW i \in 1..(m + n) PROVE c[i] = v[i]
  <2>1. c[i] = u[i] /\ i \in 1..(m + Len(t)) /\ i \in 1..(m + Len(d))
    BY <1>1, <1>3, <1>4, <1>5, <1>7
  <2>2. CASE i <= m
    BY <1>1, <1>6, <2>1, <2>2
  <2>3. CASE ~(i <= m)
    <3>1. i - m \in 1..n
      BY <1>1, <1>7, <2>3
    <3> QED
      BY <1>1, <1>4, <1>6, <2>1, <2>3, <3>1
  <2> QED
    BY <2>2, <2>3
<1>9. c = v
  <2>1. c \in Seq(T) /\ v \in Seq(T) /\ Len(c) = m + n /\ Len(v) = m + n
    BY <1>3, <1>6, <1>7
  <2> HIDE DEF n
  <2> QED
    BY <1>8, <2>1
<1> QED
  BY <1>9 DEF c, u, v, d, l, m

\* What a list of rows is worth, if value says what a row is.
SumOf(rows, value) == AddedUp([i \in DOMAIN rows |-> value[rows[i]]])

\* The values of the rows are a list of integers.
LEMMA ValuesIs ==
  ASSUME NEW D, NEW value \in [D -> Int], NEW rows \in Seq(D)
  PROVE  LET v == [i \in DOMAIN rows |-> value[rows[i]]]
         IN  /\ v \in Seq(Int) /\ Len(v) = Len(rows) /\ DOMAIN v = 1..Len(rows)
             /\ \A i \in 1..Len(rows) : v[i] = value[rows[i]]
             /\ SumOf(rows, value) = AddedUp(v) /\ SumOf(rows, value) \in Int
<1> DEFINE n == Len(rows)
           v == [i \in DOMAIN rows |-> value[rows[i]]]
<1>1. n \in Nat /\ DOMAIN rows = 1..n /\ \A i \in 1..n : rows[i] \in D
  OBVIOUS
<1> HIDE DEF n
<1>2. \A i \in 1..n : value[rows[i]] \in Int
  BY <1>1
<1>3. v \in Seq(Int) /\ Len(v) = n /\ DOMAIN v = 1..n /\ \A i \in 1..n : v[i] = value[rows[i]]
  BY <1>1, <1>2
<1>4. SumOf(rows, value) = AddedUp(v)
  BY DEF SumOf
<1> HIDE DEF v
<1>5. AddedUp(v) \in Int
  BY <1>3, AddedUpIs
<1> QED
  BY <1>3, <1>4, <1>5 DEF n, v

\* The rows of a test are worth what all are when the others count for nothing.
LEMMA SumOfOnly ==
  ASSUME NEW D, NEW value \in [D -> Int], NEW rows \in Seq(D), NEW S
  PROVE  /\ Only(rows, S) \in Seq(D)
         /\ SumOf(Only(rows, S), value) = SumOf(rows, [r \in D |-> IF r \in S THEN value[r] ELSE 0])
<1> DEFINE keep == {i \in DOMAIN rows : rows[i] \in S}
           v == [i \in DOMAIN rows |-> value[rows[i]]]
           p == Picked(rows, keep)
           at == InOrder(keep, Ascending(keep))
           k == Cardinality(keep)
           mask == [r \in D |-> IF r \in S THEN value[r] ELSE 0]
           n == Len(rows)
<1>1. n \in Nat /\ DOMAIN rows = 1..n /\ (\A i \in 1..n : rows[i] \in D)
  OBVIOUS
<1>2. keep \in SUBSET (1..n) /\ Only(rows, S) = p
  BY DEF Only
<1>3. v \in Seq(Int) /\ Len(v) = n /\ DOMAIN v = 1..n /\ \A i \in 1..n : v[i] = value[rows[i]]
  BY ValuesIs
<1>4. \A i : i \in keep <=> i \in 1..n /\ rows[i] \in S
  BY <1>1
<1> HIDE DEF keep, v
<1>5. /\ p \in Seq(D) /\ DOMAIN p = 1..k /\ k \in Nat /\ at \in [1..k -> keep]
      /\ \A j \in 1..k : p[j] = rows[at[j]]
  BY <1>2, PickedList
<1>6. /\ DOMAIN Picked(v, keep) = 1..k
      /\ \A j \in 1..k : Picked(v, keep)[j] = v[at[j]]
  BY <1>2, <1>3, PickedList
<1>7. Picked(v, keep) = [j \in DOMAIN p |-> value[p[j]]]
  <2>1. \A j \in 1..k : at[j] \in 1..n
    BY <1>2, <1>5
  <2>2. \A j \in 1..k : v[at[j]] = value[p[j]]
    BY <1>3, <1>5, <2>1
  <2>3. Picked(v, keep) = [j \in 1..k |-> Picked(v, keep)[j]]
    BY <1>6 DEF Picked
  <2> HIDE DEF p, at, k
  <2> QED
    BY <1>5, <1>6, <2>2, <2>3
<1>8. SumOf(p, value) = AddedUp(Picked(v, keep))
  BY <1>7 DEF SumOf
<1>9. AddedUp(Picked(v, keep)) = AddedUp([i \in DOMAIN v |-> IF i \in keep THEN v[i] ELSE 0])
  BY <1>2, <1>3, AddedUpPicked
<1>10. [i \in DOMAIN v |-> IF i \in keep THEN v[i] ELSE 0] = [i \in DOMAIN rows |-> mask[rows[i]]]
  BY <1>1, <1>3, <1>4
<1>11. SumOf(rows, mask) = AddedUp([i \in DOMAIN rows |-> mask[rows[i]]])
  BY DEF SumOf
<1> QED
  BY <1>2, <1>5, <1>8, <1>9, <1>10, <1>11

\* Two values of the rows, put together.
LEMMA SumOfSplits ==
  ASSUME NEW D, NEW v \in [D -> Int], NEW a \in [D -> Int], NEW b \in [D -> Int],
         NEW rows \in Seq(D), \A i \in 1..Len(rows) : v[rows[i]] = a[rows[i]] + b[rows[i]]
  PROVE  SumOf(rows, v) = SumOf(rows, a) + SumOf(rows, b)
<1>1. ASSUME NEW x \in [D -> Int]
      PROVE  LET xs == [i \in DOMAIN rows |-> x[rows[i]]]
             IN  /\ xs \in Seq(Int) /\ Len(xs) = Len(rows) /\ SumOf(rows, x) = AddedUp(xs)
                 /\ \A i \in 1..Len(rows) : xs[i] = x[rows[i]]
  BY ValuesIs
<1> DEFINE vs == [i \in DOMAIN rows |-> v[rows[i]]]
           as == [i \in DOMAIN rows |-> a[rows[i]]]
           bs == [i \in DOMAIN rows |-> b[rows[i]]]
<1>2. /\ vs \in Seq(Int) /\ Len(vs) = Len(rows) /\ SumOf(rows, v) = AddedUp(vs)
      /\ \A i \in 1..Len(rows) : vs[i] = v[rows[i]]
  BY <1>1
<1>3. /\ as \in Seq(Int) /\ Len(as) = Len(rows) /\ SumOf(rows, a) = AddedUp(as)
      /\ \A i \in 1..Len(rows) : as[i] = a[rows[i]]
  BY <1>1
<1>4. /\ bs \in Seq(Int) /\ Len(bs) = Len(rows) /\ SumOf(rows, b) = AddedUp(bs)
      /\ \A i \in 1..Len(rows) : bs[i] = b[rows[i]]
  BY <1>1
<1> HIDE DEF vs, as, bs
<1>5. \A i \in 1..Len(vs) : vs[i] = as[i] + bs[i]
  BY <1>2, <1>3, <1>4
<1>6. vs \in Seq(Int) /\ as \in Seq(Int) /\ bs \in Seq(Int) /\ Len(as) = Len(vs) /\ Len(bs) = Len(vs)
  BY <1>2, <1>3, <1>4
<1>7. AddedUp(vs) = AddedUp(as) + AddedUp(bs)
  BY <1>5, <1>6, AddedUpSplits
<1> QED
  BY <1>2, <1>3, <1>4, <1>7

\* Rows worth no more each are worth no more together.
LEMMA SumOfOrdered ==
  ASSUME NEW D, NEW a \in [D -> Int], NEW b \in [D -> Int], NEW rows \in Seq(D), NEW u \in Nat,
         \A i \in 1..Len(rows) : a[rows[i]] <= u * b[rows[i]]
  PROVE  SumOf(rows, a) <= u * SumOf(rows, b)
<1> DEFINE as == [i \in DOMAIN rows |-> a[rows[i]]]
           bs == [i \in DOMAIN rows |-> b[rows[i]]]
<1>1. /\ as \in Seq(Int) /\ Len(as) = Len(rows) /\ SumOf(rows, a) = AddedUp(as)
      /\ \A i \in 1..Len(rows) : as[i] = a[rows[i]]
  BY ValuesIs
<1>2. /\ bs \in Seq(Int) /\ Len(bs) = Len(rows) /\ SumOf(rows, b) = AddedUp(bs)
      /\ \A i \in 1..Len(rows) : bs[i] = b[rows[i]]
  BY ValuesIs
<1> HIDE DEF as, bs
<1>3. \A i \in 1..Len(bs) : as[i] <= u * bs[i]
  BY <1>1, <1>2
<1>4. AddedUp(as) <= u * AddedUp(bs)
  BY <1>1, <1>2, <1>3, AddedUpOrdered
<1> QED
  BY <1>1, <1>2, <1>4

\* As many rows as there are.
LEMMA SumOfOnes ==
  ASSUME NEW D, NEW one \in [D -> Int], \A r \in D : one[r] = 1, NEW rows \in Seq(D)
  PROVE  SumOf(rows, one) = Len(rows)
<1> DEFINE v == [i \in DOMAIN rows |-> one[rows[i]]]
<1>1. /\ v \in Seq(Int) /\ Len(v) = Len(rows) /\ SumOf(rows, one) = AddedUp(v)
      /\ \A i \in 1..Len(rows) : v[i] = one[rows[i]]
  BY ValuesIs
<1>2. \A i \in 1..Len(rows) : rows[i] \in D
  OBVIOUS
<1> HIDE DEF v
<1>3. \A i \in 1..Len(v) : v[i] = 1
  BY <1>1, <1>2
<1> QED
  BY <1>1, <1>3, AddedUpOnes

-----------------------------------------------------------------------------
(* Quotients *)

\* A quotient is what its multiples leave.
LEMMA DivIs ==
  ASSUME NEW a \in Nat, NEW b \in Nat \ {0}
  PROVE  a \div b \in Nat /\ (a \div b) * b <= a /\ a < (a \div b) * b + b
OBVIOUS

LEMMA MulOrdered ==
  ASSUME NEW a \in Nat, NEW c \in Nat, NEW b \in Nat, a <= c
  PROVE  a * b <= c * b
OBVIOUS

LEMMA QuotientIs ==
  ASSUME NEW q \in Nat, NEW b \in Nat \ {0}, NEW l \in 0..(b - 1)
  PROVE  (q * b + l) \div b = q
<1> DEFINE a == q * b + l
           d == a \div b
<1>1. q * b \in Nat /\ a \in Nat
  OBVIOUS
<1>2. d \in Nat /\ d * b <= a /\ a < d * b + b
  <2> HIDE DEF a
  <2> QED
    BY <1>1, DivIs
<1> HIDE DEF d
<1>3. ~(d < q)
  <2> SUFFICES ASSUME d < q PROVE FALSE
    OBVIOUS
  <2>1. d + 1 <= q /\ d + 1 \in Nat
    BY <1>2
  <2>2. (d + 1) * b <= q * b
    BY <2>1, MulOrdered
  <2>3. (d + 1) * b = d * b + b
    BY <1>2
  <2> QED
    BY <1>1, <1>2, <2>2, <2>3
<1>4. ~(q < d)
  <2> SUFFICES ASSUME q < d PROVE FALSE
    OBVIOUS
  <2>1. q + 1 <= d /\ q + 1 \in Nat
    BY <1>2
  <2>2. (q + 1) * b <= d * b
    BY <1>2, <2>1, MulOrdered
  <2>3. (q + 1) * b = q * b + b
    OBVIOUS
  <2> QED
    BY <1>1, <1>2, <2>2, <2>3
<1>5. d = q
  BY <1>2, <1>3, <1>4
<1> QED
  BY <1>5 DEF d

LEMMA QuotientGrows ==
  ASSUME NEW a \in Nat, NEW c \in Nat, NEW b \in Nat \ {0}, a <= c
  PROVE  a \div b <= c \div b
<1> DEFINE d == a \div b
           e == c \div b
<1>1. d \in Nat /\ d * b <= a
  BY DivIs
<1>2. e \in Nat /\ c < e * b + b
  BY DivIs
<1> HIDE DEF d, e
<1>3. ~(e < d)
  <2> SUFFICES ASSUME e < d PROVE FALSE
    OBVIOUS
  <2>1. e + 1 <= d /\ e + 1 \in Nat
    BY <1>1, <1>2
  <2>2. (e + 1) * b <= d * b
    BY <1>1, <2>1, MulOrdered
  <2>3. (e + 1) * b = e * b + b /\ d * b \in Nat /\ e * b \in Nat
    BY <1>1, <1>2
  <2> QED
    BY <1>1, <1>2, <2>2, <2>3
<1>4. d <= e
  BY <1>1, <1>2, <1>3
<1> QED
  BY <1>4 DEF d, e

=============================================================================
