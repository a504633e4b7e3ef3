-------------------------------- MODULE Lists --------------------------------
(***************************************************************************)
(* Lists that are made of a set and an order, or of some of the places of  *)
(* another list: what a sort, a filter, a merge in turns and a cut leave.  *)
(*                                                                         *)
(* SelectSeq, SortSeq and the folds of SequencesExt go through a list      *)
(* element by element; these operators say where each element ends up, so  *)
(* that what a list holds follows from counting.                           *)
(***************************************************************************)
EXTENDS Integers, Sequences, FiniteSets

\* The elements of S, least first.  R is a strict total order on S.
InOrder(S, R) ==
  [i \in 1..Cardinality(S) |->
     CHOOSE x \in S : Cardinality({y \in S : <<y, x>> \in R}) = i - 1]

StrictOrder(S, R) ==
  /\ \A x \in S : <<x, x>> \notin R
  /\ \A x, y \in S : x # y => <<x, y>> \in R \/ <<y, x>> \in R
  /\ \A x, y, z \in S : <<x, y>> \in R /\ <<y, z>> \in R => <<x, z>> \in R

Ascending(S) == {p \in S \X S : p[1] < p[2]}

\* What s has at the places in keep, in its order.
Picked(s, keep) == LET at == InOrder(keep, Ascending(keep)) IN [k \in DOMAIN at |-> s[at[k]]]

\* SelectSeq with a set for a test.
Only(s, T) == Picked(s, {i \in DOMAIN s : s[i] \in T})

\* First occurrences only.
Distinct(s) == Picked(s, {i \in DOMAIN s : \A j \in 1..(i - 1) : s[j] # s[i]})

AtMost(n, k) == IF n < k THEN n ELSE k

Cut(s, k) == SubSeq(s, 1, AtMost(Len(s), k))

\* Pairs by their first part, then by their second.
Lexical(T) ==
  {p \in T \X T :
     \/ p[1][1] < p[2][1]
     \/ p[1][1] = p[2][1] /\ p[1][2] < p[2][2]}

\* S, descending by value, ascending by id.
ByValue(S, value) ==
  LET valued == {<<-value[x], x>> : x \in S}
      at == InOrder(valued, Lexical(valued))
  IN  [i \in DOMAIN at |-> at[i][2]]

Best(S, value, k) == Cut(ByValue(S, value), k)

ById(S) == InOrder(S, Ascending(S))

\* The turns of several lists: who has an i-th element, all first ones first.
Turns(lists) == UNION {{<<i, c>> : i \in DOMAIN lists[c]} : c \in DOMAIN lists}

TurnOrder(lists) == InOrder(Turns(lists), Lexical(Turns(lists)))

\* zip_longest, flattened: the first of each list, the second of each, and so on.
InTurns(lists) ==
  LET at == TurnOrder(lists) IN [k \in DOMAIN at |-> lists[at[k][2]][at[k][1]]]

AddedUp(s) ==
  LET sum[i \in 0..Len(s)] == IF i = 0 THEN 0 ELSE sum[i - 1] + s[i] IN sum[Len(s)]

=============================================================================
