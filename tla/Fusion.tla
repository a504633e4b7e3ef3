------------------------------- MODULE Fusion -------------------------------
(***************************************************************************)
(* The ranked lists of C4 (retrieval/fusion.py, retrieval/retriever.py):   *)
(* reciprocal rank fusion of several channels, the channel weight that     *)
(* follows the dense signal, and the merge of people from two channels.    *)
(*                                                                         *)
(* Scores are integers: weights in units of the caller, 1 / (k + rank)     *)
(* times Unit, which every denominator in use divides.  Ids are numbers    *)
(* that sort like the code's strings.                                      *)
(***************************************************************************)
EXTENDS Lists, FiniteSetsExt, SequencesExt

CONSTANTS
  TopK,   \* top_k: hits kept per section
  RrfK,   \* rrf_k
  Pool,   \* hits a channel is asked for
  Ranks,  \* as long as a list of a channel can be
  Unit    \* common multiple of the denominators

ASSUME FusionAssumption ==
  /\ TopK \in Nat \ {0} /\ RrfK \in Nat \ {0}
  /\ {Pool, Ranks, Unit} \subseteq Nat \ {0} /\ Pool <= Ranks
  /\ \A r \in 1..Ranks : Unit % (RrfK + r) = 0

\* adaptive_bm25_weight: more say for the exact words when the dense channel is
\* weak, a straight line between lo and hi.
AdaptiveWeight(confidence, base, boosted, lo, hi) ==
  IF boosted <= base \/ hi <= lo \/ confidence >= hi THEN base
  ELSE IF confidence <= lo THEN boosted
  ELSE boosted - ((boosted - base) * (confidence - lo)) \div (hi - lo)

Place(list, d) == CHOOSE i \in DOMAIN list : list[i] = d

\* What one list adds to the score of d.
Share(list, weight, d) ==
  IF d \in ToSet(list) THEN (weight * Unit) \div (RrfK + Place(list, d)) ELSE 0

FusedScore(lists, weights, d) ==
  AddedUp([i \in DOMAIN lists |-> Share(lists[i], weights[i], d)])

\* Mutant: a list of weight zero still names its ids.
CountedAll(lists, weights) == DOMAIN lists

\* A list without weight is skipped: its ids are not even introduced.
Counted(lists, weights) == {i \in DOMAIN lists : weights[i] # 0}

Introduced(lists, weights) == UNION {ToSet(lists[i]) : i \in Counted(lists, weights)}

\* rrf, and the cut to top_k after it.
Fused(lists, weights) ==
  LET ids == Introduced(lists, weights)
  IN  Best(ids, [d \in ids |-> FusedScore(lists, weights, d)], TopK)

\* Mutant: all the responders, then the profiles.
PeopleConcatenated(responders, profiles) == Cut(Distinct(responders \o profiles), TopK)

\* _aggregate_people: responders lead, profile matches take every second place.
People(responders, profiles) ==
  Cut(Distinct(InTurns(<<Distinct(responders), profiles>>)), TopK)

=============================================================================
