------------------------------ MODULE Scoring -------------------------------
(***************************************************************************)
(* C5 and C6 as operators: the route decision (agent/route.py), the        *)
(* evidence a colleague has for a question, its caps and its score         *)
(* (scorer/), and how C6 fills the slots (agent/nodes.py).                 *)
(*                                                                         *)
(* Base scores, weights and similarities are in hundredths.  saturate is   *)
(* an increasing table: the properties use only the order it induces.      *)
(***************************************************************************)
EXTENDS Fusion

CONSTANTS
  PriorAnswerSim, DocumentSim, PersonWeakSim,  \* route thresholds
  ReuseMin,            \* prior_answer_reuse_min, 0 when it is off
  ReuseFloor,          \* prior_answer_relevance_floor
  DailyCap, ConsultCap,
  Slots,               \* candidates C6 shows
  Saturate             \* saturate as a table

ASSUME ScoringAssumption ==
  /\ {DailyCap, ConsultCap, ReuseMin} \subseteq Nat
  /\ {PriorAnswerSim, Slots} \subseteq Nat \ {0}
  /\ \A x, y \in DOMAIN Saturate : x < y => Saturate[x] <= Saturate[y]

-----------------------------------------------------------------------------
(* C5 *)

\* Both gates want a past answer: a reused one, or a near duplicate.
PriorAnswerFits(r) ==
  /\ r.past # <<>>
  /\ \/ ReuseMin # 0 /\ r.reuse >= ReuseMin /\ r.answerConf >= ReuseFloor
     \/ r.answerConf >= PriorAnswerSim

DocumentFits(r) ==
  /\ r.documentConf >= DocumentSim
  /\ r.peopleConf < PersonWeakSim
  /\ r.answerConf < PriorAnswerSim

decide_route(r) ==
  IF PriorAnswerFits(r) THEN "prior_answer"
  ELSE IF DocumentFits(r) THEN "document"
  ELSE "person"

-----------------------------------------------------------------------------
(* C6: one colleague *)

BaseScore == [helpful |-> 100, lead |-> 80, answer |-> 70, cert |-> 60,
              member |-> 50, skill |-> 30, consult |-> 25, daily |-> 15]

Weight == [topic_fit |-> 45, quality |-> 20, load |-> 20]

Positive == {"resolved", "partial"}

\* What a colleague has to show: rows of each solid kind, and what became of the
\* consultations, newest first.
Records ==
  [solid : [DOMAIN BaseScore -> Nat], consults : Seq(Positive \cup {"unresolved"}), load : Nat]

\* Mutant: the cap counts every consultation, the filter comes after it.
ConsultsCappedFirst(consults) == Len(Only(Cut(consults, ConsultCap), Positive))

\* The filter comes before the cap: an unsolved consultation uses no slot.
Consults(consults) == AtMost(Len(Only(consults, Positive)), ConsultCap)

\* collect_topic_evidence: the kinds of evidence and how many of each count.
TopicEvidence(e) ==
  [e.solid EXCEPT !.daily = AtMost(@, DailyCap), !.consult = Consults(e.consults)]

EdgeWeight(ev) ==
  Saturate[MapThenSumSet(LAMBDA k : BaseScore[k] * ev[k], DOMAIN ev)]

\* answer_quality, without reuse.
Quality(e) ==
  Saturate[(30 * (e.solid.answer + e.solid.helpful) + 70 * e.solid.helpful) \div 3]

\* _score_person, without the terms that depend on dates.
Score(e) ==
  Weight.topic_fit * EdgeWeight(TopicEvidence(e)) + Weight.quality * Quality(e)
    - Weight.load * e.load

-----------------------------------------------------------------------------
(* C6: the slots *)

\* Mutant: cut before the sort.
RankUnsorted(people, asker, evidence, k) == Cut(Only(people, ToSet(people) \ {asker}), k)

\* ExpertiseScorer.rank: the asker is dropped, best first, lower id on a tie.
Rank(people, asker, evidence, k) ==
  Best(ToSet(people) \ {asker}, [p \in ToSet(people) |-> Score(evidence[p])], k)

\* Mutant: the branch is only a preference among equals.
FilledTogether(people, there, asker, evidence, k) == Rank(people, asker, evidence, k)

\* A requested branch is a condition: its people fill the slots, the rest follow.
Filled(people, there, asker, evidence, k) ==
  LET picked == Rank(Only(people, there), asker, evidence, k)
  IN  picked \o Rank(Only(people, ToSet(people) \ there), asker, evidence, k - Len(picked))

\* Mutant: the pinned responder is ranked as well.
SeatedTwice(people, pin, there, asker, evidence) ==
  LET head == ById(pin \ {asker})
  IN  head \o Filled(people, there, asker, evidence, Slots - Len(head))

\* c6_score on a fresh question: the pinned responder, then the pool.
Seated(people, pin, there, asker, evidence) ==
  LET head == ById(pin \ {asker})
      rest == Only(people, ToSet(people) \ ToSet(head))
  IN  head \o Filled(rest, there, asker, evidence, Slots - Len(head))

=============================================================================
