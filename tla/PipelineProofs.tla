--------------------------- MODULE PipelineProofs ---------------------------
(***************************************************************************)
(* Proofs about Pipeline and Evaluation, for any corpus, company, weights  *)
(* and bounds that the modules' assumptions admit: what a search returns,  *)
(* how its channels share the places, who is seated, that the evaluation   *)
(* seats as the product does, and that the figures it reports agree.       *)
(*                                                                         *)
(* The lists are functions of what was read, so most of the argument is in *)
(* lemmas about the operators (ListProofs).  The invariant adds what time  *)
(* changes: a cached index is the one of the pairs it is stored with       *)
(* (CacheHonest), a search ranks with the index of the pairs it read       *)
(* (SearchesFit), and a result keeps what it was computed from (FoundFits, *)
(* SeatedFits).  An evaluation adds that what it still has to run parses,  *)
(* and that its results are graded (RowsFit).  Every figure of a report is *)
(* the sum of what its rows are worth, so the parts make the whole.        *)
(***************************************************************************)
EXTENDS Evaluation, ListProofs

-----------------------------------------------------------------------------
(* Fusion *)

\* A dense channel lists only what is near at all, and something if anything is.
LEMMA ListedIs ==
  ASSUME NEW S, IsFiniteSet(S), S \subseteq Int, NEW sim \in [S -> Nat]
  PROVE  /\ Listed(sim) \in Seq(S)
         /\ ToSet(Listed(sim)) \subseteq {d \in S : sim[d] > 0}
         /\ IsFiniteSet(Similarities(sim)) /\ Similarities(sim) \subseteq Nat
<1> DEFINE near == {d \in S : sim[d] > 0}
<1>1. IsFiniteSet(near) /\ Pool \in Nat
  BY FS_Subset, FusionAssumption
<1>2. near \subseteq Int /\ (\A d \in near : sim[d] \in Int)
  <2>1. \A d \in near : d \in Int /\ sim[d] \in Int
    OBVIOUS
  <2> HIDE DEF near
  <2> QED
    BY <2>1
<1>3. Listed(sim) = Best(near, sim, Pool)
  BY DEF Listed
<1>4. \A d : d \in near <=> d \in S /\ sim[d] > 0
  OBVIOUS
<1> HIDE DEF near
<1> DEFINE b == Best(near, sim, Pool)
<1>5. b \in Seq(near)
  BY <1>1, <1>2, BestList
<1> HIDE DEF b
<1>6. b \in Seq(S)
  BY <1>4, <1>5, SeqWidens
<1>7. ToSet(b) \subseteq near
  BY <1>5, ToSetIs
<1>8. IsFiniteSet(ToSet(b))
  BY <1>1, <1>7, FS_Subset
<1>9. Similarities(sim) = {sim[d] : d \in ToSet(b)}
  BY <1>3 DEF Similarities, b
<1>10. IsFiniteSet({sim[d] : d \in ToSet(b)})
  BY <1>8, FiniteImage
<1>11. {sim[d] : d \in ToSet(b)} \subseteq Nat
  BY <1>4, <1>7
<1>12. ToSet(b) \subseteq {d \in S : sim[d] > 0}
  BY <1>4, <1>7
<1> QED
  BY <1>3, <1>6, <1>9, <1>10, <1>11, <1>12 DEF b

\* What BM25 finds is among the texts it searched.
LEMMA MatchingIs ==
  ASSUME NEW T, IsFiniteSet(T), T \subseteq Int, NEW S \in SUBSET T
  PROVE  Matching(S) \in Seq(T)
<1>1. IsFiniteSet(S) /\ S \subseteq Int /\ Pool \in Nat
  BY FS_Subset, FusionAssumption
<1>2. ById(S) \in Seq(S)
  BY <1>1, ByIdList
<1>3. ById(S) \in Seq(T)
  BY <1>2, SeqWidens
<1>4. Cut(ById(S), Pool) \in Seq(T)
  BY <1>1, <1>3, CutList
<1> QED
  BY <1>4 DEF Matching

\* A fused list has at most TopK ids, each once, from the lists with a weight, and
\* none only when these are empty.
LEMMA FusedIs ==
  ASSUME NEW T, IsFiniteSet(T), T \subseteq Int,
         NEW n \in Nat, NEW lists, lists \in [1..n -> Seq(T)], NEW weights \in [1..n -> Int]
  PROVE  /\ Fused(lists, weights) \in Seq(T)
         /\ ToSet(Fused(lists, weights)) \subseteq Introduced(lists, weights)
         /\ \A i \in 1..n : weights[i] # 0 /\ lists[i] # <<>> => Fused(lists, weights) # <<>>
<1> DEFINE ids == Introduced(lists, weights)
           score == [d \in ids |-> FusedScore(lists, weights, d)]
<1>1. \A i \in 1..n : lists[i] \in Seq(T) /\ ToSet(lists[i]) \subseteq T
  BY ToSetIs
<1>2. \A d : d \in ids <=> \E i \in 1..n : weights[i] # 0 /\ d \in ToSet(lists[i])
  BY DEF Counted, Introduced
<1>3. ids \subseteq T
  BY <1>1, <1>2
<1>4. IsFiniteSet(ids) /\ ids \subseteq Int
  <2> HIDE DEF ids
  <2> QED
    BY <1>3, FS_Subset
<1>5. \A d \in ids : score[d] \in Int
  <2> SUFFICES ASSUME NEW d \in ids PROVE FusedScore(lists, weights, d) \in Int
    OBVIOUS
  <2> DEFINE shares == [i \in DOMAIN lists |-> Share(lists[i], weights[i], d)]
  <2>1. ASSUME NEW i \in 1..n PROVE Share(lists[i], weights[i], d) \in Int
    <3>1. CASE d \notin ToSet(lists[i])
      BY <3>1 DEF Share
    <3>2. CASE d \in ToSet(lists[i])
      <4>1. Place(lists[i], d) \in 1..Len(lists[i])
        <5>1. \E j \in DOMAIN lists[i] : lists[i][j] = d
          BY <3>2 DEF ToSet
        <5>2. Place(lists[i], d) \in DOMAIN lists[i]
          BY <5>1 DEF Place
        <5> QED
          BY <1>1, <5>2
      <4>2. RrfK + Place(lists[i], d) \in Nat \ {0}
        BY <1>1, <4>1, FusionAssumption
      <4>3. weights[i] * Unit \in Int
        BY FusionAssumption
      <4>4. (weights[i] * Unit) \div (RrfK + Place(lists[i], d)) \in Int
        BY <4>2, <4>3
      <4> QED
        BY <3>2, <4>4 DEF Share
    <3> QED
      BY <3>1, <3>2
  <2>2. shares \in Seq(Int)
    <3>1. shares = [i \in 1..n |-> Share(lists[i], weights[i], d)]
      OBVIOUS
    <3> QED
      BY <2>1, <3>1
  <2> HIDE DEF shares
  <2>3. AddedUp(shares) \in Int
    BY <2>2, AddedUpIs
  <2> QED
    BY <2>3 DEF FusedScore, shares
<1>6. Fused(lists, weights) = Best(ids, score, TopK)
  BY DEF Fused
<1>7. TopK \in Nat /\ TopK # 0
  BY FusionAssumption
<1> DEFINE b == Best(ids, score, TopK)
<1> HIDE DEF ids, score
<1>8. /\ b \in Seq(ids)
      /\ Cardinality(ids) \in Nat
      /\ Len(b) = AtMost(Cardinality(ids), TopK)
  BY <1>4, <1>5, <1>7, BestList
<1> HIDE DEF b
<1>9. b \in Seq(T)
  BY <1>3, <1>8, SeqWidens
<1>10. ToSet(b) \subseteq ids
  BY <1>8, ToSetIs
<1>11. ASSUME NEW i \in 1..n, weights[i] # 0, lists[i] # <<>> PROVE b # <<>>
  <2>1. lists[i][1] \in ToSet(lists[i])
    BY <1>1, <1>11 DEF ToSet
  <2>2. ids # {}
    BY <1>2, <1>11, <2>1
  <2>3. Cardinality(ids) # 0
    BY <1>4, <2>2, FS_EmptySet
  <2>4. Len(b) # 0
    BY <1>7, <1>8, <2>3 DEF AtMost
  <2> QED
    BY <2>4
<1> QED
  BY <1>6, <1>9, <1>10, <1>11 DEF b, ids

\* The merge of two lists of people keeps the first of the second one, if two fit.
LEMMA PeopleIs ==
  ASSUME NEW T, NEW responders \in Seq(T), NEW profiles \in Seq(T)
  PROVE  /\ People(responders, profiles) \in Seq(T)
         /\ profiles # <<>> /\ TopK >= 2
              => Head(profiles) \in ToSet(People(responders, profiles))
<1> DEFINE first == Distinct(responders)
           lists == <<first, profiles>>
           turns == InTurns(lists)
           each  == Distinct(turns)
<1>1. first \in Seq(T)
  BY DistinctList
<1> HIDE DEF first
<1>2. DOMAIN lists = 1..2 /\ lists[2] = profiles /\ \A c \in 1..2 : lists[c] \in Seq(T)
  BY <1>1
<1> HIDE DEF lists
<1>3. /\ turns \in Seq(T) /\ DOMAIN turns = 1..Len(turns)
      /\ \A c \in 1..2 : lists[c] # <<>> => \E k \in 1..Len(turns) : k <= c /\ turns[k] = lists[c][1]
  <2>1. /\ turns \in Seq(T) /\ DOMAIN turns = 1..Len(turns)
        /\ \A c \in 1..2 : \A i \in 1..Len(lists[c]) :
             \E k \in 1..Len(turns) : k <= (i - 1) * 2 + c /\ turns[k] = lists[c][i]
    <3>1. 2 \in Nat
      OBVIOUS
    <3> QED
      BY <1>2, <3>1, InTurnsList
  <2> HIDE DEF turns
  <2>2. ASSUME NEW c \in 1..2, lists[c] # <<>>
        PROVE  \E k \in 1..Len(turns) : k <= c /\ turns[k] = lists[c][1]
    <3>1. lists[c] \in Seq(T)
      BY <1>2
    <3>2. 1 \in 1..Len(lists[c])
      BY <2>2, <3>1
    <3>3. PICK k \in 1..Len(turns) : k <= (1 - 1) * 2 + c /\ turns[k] = lists[c][1]
      BY <2>1, <3>2
    <3> QED
      BY <3>3
  <2> QED
    BY <2>1, <2>2
<1> HIDE DEF turns
<1>4. /\ each \in Seq(T)
      /\ \A i \in DOMAIN turns : \E j \in DOMAIN each : j <= i /\ each[j] = turns[i]
  BY <1>3, DistinctList
<1> HIDE DEF each
<1>5. People(responders, profiles) = Cut(each, TopK)
  BY DEF People, each, turns, lists, first
<1>6. TopK \in Nat
  BY FusionAssumption
<1> DEFINE m == AtMost(Len(each), TopK)
           c == Cut(each, TopK)
<1>7. /\ c \in Seq(T) /\ DOMAIN c = 1..m
      /\ \A i \in 1..m : c[i] = each[i]
  BY <1>4, <1>6, CutList
<1> HIDE DEF c
<1>8. ASSUME profiles # <<>>, TopK >= 2 PROVE Head(profiles) \in ToSet(c)
  <2>1. PICK k \in 1..Len(turns) : k <= 2 /\ turns[k] = profiles[1]
    BY <1>2, <1>3, <1>8
  <2>2. PICK j \in DOMAIN each : j <= k /\ each[j] = profiles[1]
    BY <1>3, <1>4, <2>1
  <2>3. j \in 1..m
    <3>1. j \in 1..Len(each) /\ j <= 2
      BY <1>3, <1>4, <2>1, <2>2
    <3> QED
      BY <1>6, <1>8, <3>1 DEF AtMost
  <2>4. c[j] = profiles[1] /\ j \in DOMAIN c
    BY <1>7, <2>2, <2>3
  <2>5. Head(profiles) = profiles[1]
    BY <1>8
  <2> QED
    BY <2>4, <2>5 DEF ToSet
<1> QED
  BY <1>5, <1>7, <1>8 DEF c

\* The confidence of a channel is its best hit.
LEMMA TopSimilarityIs ==
  ASSUME NEW sims, IsFiniteSet(sims), sims \subseteq Nat
  PROVE  /\ TopSimilarity(sims) \in Nat
         /\ TopSimilarity(sims) \in sims \/ TopSimilarity(sims) = 0
<1> DEFINE all == {0} \cup sims
<1>1. IsFiniteSet(all) /\ all # {}
  BY FS_AddElement, FS_Union, FS_Singleton
<1>2. all \subseteq Nat /\ all \subseteq Int
  OBVIOUS
<1> HIDE DEF all
<1>3. \E x \in all : \A y \in all : x >= y
  BY <1>1, <1>2, HasGreatest
<1>4. TopSimilarity(sims) = CHOOSE x \in all : \A y \in all : x >= y
  BY DEF TopSimilarity, Max, all
<1>5. TopSimilarity(sims) \in all
  BY <1>3, <1>4
<1> QED
  BY <1>2, <1>5 DEF all

\* Where the dense channel is confident, BM25 has its base weight.
LEMMA AdaptiveIs ==
  ASSUME NEW conf \in Nat
  PROVE  /\ AdaptiveWeight(conf, Base, Boosted, Lo, Hi) \in Int
         /\ conf >= Hi => AdaptiveWeight(conf, Base, Boosted, Lo, Hi) = Base
<1>1. Base \in Nat /\ Boosted \in Nat /\ Lo \in Nat /\ Hi \in Nat
  BY PipelineAssumption
<1>2. CASE Boosted <= Base \/ Hi <= Lo \/ conf >= Hi
  BY <1>1, <1>2 DEF AdaptiveWeight
<1>3. CASE ~(Boosted <= Base \/ Hi <= Lo \/ conf >= Hi)
  <2>1. (Boosted - Base) * (conf - Lo) \in Int /\ Hi - Lo \in Nat \ {0}
    BY <1>1, <1>3
  <2>2. ((Boosted - Base) * (conf - Lo)) \div (Hi - Lo) \in Int
    BY <2>1
  <2>3. Boosted - ((Boosted - Base) * (conf - Lo)) \div (Hi - Lo) \in Int
    BY <1>1, <2>2
  <2> QED
    BY <1>1, <1>3, <2>3 DEF AdaptiveWeight
<1> QED
  BY <1>2, <1>3

\* The answers of the listed questions, all that were read.
LEMMA QuestionMappedIs ==
  ASSUME NEW asked \in [Asked -> Nat], NEW pairs
  PROVE  /\ QuestionMapped(asked, pairs) \in Seq(Answers)
         /\ ToSet(QuestionMapped(asked, pairs)) =
              {a \in Present(pairs) : Of[a] \in ToSet(Listed(asked))}
<1> DEFINE near == Listed(asked)
           reached == {a \in Present(pairs) : Of[a] \in ToSet(near)}
           value == [a \in reached |-> -Place(near, Of[a])]
           n == Cardinality(Answers)
<1>1. /\ IsFiniteSet(Answers) /\ Answers \subseteq Int
      /\ IsFiniteSet(Asked) /\ Asked \subseteq Int
  BY PipelineAssumption
<1>2. near \in Seq(Asked)
  BY <1>1, ListedIs
<1> HIDE DEF near
<1>3. reached \subseteq Answers
  BY DEF Present
<1>4. \A a \in reached : value[a] \in Int
  <2> SUFFICES ASSUME NEW a \in reached PROVE Place(near, Of[a]) \in Int
    OBVIOUS
  <2>1. \E i \in DOMAIN near : near[i] = Of[a]
    BY DEF ToSet
  <2>2. Place(near, Of[a]) \in DOMAIN near
    BY <2>1 DEF Place
  <2> QED
    BY <1>2, <2>2
<1>5. QuestionMapped(asked, pairs) = Best(reached, value, n)
  BY DEF QuestionMapped, near
<1>6. reached = {a \in Present(pairs) : Of[a] \in ToSet(Listed(asked))}
  BY DEF near
<1> HIDE DEF reached, value
<1>7. IsFiniteSet(reached) /\ reached \subseteq Int /\ n \in Nat /\ Cardinality(reached) <= n
  BY <1>1, <1>3, FS_Subset, FS_CardinalityType
<1>8. ToSet(Best(reached, value, n)) = reached
  BY <1>4, <1>7, BestIsAll
<1>9. Best(reached, value, n) \in Seq(reached)
  BY <1>4, <1>7, BestList
<1>10. Best(reached, value, n) \in Seq(Answers)
  BY <1>3, <1>9, SeqWidens
<1> QED
  BY <1>5, <1>6, <1>8, <1>10

-----------------------------------------------------------------------------
(* A search *)

\* What a search returns, from what it read and from what has changed since.
LEMMA RetrievedIs ==
  ASSUME text \in Texts, active \subseteq Staff,
         NEW h \in Closeness, NEW pairs \in Texts, NEW index \in SUBSET Answers
  PROVE  LET r == Retrieved(h, pairs, index)
         IN  /\ r.past \in Seq(Answers) /\ r.offered \in Seq(Staff)
             /\ ToSet(r.offered) \subseteq active
             /\ r.by = {} \/ \E p \in Staff : r.by = {p}
             /\ r.by \ r.departed \subseteq active
             /\ r.answerConf >= PriorAnswerSim => r.past # <<>>
             /\ Base = 0 /\ r.answerConf >= Hi => ToSet(r.past) \subseteq r.dense
             /\ r.profile # <<>> /\ TopK >= 2 /\ Head(r.profile) \in active
                  => Head(r.profile) \in ToSet(r.offered)
<1> DEFINE near    == [a \in Answers |-> IF text[a] = "absent" THEN 0 ELSE h.answers[a]]
           sims    == Similarities(near) \cup {h.asked[q] : q \in Answered(h.asked, pairs)}
           conf    == TopSimilarity(sims)
           folk    == TopSimilarity(Similarities(h.people))
           bm25(c) == AdaptiveWeight(c, Base, Boosted, Lo, Hi)
           direct  == Listed(near)
           mapped  == QuestionMapped(h.asked, pairs)
           lists   == <<direct, mapped, Matching(index)>>
           weights == <<DenseWeight, DenseWeight, bm25(conf)>>
           past    == Fused(lists, weights)
           known   == <<Listed(h.people), Matching(h.words)>>
           says    == <<DenseWeight, bm25(folk)>>
           profile == Fused(known, says)
           rows    == ResponderOf(past, pairs)
           by      == [i \in DOMAIN rows |-> By[rows[i]]]
           best    == IF past = <<>> THEN {} ELSE {Head(past)} \cap Present(pairs)
           offered == StillHere(People(by, profile))
           r       == Retrieved(h, pairs, index)
<1>1. /\ r.past = past /\ r.offered = offered /\ r.departed = Departed(by, offered)
      /\ r.profile = profile /\ r.by = {By[a] : a \in best} /\ r.answerConf = conf
      /\ r.dense = ToSet(direct) \cup ToSet(mapped)
  BY DEF Retrieved
<1> HIDE DEF r
<1>2. /\ IsFiniteSet(Answers) /\ Answers \subseteq Int
      /\ IsFiniteSet(Asked) /\ Asked \subseteq Int
      /\ IsFiniteSet(Staff) /\ Staff \subseteq Int
      /\ By \in [Answers -> Staff] /\ Of \in [Answers -> Asked]
      /\ DenseWeight \in Int /\ DenseWeight # 0
      /\ PriorAnswerSim \in Nat /\ PriorAnswerSim > 0
  BY PipelineAssumption, ScoringAssumption
<1>3. /\ h.answers \in [Answers -> Nat] /\ h.asked \in [Asked -> Nat]
      /\ h.people \in [Staff -> Nat] /\ h.words \subseteq Staff
  <2>1. Near \subseteq Nat
    BY PipelineAssumption
  <2> QED
    BY <2>1 DEF Closeness
<1>4. near \in [Answers -> Nat]
  BY <1>3
<1> HIDE DEF near
\* The channels.
<1>5. /\ direct \in Seq(Answers)
      /\ IsFiniteSet(Similarities(near)) /\ Similarities(near) \subseteq Nat
      /\ Similarities(near) = {near[a] : a \in ToSet(direct)}
  <2>1. /\ Listed(near) \in Seq(Answers)
        /\ IsFiniteSet(Similarities(near)) /\ Similarities(near) \subseteq Nat
    BY <1>2, <1>4, ListedIs
  <2> QED
    BY <2>1 DEF Similarities
<1>6. /\ mapped \in Seq(Answers)
      /\ ToSet(mapped) = {a \in Present(pairs) : Of[a] \in ToSet(Listed(h.asked))}
  BY <1>3, QuestionMappedIs
<1>7. Matching(index) \in Seq(Answers) /\ Matching(h.words) \in Seq(Staff)
  BY <1>2, <1>3, MatchingIs
<1>8. /\ Listed(h.people) \in Seq(Staff)
      /\ IsFiniteSet(Similarities(h.people)) /\ Similarities(h.people) \subseteq Nat
  BY <1>2, <1>3, ListedIs
\* Their confidence.
<1>9. \A q \in Answered(h.asked, pairs) :
        q \in Asked /\ q \in ToSet(Listed(h.asked)) /\ \E a \in Present(pairs) : Of[a] = q
  <2>1. Listed(h.asked) \in Seq(Asked)
    BY <1>2, <1>3, ListedIs
  <2>2. ToSet(Listed(h.asked)) \subseteq Asked
    BY <2>1, ToSetIs
  <2> QED
    BY <2>2 DEF Answered
<1>10. /\ conf \in Nat
       /\ conf > 0 => \/ \E a \in ToSet(direct) : near[a] = conf
                      \/ \E q \in Answered(h.asked, pairs) : h.asked[q] = conf
  <2> DEFINE A == {near[a] : a \in ToSet(direct)}
             Q == {h.asked[q] : q \in Answered(h.asked, pairs)}
  <2>1. IsFiniteSet(Q) /\ Q \subseteq Nat
    <3>1. Answered(h.asked, pairs) \subseteq Asked
      BY <1>9
    <3>2. IsFiniteSet(Answered(h.asked, pairs))
      BY <1>2, <3>1, FS_Subset
    <3>3. IsFiniteSet(Q)
      BY <3>2, FiniteImage
    <3>4. Q \subseteq Nat
      BY <1>3, <1>9
    <3> QED
      BY <3>3, <3>4
  <2>2. IsFiniteSet(A) /\ A \subseteq Nat /\ sims = A \cup Q
    BY <1>5
  <2> HIDE DEF A, Q, sims
  <2>3. IsFiniteSet(sims) /\ sims \subseteq Nat
    BY <2>1, <2>2, FS_Union
  <2>4. conf \in Nat /\ (conf \in A \cup Q \/ conf = 0)
    BY <2>2, <2>3, TopSimilarityIs
  <2> QED
    BY <2>4 DEF A, Q
<1> HIDE DEF conf, sims, direct, mapped
<1>11. folk \in Nat
  BY <1>8, TopSimilarityIs
<1> HIDE DEF folk
<1>12. bm25(conf) \in Int /\ (conf >= Hi => bm25(conf) = Base) /\ bm25(folk) \in Int
  BY <1>10, <1>11, AdaptiveIs
<1> HIDE DEF bm25
\* The fused lists.
<1>13. lists \in [1..3 -> Seq(Answers)] /\ weights \in [1..3 -> Int]
  BY <1>2, <1>5, <1>6, <1>7, <1>12
<1>14. /\ lists[1] = direct /\ lists[2] = mapped
       /\ weights[1] = DenseWeight /\ weights[2] = DenseWeight /\ weights[3] = bm25(conf)
  OBVIOUS
<1> HIDE DEF lists, weights
<1>15. /\ past \in Seq(Answers)
       /\ \A x \in ToSet(past) : \E i \in 1..3 : weights[i] # 0 /\ x \in ToSet(lists[i])
       /\ \A i \in 1..3 : weights[i] # 0 /\ lists[i] # <<>> => past # <<>>
  <2>1. 3 \in Nat
    OBVIOUS
  <2>2. past \in Seq(Answers)
    BY <1>2, <1>13, <2>1, FusedIs
  <2>3. ToSet(past) \subseteq Introduced(lists, weights)
    BY <1>2, <1>13, <2>1, FusedIs
  <2>4. \A i \in 1..3 : weights[i] # 0 /\ lists[i] # <<>> => past # <<>>
    BY <1>2, <1>13, <2>1, FusedIs
  <2>5. \A x \in Introduced(lists, weights) : \E i \in 1..3 : weights[i] # 0 /\ x \in ToSet(lists[i])
    BY <1>13 DEF Introduced, Counted
  <2> HIDE DEF past
  <2> QED
    BY <2>2, <2>3, <2>4, <2>5
<1>16. profile \in Seq(Staff)
  <2>1. known \in [1..2 -> Seq(Staff)] /\ says \in [1..2 -> Int]
    BY <1>2, <1>7, <1>8, <1>12
  <2> HIDE DEF known, says
  <2> QED
    BY <1>2, <2>1, FusedIs
<1> HIDE DEF past, profile, known, says
\* The people.
<1>17. rows \in Seq(Answers) /\ ToSet(rows) = ToSet(past) \cap Present(pairs)
  <2>1. /\ Only(past, Present(pairs)) \in Seq(Answers \cap Present(pairs))
        /\ ToSet(Only(past, Present(pairs))) = ToSet(past) \cap Present(pairs)
    BY <1>15, OnlyList
  <2> QED
    BY <2>1, SeqWidens DEF ResponderOf
<1> HIDE DEF rows
<1>18. by \in Seq(Staff) /\ ToSet(by) = {By[a] : a \in ToSet(rows)}
  <2>1. DOMAIN rows = 1..Len(rows) /\ Len(rows) \in Nat /\ \A i \in 1..Len(rows) : rows[i] \in Answers
    BY <1>17
  <2>2. by = [i \in 1..Len(rows) |-> By[rows[i]]] /\ \A i \in 1..Len(rows) : By[rows[i]] \in Staff
    BY <1>2, <2>1
  <2>3. by \in Seq(Staff)
    BY <2>1, <2>2
  <2>4. ToSet(by) = {By[a] : a \in ToSet(rows)}
    BY <2>1, <2>2 DEF ToSet
  <2> QED
    BY <2>3, <2>4
<1> HIDE DEF by
<1>19. /\ offered \in Seq(Staff)
       /\ ToSet(offered) = ToSet(People(by, profile)) \cap active
       /\ profile # <<>> /\ TopK >= 2 => Head(profile) \in ToSet(People(by, profile))
  <2>1. /\ People(by, profile) \in Seq(Staff)
        /\ profile # <<>> /\ TopK >= 2 => Head(profile) \in ToSet(People(by, profile))
    BY <1>16, <1>18, PeopleIs
  <2>2. /\ Only(People(by, profile), active) \in Seq(Staff \cap active)
        /\ ToSet(Only(People(by, profile), active)) = ToSet(People(by, profile)) \cap active
    BY <2>1, OnlyList
  <2> QED
    BY <2>1, <2>2, SeqWidens DEF StillHere
<1>20. ToSet(offered) \subseteq active
  BY <1>19
<1>21. r.by = {} \/ \E p \in Staff : r.by = {p}
  <2>1. best \subseteq Answers /\ (best = {} \/ best = {Head(past)})
    BY <1>15 DEF Present
  <2> HIDE DEF best
  <2>2. best # {} => r.by = {By[Head(past)]} /\ By[Head(past)] \in Staff
    BY <1>1, <1>2, <2>1
  <2> QED
    BY <1>1, <2>2
<1>22. r.by \ r.departed \subseteq active
  <2> SUFFICES ASSUME NEW p \in r.by, p \notin r.departed PROVE p \in active
    OBVIOUS
  <2>1. past # <<>> /\ Head(past) \in Present(pairs) /\ p = By[Head(past)]
    BY <1>1
  <2>2. Head(past) \in ToSet(past)
    BY <1>15, <2>1 DEF ToSet
  <2>3. p \in ToSet(by)
    BY <1>17, <1>18, <2>1, <2>2
  <2> QED
    BY <1>1, <2>3 DEF Departed
<1>23. ASSUME conf >= PriorAnswerSim PROVE past # <<>>
  <2>1. conf > 0
    BY <1>2, <1>10, <1>23
  <2>2. ASSUME NEW a \in ToSet(direct) PROVE direct # <<>>
    BY <1>5, ToSetIs
  <2>3. ASSUME NEW q \in Answered(h.asked, pairs) PROVE mapped # <<>>
    <3>1. PICK a \in Present(pairs) : Of[a] = q
      BY <1>9, <2>3
    <3>2. a \in ToSet(mapped)
      BY <1>6, <1>9, <3>1
    <3> QED
      BY <1>6, <3>2, ToSetIs
  <2>4. direct # <<>> \/ mapped # <<>>
    BY <1>10, <2>1, <2>2, <2>3
  <2> QED
    BY <1>2, <1>14, <1>15, <2>4
<1>24. ASSUME Base = 0, conf >= Hi PROVE ToSet(past) \subseteq ToSet(direct) \cup ToSet(mapped)
  <2> SUFFICES ASSUME NEW x \in ToSet(past) PROVE x \in ToSet(direct) \cup ToSet(mapped)
    OBVIOUS
  <2>1. PICK i \in 1..3 : weights[i] # 0 /\ x \in ToSet(lists[i])
    BY <1>15
  <2>2. i # 3
    BY <1>12, <1>14, <1>24, <2>1
  <2>3. i = 1 \/ i = 2
    BY <2>2
  <2> QED
    BY <1>14, <2>1, <2>3
<1> HIDE DEF best, offered
<1> QED
  BY <1>1, <1>15, <1>19, <1>20, <1>21, <1>22, <1>23, <1>24 DEF r

-----------------------------------------------------------------------------
(* The seats *)

\* A ranking drops the asker, takes the best and leaves nobody out who is better.
LEMMA RankIs ==
  ASSUME NEW T, IsFiniteSet(T), T \subseteq Int, NEW people \in Seq(T), NEW asker,
         NEW evidence, \A p \in ToSet(people) : Score(evidence[p]) \in Int, NEW k \in Nat
  PROVE  LET r == Rank(people, asker, evidence, k)
             S == ToSet(people) \ {asker}
         IN  /\ r \in Seq(S) /\ IsInjective(r) /\ Len(r) \in Nat /\ Len(r) <= k
             /\ \A x \in S : x \notin ToSet(r) => Len(r) = k
             /\ \A x \in S : x \notin ToSet(r) =>
                  \A y \in ToSet(r) : Score(evidence[y]) >= Score(evidence[x])
<1> DEFINE S == ToSet(people) \ {asker}
           value == [p \in ToSet(people) |-> Score(evidence[p])]
           b == Best(S, value, k)
           m == AtMost(Cardinality(S), k)
<1>1. IsFiniteSet(S) /\ S \subseteq Int
  <2>1. S \subseteq T
    BY ToSetIs
  <2> HIDE DEF S
  <2> QED
    BY <2>1, FS_Subset
<1>2. \A p \in S : value[p] = Score(evidence[p]) /\ value[p] \in Int
  OBVIOUS
<1>3. Rank(people, asker, evidence, k) = b
  BY DEF Rank
<1> HIDE DEF S, value
<1>4. /\ b \in Seq(S) /\ Len(b) = m /\ DOMAIN b = 1..m /\ m \in Nat /\ m <= k
      /\ \A i, j \in 1..m : b[i] = b[j] => i = j
      /\ \A x \in S : (\A i \in 1..m : b[i] # x)
           => m = k /\ \A i \in 1..m : value[b[i]] >= value[x]
  BY <1>1, <1>2, BestList
<1> HIDE DEF b, m
<1>5. \A x : x \in ToSet(b) <=> \E i \in 1..m : b[i] = x
  BY <1>4 DEF ToSet
<1>6. ToSet(b) \subseteq S
  BY <1>4, ToSetIs
<1>7. ASSUME NEW x \in S, x \notin ToSet(b)
      PROVE  Len(b) = k /\ \A y \in ToSet(b) : Score(evidence[y]) >= Score(evidence[x])
  <2>1. m = k /\ \A i \in 1..m : value[b[i]] >= value[x]
    BY <1>4, <1>5, <1>7
  <2>2. ASSUME NEW y \in ToSet(b) PROVE value[y] >= value[x]
    <3>1. PICK i \in 1..m : b[i] = y
      BY <1>5
    <3> QED
      BY <2>1, <3>1
  <2> QED
    BY <1>2, <1>4, <1>6, <1>7, <2>1, <2>2
<1>8. IsInjective(b)
  BY <1>4 DEF IsInjective
<1> QED
  BY <1>3, <1>4, <1>7, <1>8 DEF S

\* Filling seats, the branch first: whoever is left out is beaten on their own side,
\* and nobody comes from elsewhere before the whole branch is in.
LEMMA FilledIs ==
  ASSUME NEW T, IsFiniteSet(T), T \subseteq Int, NEW people \in Seq(T), NEW there, NEW asker,
         NEW evidence, \A p \in ToSet(people) : Score(evidence[p]) \in Int, NEW k \in Nat
  PROVE  LET f == Filled(people, there, asker, evidence, k)
             S == ToSet(people) \ {asker}
         IN  /\ f \in Seq(S) /\ IsInjective(f) /\ Len(f) \in Nat /\ Len(f) <= k
             /\ \A p \in ToSet(f), q \in S \ ToSet(f) :
                  (p \in there) = (q \in there) => Score(evidence[p]) >= Score(evidence[q])
             /\ \A p \in ToSet(f) : p \notin there => S \cap there \subseteq ToSet(f)
<1> DEFINE S == ToSet(people) \ {asker}
           near == Only(people, there)
           far == Only(people, ToSet(people) \ there)
           picked == Rank(near, asker, evidence, k)
           l == k - Len(picked)
           rest == Rank(far, asker, evidence, l)
           f == picked \o rest
<1>1. /\ near \in Seq(T) /\ ToSet(near) = ToSet(people) \cap there
      /\ far \in Seq(T) /\ ToSet(far) = ToSet(people) \ there
  <2>1. near \in Seq(T \cap there) /\ ToSet(near) = ToSet(people) \cap there
    BY OnlyList
  <2>2. /\ far \in Seq(T \cap (ToSet(people) \ there))
        /\ ToSet(far) = ToSet(people) \cap (ToSet(people) \ there)
    BY OnlyList
  <2> QED
    BY <2>1, <2>2, SeqWidens
<1>2. Filled(people, there, asker, evidence, k) = f
  BY DEF Filled
<1>3. ToSet(near) \subseteq ToSet(people) /\ ToSet(far) \subseteq ToSet(people)
  BY <1>1
<1> HIDE DEF near, far
<1>4. /\ picked \in Seq(ToSet(near) \ {asker}) /\ IsInjective(picked)
      /\ Len(picked) \in Nat /\ Len(picked) <= k
      /\ \A x \in ToSet(near) \ {asker} : x \notin ToSet(picked) => Len(picked) = k
      /\ \A x \in ToSet(near) \ {asker} : x \notin ToSet(picked) =>
           \A y \in ToSet(picked) : Score(evidence[y]) >= Score(evidence[x])
  <2>1. \A p \in ToSet(near) : Score(evidence[p]) \in Int
    BY <1>3
  <2> QED
    BY <1>1, <2>1, RankIs
<1> HIDE DEF picked
<1>5. l \in Nat
  BY <1>4
<1>6. /\ rest \in Seq(ToSet(far) \ {asker}) /\ IsInjective(rest)
      /\ Len(rest) \in Nat /\ Len(rest) <= l
      /\ \A x \in ToSet(far) \ {asker} : x \notin ToSet(rest) => Len(rest) = l
      /\ \A x \in ToSet(far) \ {asker} : x \notin ToSet(rest) =>
           \A y \in ToSet(rest) : Score(evidence[y]) >= Score(evidence[x])
  <2>1. \A p \in ToSet(far) : Score(evidence[p]) \in Int
    BY <1>3
  <2> HIDE DEF l
  <2> QED
    BY <1>1, <1>5, <2>1, RankIs
<1> HIDE DEF rest
<1>7. picked \in Seq(S) /\ rest \in Seq(S)
  BY <1>3, <1>4, <1>6, SeqWidens
<1>8. /\ ToSet(picked) \subseteq (ToSet(people) \cap there) \ {asker}
      /\ ToSet(rest) \subseteq (ToSet(people) \ there) \ {asker}
  BY <1>1, <1>4, <1>6, ToSetIs
<1>9. /\ f \in Seq(S) /\ Len(f) = Len(picked) + Len(rest)
      /\ ToSet(f) = ToSet(picked) \cup ToSet(rest) /\ IsInjective(f)
  <2>1. ToSet(picked) \cap ToSet(rest) = {}
    BY <1>8
  <2> HIDE DEF S
  <2> QED
    BY <1>4, <1>6, <1>7, <2>1, JoinedList
<1>10. Len(f) \in Nat /\ Len(f) <= k
  BY <1>4, <1>5, <1>6, <1>9
<1>11. ASSUME NEW p \in ToSet(f), NEW q \in S \ ToSet(f), (p \in there) = (q \in there)
       PROVE  Score(evidence[p]) >= Score(evidence[q])
  <2>1. CASE q \in there
    <3>1. p \in ToSet(picked) /\ q \in ToSet(near) \ {asker} /\ q \notin ToSet(picked)
      BY <1>1, <1>8, <1>9, <1>11, <2>1
    <3> QED
      BY <1>4, <3>1
  <2>2. CASE q \notin there
    <3>1. p \in ToSet(rest) /\ q \in ToSet(far) \ {asker} /\ q \notin ToSet(rest)
      BY <1>1, <1>8, <1>9, <1>11, <2>2
    <3> QED
      BY <1>6, <3>1
  <2> QED
    BY <2>1, <2>2
<1>12. ASSUME NEW p \in ToSet(f), p \notin there, NEW q \in S, q \in there
       PROVE  q \in ToSet(f)
  <2>1. p \in ToSet(rest)
    BY <1>8, <1>9, <1>12
  <2>2. Len(rest) # 0
    BY <1>6, <2>1, ToSetIs
  <2>3. Len(picked) # k
    BY <1>4, <1>6, <2>2
  <2>4. q \in ToSet(near) \ {asker}
    BY <1>1, <1>12
  <2> QED
    BY <1>4, <1>9, <2>3, <2>4
<1> HIDE DEF f
<1>13. \A p \in ToSet(f) : p \notin there => S \cap there \subseteq ToSet(f)
  BY <1>12
<1> HIDE DEF S
<1>14. \A p \in ToSet(f), q \in S \ ToSet(f) :
         (p \in there) = (q \in there) => Score(evidence[p]) >= Score(evidence[q])
  BY <1>11
<1> QED
  BY <1>2, <1>9, <1>10, <1>13, <1>14 DEF S

\* These seats, the pin apart, are the best of a pool under the branch condition.
Earned(seats, pool, pin, there, evidence) ==
  /\ \A p \in ToSet(seats) \ pin, q \in pool \ ToSet(seats) :
       (p \in there) = (q \in there) => Score(evidence[p]) >= Score(evidence[q])
  /\ \A p \in ToSet(seats) \ pin : p \notin there => pool \cap there \subseteq ToSet(seats)

\* The seats of C6: the responder who is pinned, at most one, and then the pool.
LEMMA SeatedIs ==
  ASSUME NEW T, IsFiniteSet(T), T \subseteq Int, NEW people \in Seq(T),
         NEW pin \in SUBSET T, \A p, q \in pin : p = q,
         NEW there, NEW asker,
         NEW evidence, \A p \in ToSet(people) : Score(evidence[p]) \in Int
  PROVE  LET s == Seated(people, pin, there, asker, evidence)
             pool == ToSet(people) \ {asker}
         IN  /\ s \in Seq(T) /\ IsInjective(s) /\ Len(s) <= Slots /\ asker \notin ToSet(s)
             /\ ToSet(s) \subseteq pool \cup pin /\ pin \ {asker} \subseteq ToSet(s)
             /\ Earned(s, pool, pin, there, evidence)
<1> DEFINE pool == ToSet(people) \ {asker}
           first == pin \ {asker}
           head == ById(first)
           rest == Only(people, ToSet(people) \ ToSet(head))
           l == Slots - Len(head)
           f == Filled(rest, there, asker, evidence, l)
           s == head \o f
<1>1. Seated(people, pin, there, asker, evidence) = s
  BY DEF Seated
<1>2. Slots \in Nat /\ Slots >= 1
  BY ScoringAssumption
<1>3. IsFiniteSet(first) /\ first \subseteq Int /\ Cardinality(first) <= 1
  <2>1. first = {} \/ \E p \in T : first = {p}
    OBVIOUS
  <2>2. IsFiniteSet({}) /\ Cardinality({}) = 0
    BY FS_EmptySet
  <2>3. \A p : IsFiniteSet({p}) /\ Cardinality({p}) = 1
    BY FS_Singleton
  <2>4. first \subseteq Int
    OBVIOUS
  <2> HIDE DEF first
  <2>5. CASE first = {}
    BY <2>2, <2>5
  <2>6. ASSUME NEW p \in T, first = {p} PROVE IsFiniteSet(first) /\ Cardinality(first) <= 1
    <3>1. IsFiniteSet({p}) /\ Cardinality({p}) = 1
      BY <2>3
    <3> QED
      BY <2>6, <3>1
  <2> QED
    BY <2>1, <2>4, <2>5, <2>6
<1>4. first \subseteq T /\ asker \notin first /\ first \subseteq pin /\ pin \subseteq first \cup {asker}
  OBVIOUS
<1> HIDE DEF first
<1>5. /\ head \in Seq(first) /\ Len(head) \in Nat /\ Len(head) <= 1
      /\ ToSet(head) = first
      /\ \A i, j \in DOMAIN head : head[i] = head[j] => i = j
  BY <1>3, ByIdList
<1>6. IsInjective(head)
  BY <1>5 DEF IsInjective
<1> HIDE DEF head
<1>7. rest \in Seq(T) /\ ToSet(rest) = ToSet(people) \ first
  <2> DEFINE U == ToSet(people) \ ToSet(head)
  <2>1. Only(people, U) \in Seq(T \cap U) /\ ToSet(Only(people, U)) = ToSet(people) \cap U
    BY OnlyList
  <2>2. ToSet(people) \cap U = ToSet(people) \ first
    BY <1>5
  <2> HIDE DEF U
  <2>3. Only(people, U) \in Seq(T)
    BY <2>1, SeqWidens
  <2> QED
    BY <2>1, <2>2, <2>3 DEF U
<1> HIDE DEF rest
<1>8. l \in Nat
  BY <1>2, <1>5
<1>9. \A p \in ToSet(rest) : Score(evidence[p]) \in Int
  BY <1>7
<1> DEFINE S == ToSet(rest) \ {asker}
<1>10. /\ f \in Seq(S) /\ IsInjective(f) /\ Len(f) \in Nat /\ Len(f) <= l
       /\ \A p \in ToSet(f), q \in S \ ToSet(f) :
            (p \in there) = (q \in there) => Score(evidence[p]) >= Score(evidence[q])
       /\ \A p \in ToSet(f) : p \notin there => S \cap there \subseteq ToSet(f)
  <2> HIDE DEF l
  <2> QED
    BY <1>7, <1>8, <1>9, FilledIs
<1> HIDE DEF f
<1>11. S = pool \ first
  BY <1>7
<1>12. ToSet(f) \subseteq S
  BY <1>10, ToSetIs
<1>13. S \subseteq T
  BY <1>7, ToSetIs
<1> HIDE DEF S
<1>14. /\ s \in Seq(T) /\ Len(s) = Len(head) + Len(f)
       /\ ToSet(s) = first \cup ToSet(f) /\ IsInjective(s)
  <2>1. head \in Seq(T) /\ f \in Seq(T)
    BY <1>4, <1>5, <1>10, <1>13, SeqWidens
  <2>2. ToSet(head) \cap ToSet(f) = {}
    BY <1>5, <1>11, <1>12
  <2> QED
    BY <1>5, <1>6, <1>10, <2>1, <2>2, JoinedList
<1> HIDE DEF s
<1>15. Len(s) <= Slots
  BY <1>2, <1>5, <1>10, <1>14
<1>16. asker \notin pool
  OBVIOUS
<1> HIDE DEF pool, l
<1>17. asker \notin ToSet(s) /\ ToSet(s) \subseteq pool \cup pin /\ pin \ {asker} \subseteq ToSet(s)
  BY <1>4, <1>11, <1>12, <1>14, <1>16
<1>18. ASSUME NEW p \in ToSet(s) \ pin PROVE p \in ToSet(f)
  BY <1>4, <1>14, <1>18
<1>19. \A q \in pool : q \notin ToSet(s) => q \in S \ ToSet(f)
  BY <1>11, <1>14
<1>20. \A q \in pool : q \in S \/ q \in ToSet(s)
  BY <1>11, <1>14
<1>21. \A p \in ToSet(s) \ pin, q \in pool \ ToSet(s) :
         (p \in there) = (q \in there) => Score(evidence[p]) >= Score(evidence[q])
  BY <1>10, <1>18, <1>19
<1>22. \A p \in ToSet(s) \ pin : p \notin there => pool \cap there \subseteq ToSet(s)
  BY <1>10, <1>14, <1>18, <1>20
<1>23. Earned(s, pool, pin, there, evidence)
  BY <1>21, <1>22 DEF Earned
<1> QED
  BY <1>1, <1>14, <1>15, <1>17, <1>23 DEF pool

\* A consultation that solved nothing changes nothing about the evidence.
LEMMA UnsolvedIs ==
  ASSUME NEW e \in Records
  PROVE  TopicEvidence(e) =
           TopicEvidence([e EXCEPT !.consults = Only(@, ToSet(@) \ {"unresolved"})])
<1> DEFINE s == e.consults
           U == ToSet(s) \ {"unresolved"}
           Kinds == Positive \cup {"unresolved"}
           lean == [e EXCEPT !.consults = Only(s, U)]
<1>1. s \in Seq(Kinds) /\ lean.consults = Only(s, U) /\ lean.solid = e.solid
  BY DEF Records
<1>2. \A i \in DOMAIN s : s[i] \in Positive => s[i] \in U
  BY DEF Positive, ToSet
<1> HIDE DEF s, U, lean
<1>3. Len(Only(Only(s, U), Positive)) = Len(Only(s, Positive))
  <2> HIDE DEF Kinds
  <2> QED
    BY <1>1, <1>2, OnlyOfOnly
<1>4. Consults(lean.consults) = Consults(e.consults)
  BY <1>1, <1>3 DEF Consults, s
<1>5. TopicEvidence(lean) = TopicEvidence(e)
  BY <1>1, <1>4 DEF TopicEvidence
<1> QED
  BY <1>5 DEF lean, s, U

-----------------------------------------------------------------------------
(* The inductive invariant *)

World ==
  /\ text \in Texts /\ active \subseteq Staff
  /\ changes \in 0..MaxChanges
  /\ Cardinality(cache) <= 1
  /\ Cardinality(found) + Cardinality(seated) <= 1

\* Whoever built it, a cached index is the one of the pairs it is stored with.
CacheHonest ==
  \A c \in cache : c \in [pairs : Texts, index : SUBSET Answers] /\ c.index = IndexOf(c.pairs)

SearchFits(x) ==
  \/ x = Idle
  \/ x \in [at : {"look", "build"}, pairs : Texts]
  \/ x \in [at : {"rank"}, pairs : Texts, index : SUBSET Answers] /\ x.index = IndexOf(x.pairs)

SearchesFit ==
  /\ search = [s \in Searches |-> search[s]]
  /\ \A s \in Searches : SearchFits(search[s])

FoundFits(r) ==
  /\ r.route \in {"person", "prior_answer", "document"}
  /\ r.offered \in Seq(Staff) /\ r.past \in Seq(Answers)
  /\ r.pin \subseteq Staff /\ \A p, q \in r.pin : p = q
  /\ ToSet(r.offered) \cup r.pin \subseteq r.here
  /\ r.answerConf >= PriorAnswerSim => r.past # <<>>
  /\ Base = 0 /\ r.answerConf >= Hi => ToSet(r.past) \subseteq r.dense
  /\ r.profile # <<>> /\ TopK >= 2 /\ Head(r.profile) \in r.here
       => Head(r.profile) \in ToSet(r.offered)

SeatedFits(c) ==
  /\ c.recs \in Seq(Staff) /\ IsInjective(c.recs) /\ Len(c.recs) <= Slots
  /\ c.asker \notin ToSet(c.recs)
  /\ Earned(c.recs, c.pool, c.pin, c.there, c.evidence)
  /\ \A p \in DOMAIN c.evidence : c.evidence[p] \in Records

PipelineInv ==
  /\ World /\ CacheHonest /\ SearchesFit
  /\ \A r \in found : FoundFits(r)
  /\ \A c \in seated : SeatedFits(c)

\* The invariant holds at the start.
LEMMA PipelineInit == Init => PipelineInv
<1> SUFFICES ASSUME Init PROVE PipelineInv
  OBVIOUS
<1>1. Cardinality({}) = 0
  BY FS_EmptySet
<1>2. 0 \in 0..MaxChanges
  BY PipelineAssumption
<1>3. World
  BY <1>1, <1>2 DEF Init, World
<1>4. CacheHonest /\ SearchesFit
  BY DEF Init, CacheHonest, SearchesFit, SearchFits
<1> QED
  BY <1>3, <1>4 DEF Init, PipelineInv

\* What was retrieved fits what the search read and who was there.
LEMMA RetrieveKeeps ==
  ASSUME PipelineInv, NEW s \in Searches, NEW h \in Hits, Retrieve(s, h)
  PROVE  PipelineInv'
<1> DEFINE pairs == search[s].pairs
           index == search[s].index
           r == Retrieved(h, pairs, index)
           route == decide_route(r)
           result == [past |-> r.past, dense |-> r.dense, offered |-> r.offered,
                      profile |-> r.profile, answerConf |-> r.answerConf,
                      here |-> active, route |-> route, pin |-> Pinned(r, route)]
<1>1. search[s].at = "rank" /\ SearchFits(search[s])
  BY DEF Retrieve, PipelineInv, SearchesFit
<1>2. pairs \in Texts /\ index \in SUBSET Answers
  BY <1>1 DEF SearchFits, Idle
<1> HIDE DEF pairs, index
<1>3. text \in Texts /\ active \subseteq Staff
  BY DEF PipelineInv, World
<1>4. /\ r.past \in Seq(Answers) /\ r.offered \in Seq(Staff)
      /\ ToSet(r.offered) \subseteq active
      /\ r.by = {} \/ \E p \in Staff : r.by = {p}
      /\ r.by \ r.departed \subseteq active
      /\ r.answerConf >= PriorAnswerSim => r.past # <<>>
      /\ Base = 0 /\ r.answerConf >= Hi => ToSet(r.past) \subseteq r.dense
      /\ r.profile # <<>> /\ TopK >= 2 /\ Head(r.profile) \in active
           => Head(r.profile) \in ToSet(r.offered)
  BY <1>2, <1>3, RetrievedIs, PipelineAssumption
<1> HIDE DEF r
<1>5. route \in {"person", "prior_answer", "document"}
  BY DEF decide_route
<1> HIDE DEF route
<1>6. /\ Pinned(r, route) \subseteq active
      /\ \A p, q \in Pinned(r, route) : p = q
  BY <1>4 DEF Pinned
<1>7. FoundFits(result)
  BY <1>3, <1>4, <1>5, <1>6 DEF FoundFits
<1>8. /\ found' = {result} /\ seated' = {} /\ search' = [search EXCEPT ![s] = Idle]
      /\ UNCHANGED <<text, active, cache, changes>>
  BY DEF Retrieve, pairs, index, r, route
<1> HIDE DEF result
<1>9. Cardinality(found') + Cardinality(seated') <= 1
  <2>1. Cardinality({}) = 0 /\ Cardinality({result}) = 1
    BY FS_EmptySet, FS_Singleton
  <2> QED
    BY <1>8, <2>1
<1>10. World'
  BY <1>8, <1>9 DEF PipelineInv, World
<1>11. CacheHonest'
  BY <1>8 DEF PipelineInv, CacheHonest
<1>12. SearchesFit'
  BY <1>8 DEF PipelineInv, SearchesFit, SearchFits
<1> QED
  BY <1>7, <1>8, <1>10, <1>11, <1>12 DEF PipelineInv

\* What C6 seats of a result.
LEMMA C6ScoreKeeps ==
  ASSUME PipelineInv, C6Score
  PROVE  PipelineInv'
<1>1. PICK r \in found :
        \E asker \in Staff, there \in SUBSET (ToSet(r.offered) \cup r.pin),
           evidence \in [ToSet(r.offered) \cup r.pin -> Evidence] :
          seated' = {[recs |-> Seated(r.offered, r.pin, there, asker, evidence),
                      pool |-> ToSet(r.offered) \ {asker}, asker |-> asker,
                      pin |-> r.pin, there |-> there, evidence |-> evidence]}
  BY DEF C6Score
<1>2. PICK asker \in Staff, there \in SUBSET (ToSet(r.offered) \cup r.pin),
           evidence \in [ToSet(r.offered) \cup r.pin -> Evidence] :
        seated' = {[recs |-> Seated(r.offered, r.pin, there, asker, evidence),
                    pool |-> ToSet(r.offered) \ {asker}, asker |-> asker,
                    pin |-> r.pin, there |-> there, evidence |-> evidence]}
  BY <1>1
<1> DEFINE seats == Seated(r.offered, r.pin, there, asker, evidence)
           pool == ToSet(r.offered) \ {asker}
           c == [recs |-> seats, pool |-> pool, asker |-> asker,
                 pin |-> r.pin, there |-> there, evidence |-> evidence]
<1>3. FoundFits(r)
  BY DEF PipelineInv
<1>4. /\ r.offered \in Seq(Staff) /\ r.pin \in SUBSET Staff
      /\ \A p, q \in r.pin : p = q
  BY <1>3 DEF FoundFits
<1>5. IsFiniteSet(Staff) /\ Staff \subseteq Int
  BY PipelineAssumption
<1>6. \A p \in ToSet(r.offered) : Score(evidence[p]) \in Int
  BY <1>2, PipelineAssumption
<1>7. \A p \in DOMAIN evidence : evidence[p] \in Records
  BY <1>2, PipelineAssumption
<1>8. /\ seats \in Seq(Staff) /\ IsInjective(seats) /\ Len(seats) <= Slots
      /\ asker \notin ToSet(seats)
      /\ Earned(seats, pool, r.pin, there, evidence)
  BY <1>4, <1>5, <1>6, SeatedIs
<1>9. seated' = {c}
  BY <1>2
<1> HIDE DEF seats, pool
<1>10. SeatedFits(c)
  BY <1>7, <1>8 DEF SeatedFits
<1>11. found' = {} /\ UNCHANGED <<text, active, cache, search, changes>>
  BY DEF C6Score
<1> HIDE DEF c
<1>12. Cardinality(found') + Cardinality(seated') <= 1
  <2>1. Cardinality({}) = 0 /\ Cardinality({c}) = 1
    BY FS_EmptySet, FS_Singleton
  <2> QED
    BY <1>9, <1>11, <2>1
<1>13. World'
  BY <1>11, <1>12 DEF PipelineInv, World
<1>14. CacheHonest' /\ SearchesFit'
  BY <1>11 DEF PipelineInv, CacheHonest, SearchesFit
<1> QED
  BY <1>9, <1>10, <1>11, <1>13, <1>14 DEF PipelineInv

\* Every operation keeps it.
LEMMA PipelineStep == PipelineInv /\ [Next]_vars => PipelineInv'
<1> SUFFICES ASSUME PipelineInv, [Next]_vars PROVE PipelineInv'
  OBVIOUS
<1>1. ASSUME NEW a \in Answers, NEW t \in {"absent", "plain", "match"}, Write(a, t)
      PROVE  PipelineInv'
  <2>1. World'
    BY <1>1, PipelineAssumption DEF PipelineInv, World, Write, Change, Texts
  <2>2. CacheHonest' /\ SearchesFit' /\ UNCHANGED <<found, seated>>
    BY <1>1 DEF PipelineInv, CacheHonest, SearchesFit, Write, Change
  <2> QED
    BY <2>1, <2>2 DEF PipelineInv
<1>2. ASSUME NEW p \in Staff, Leave(p)
      PROVE  PipelineInv'
  <2>1. World'
    BY <1>2, PipelineAssumption DEF PipelineInv, World, Leave, Change
  <2>2. CacheHonest' /\ SearchesFit' /\ UNCHANGED <<found, seated>>
    BY <1>2 DEF PipelineInv, CacheHonest, SearchesFit, Leave, Change
  <2> QED
    BY <2>1, <2>2 DEF PipelineInv
<1>3. ASSUME NEW s \in Searches, Begin(s)
      PROVE  PipelineInv'
  <2>1. World' /\ CacheHonest' /\ UNCHANGED <<found, seated>>
    BY <1>3 DEF PipelineInv, World, CacheHonest, Begin
  <2>2. SearchesFit'
    BY <1>3 DEF PipelineInv, World, SearchesFit, SearchFits, Begin
  <2> QED
    BY <2>1, <2>2 DEF PipelineInv
<1>4. ASSUME NEW s \in Searches, Look(s)
      PROVE  PipelineInv'
  <2>1. World' /\ CacheHonest' /\ UNCHANGED <<found, seated>>
    BY <1>4 DEF PipelineInv, World, CacheHonest, Look
  <2>2. SearchFits(search[s]) /\ search[s].at = "look"
    BY <1>4 DEF PipelineInv, SearchesFit, Look
  <2>3. search[s] \in [at : {"look", "build"}, pairs : Texts]
    BY <2>2 DEF SearchFits, Idle
  <2>4. CASE \E c \in Cached(search[s].pairs) :
               search' = [search EXCEPT ![s] = [at |-> "rank", pairs |-> search[s].pairs, index |-> c.index]]
    <3>1. PICK c \in cache :
            /\ c.pairs = search[s].pairs
            /\ search' = [search EXCEPT ![s] = [at |-> "rank", pairs |-> search[s].pairs, index |-> c.index]]
      BY <2>4 DEF Cached
    <3>2. c.index = IndexOf(search[s].pairs) /\ c.index \in SUBSET Answers
      BY <3>1 DEF PipelineInv, CacheHonest
    <3>3. SearchFits([at |-> "rank", pairs |-> search[s].pairs, index |-> c.index])
      BY <2>3, <3>2 DEF SearchFits
    <3> QED
      BY <2>1, <3>1, <3>3 DEF PipelineInv, SearchesFit
  <2>5. CASE search' = [search EXCEPT ![s].at = "build"]
    <3>1. [search[s] EXCEPT !.at = "build"] \in [at : {"look", "build"}, pairs : Texts]
      BY <2>3
    <3>2. SearchFits([search[s] EXCEPT !.at = "build"])
      BY <3>1 DEF SearchFits
    <3> QED
      BY <2>1, <2>5, <3>2 DEF PipelineInv, SearchesFit
  <2> QED
    BY <1>4, <2>4, <2>5 DEF Look
<1>5. ASSUME NEW s \in Searches, Build(s)
      PROVE  PipelineInv'
  <2> DEFINE pairs == search[s].pairs
             built == [pairs |-> pairs, index |-> IndexOf(pairs)]
             ready == [at |-> "rank", pairs |-> pairs, index |-> IndexOf(pairs)]
  <2>1. SearchFits(search[s]) /\ search[s].at = "build"
    BY <1>5 DEF PipelineInv, SearchesFit, Build
  <2>2. pairs \in Texts /\ IndexOf(pairs) \in SUBSET Answers
    BY <2>1 DEF SearchFits, Idle, IndexOf
  <2>3. /\ cache' = {built} /\ search' = [search EXCEPT ![s] = ready]
        /\ UNCHANGED <<text, active, found, seated, changes>>
    BY <1>5 DEF Build
  <2>4. CacheHonest' /\ Cardinality(cache') <= 1
    <3>1. built \in [pairs : Texts, index : SUBSET Answers] /\ built.index = IndexOf(built.pairs)
      BY <2>2
    <3>2. Cardinality({built}) = 1
      BY FS_Singleton
    <3> HIDE DEF built
    <3> QED
      BY <2>3, <3>1, <3>2 DEF CacheHonest
  <2>5. World'
    BY <2>3, <2>4 DEF PipelineInv, World
  <2>6. SearchFits(ready)
    BY <2>2 DEF SearchFits
  <2> HIDE DEF ready
  <2>7. SearchesFit'
    BY <2>3, <2>6 DEF PipelineInv, SearchesFit
  <2> QED
    BY <2>3, <2>4, <2>5, <2>7 DEF PipelineInv
<1>6. ASSUME NEW s \in Searches, NEW h \in Hits, Retrieve(s, h) PROVE PipelineInv'
  BY <1>6, RetrieveKeeps
<1>7. CASE C6Score
  BY <1>7, C6ScoreKeeps
<1>8. CASE UNCHANGED vars
  BY <1>8 DEF vars, PipelineInv, World, CacheHonest, SearchesFit
<1> QED
  BY <1>1, <1>2, <1>3, <1>4, <1>5, <1>6, <1>7, <1>8 DEF Next

\* So it holds in every run.
LEMMA PipelineHolds == Spec => []PipelineInv
BY PipelineInit, PipelineStep, PTL DEF Spec

-----------------------------------------------------------------------------
(* The theorems *)

\* Every search ranks with the corpus it read, whatever the searches beside it leave
\* in the cache; near certainty has an answer behind it, and nobody who had left is
\* asked (bm25_cache.py, retriever.search, decide_route).
THEOREM SearchIsSound == Spec => []SearchSound
<1>1. PipelineInv => PipelineTypeOK
  <2> SUFFICES ASSUME PipelineInv PROVE PipelineTypeOK
    OBVIOUS
  <2>1. ASSUME NEW s \in Searches
        PROVE  CASE search[s].at = "idle" -> search[s] = Idle
                 [] search[s].at = "rank" ->
                      search[s] \in [at : {"rank"}, pairs : Texts, index : SUBSET Answers]
                 [] OTHER -> search[s] \in [at : {"look", "build"}, pairs : Texts]
    <3>1. SearchFits(search[s])
      BY DEF PipelineInv, SearchesFit
    <3> QED
      BY <3>1 DEF SearchFits, Idle
  <2>2. \A r \in found : /\ r.route \in {"person", "prior_answer", "document"}
                         /\ r.offered \in Seq(Staff) /\ r.past \in Seq(Answers)
    BY DEF PipelineInv, FoundFits
  <2>3. \A c \in seated : c.recs \in Seq(Staff) /\ IsInjective(c.recs) /\ Len(c.recs) <= Slots
    BY DEF PipelineInv, SeatedFits
  <2> QED
    BY <2>1, <2>2, <2>3 DEF PipelineInv, World, CacheHonest, PipelineTypeOK
<1>2. PipelineInv => IndexIsCurrent
  BY DEF PipelineInv, SearchesFit, SearchFits, Idle, IndexIsCurrent
<1>3. PipelineInv => ResultUsable
  BY DEF PipelineInv, FoundFits, ResultUsable, ConfidenceHasAnswer, DepartedNotAsked
<1> QED
  BY <1>1, <1>2, <1>3, PipelineHolds, PTL DEF SearchSound

\* A channel says no more than its weight and no less than its turn: a confident dense
\* channel is alone where BM25 weighs nothing, and the best profile match is offered
\* (rrf, adaptive_bm25_weight, _aggregate_people).
THEOREM ChannelsAreWeighed == Spec => []ChannelsWeighed
<1>1. PipelineInv => ChannelsWeighed
  BY DEF PipelineInv, FoundFits, ChannelsWeighed, SilentChannel, TopProfileOffered
<1> QED
  BY <1>1, PipelineHolds, PTL

\* The seats go to the best of each side of the branch condition, the whole branch
\* first and the asker never, and a consultation that solved nothing moves nobody
\* (rank, c6_score, collect_topic_evidence).
THEOREM SeatsAreEarned == Spec => []SeatsEarned
<1>1. PipelineInv => BestSeated
  BY DEF PipelineInv, SeatedFits, Earned, BestSeated
<1>2. PipelineInv => BranchFirst
  BY DEF PipelineInv, SeatedFits, Earned, BranchFirst
<1>3. PipelineInv => UnsolvedCountsForNothing
  BY UnsolvedIs DEF PipelineInv, SeatedFits, UnsolvedCountsForNothing
<1> QED
  BY <1>1, <1>2, <1>3, PipelineHolds, PTL DEF SeatsEarned

-----------------------------------------------------------------------------
(* The evaluation *)

\* A ranking asks for the people, not for their order.
LEMMA RankOfSet ==
  ASSUME NEW s, NEW t, ToSet(s) = ToSet(t), NEW asker, NEW evidence, NEW k
  PROVE  Rank(s, asker, evidence, k) = Rank(t, asker, evidence, k)
BY DEF Rank

\* The pinned ones, then the best of the others, k in all.
PinnedFirst(people, pin, asker, evidence, k) ==
  LET head == ById(pin)
  IN  head \o Rank(Only(people, ToSet(people) \ ToSet(head)), asker, evidence, k - Len(head))

\* Without a branch, C6 shows the pinned responder and then the best of the others.
LEMMA SeatedPlainly ==
  ASSUME NEW people \in Seq(Staff),
         NEW pin \in SUBSET Staff, \A p, q \in pin : p = q, NEW asker, asker \notin Staff,
         NEW evidence, \A p \in ToSet(people) : Score(evidence[p]) \in Int,
         NEW k \in Nat, Slots <= k
  PROVE  Cut(PinnedFirst(people, pin, asker, evidence, k), Slots)
           = Seated(people, pin, {}, asker, evidence)
<1> DEFINE head == ById(pin)
           U == ToSet(people) \ ToSet(head)
           rest == Only(people, U)
           l == Slots - Len(head)
           S == ToSet(rest) \ {asker}
           value == [p \in ToSet(rest) |-> Score(evidence[p])]
           near == Only(rest, {})
           far == Only(rest, ToSet(rest) \ {})
           picked == Rank(near, asker, evidence, l)
           others == Rank(far, asker, evidence, l - Len(picked))
<1>1. pin \ {asker} = pin
  OBVIOUS
<1>2. Seated(people, pin, {}, asker, evidence) = head \o (picked \o others)
  BY <1>1 DEF Seated, Filled
<1>3. Slots \in Nat /\ Slots >= 1 /\ IsFiniteSet(Staff) /\ Staff \subseteq Int
  BY ScoringAssumption, PipelineAssumption
<1>4. /\ head \in Seq(Staff) /\ Len(head) \in Nat /\ Len(head) <= Slots
  <2>1. IsFiniteSet(pin) /\ pin \subseteq Int /\ Cardinality(pin) <= 1
    <3>1. pin = {} \/ \E p \in Staff : pin = {p}
      OBVIOUS
    <3>2. IsFiniteSet({}) /\ Cardinality({}) = 0
      BY FS_EmptySet
    <3>3. \A p : IsFiniteSet({p}) /\ Cardinality({p}) = 1
      BY FS_Singleton
    <3>4. ASSUME NEW p \in Staff, pin = {p} PROVE IsFiniteSet(pin) /\ Cardinality(pin) <= 1
      <4>1. IsFiniteSet({p}) /\ Cardinality({p}) = 1
        BY <3>3
      <4> QED
        BY <3>4, <4>1
    <3>5. CASE pin = {}
      BY <3>2, <3>5
    <3> QED
      BY <1>3, <3>1, <3>4, <3>5
  <2>2. head \in Seq(pin) /\ Len(head) \in Nat /\ Len(head) <= 1
    BY <2>1, ByIdList
  <2> HIDE DEF head
  <2>3. head \in Seq(Staff)
    BY <2>2, SeqWidens
  <2> QED
    BY <1>3, <2>2, <2>3
<1> HIDE DEF head
<1>5. rest \in Seq(Staff) /\ ToSet(rest) \subseteq ToSet(people)
  <2>1. rest \in Seq(Staff \cap U) /\ ToSet(rest) = ToSet(people) \cap U
    BY OnlyList
  <2> HIDE DEF U
  <2> QED
    BY <2>1, SeqWidens
<1>6. \A p \in ToSet(rest) : Score(evidence[p]) \in Int
  BY <1>5
<1> HIDE DEF rest
<1>7. l \in Nat
  BY <1>3, <1>4
<1> HIDE DEF l
<1>8. picked = <<>>
  <2>1. near \in Seq(Staff \cap {}) /\ ToSet(near) = {}
    BY <1>5, OnlyList
  <2>2. near \in Seq(Staff)
    BY <2>1, SeqWidens
  <2>3. \A p \in ToSet(near) : Score(evidence[p]) \in Int
    BY <2>1
  <2> HIDE DEF near
  <2>4. picked \in Seq(ToSet(near) \ {asker})
    BY <1>3, <1>7, <2>2, <2>3, RankIs
  <2> HIDE DEF picked
  <2>5. picked \in Seq({})
    BY <2>1, <2>4
  <2> QED
    BY <2>5
<1>9. others = Rank(rest, asker, evidence, l)
  <2>1. ToSet(far) = ToSet(rest)
    <3>1. ToSet(far) = ToSet(rest) \cap (ToSet(rest) \ {})
      BY <1>5, OnlyList
    <3> QED
      BY <3>1
  <2>2. l - Len(picked) = l
    BY <1>7, <1>8
  <2> HIDE DEF far, picked
  <2> QED
    BY <2>1, <2>2, RankOfSet
<1> HIDE DEF picked, others
<1>10. IsFiniteSet(S) /\ S \subseteq Int
  <2>1. S \subseteq Staff
    BY <1>5, ToSetIs
  <2> HIDE DEF S
  <2> QED
    BY <1>3, <2>1, FS_Subset
<1>11. \A p \in S : value[p] \in Int
  BY <1>6
<1>12. \A n : Rank(rest, asker, evidence, n) = Best(S, value, n)
  BY DEF Rank
<1> HIDE DEF S, value
<1> DEFINE m == k - Len(head)
<1>13. m \in Nat /\ l <= m /\ l = Slots - Len(head)
  BY <1>3, <1>4 DEF l
<1> HIDE DEF m
<1>14. Best(S, value, m) \in Seq(S) /\ S \subseteq Staff
  BY <1>5, <1>10, <1>11, <1>13, BestList, ToSetIs DEF S
<1>15. Best(S, value, m) \in Seq(Staff)
  BY <1>14, SeqWidens
<1>16. Cut(head \o Best(S, value, m), Slots) = head \o Cut(Best(S, value, m), l)
  <2>1. Cut(head \o Best(S, value, m), Slots) = head \o Cut(Best(S, value, m), Slots - Len(head))
    BY <1>3, <1>4, <1>15, CutJoined
  <2> QED
    BY <1>13, <2>1
<1>17. Cut(Best(S, value, m), l) = Best(S, value, l)
  BY <1>7, <1>10, <1>11, <1>13, BestOfBest
<1>18. <<>> \o others = others
  <2>1. others \in Seq(ToSet(rest) \ {asker})
    BY <1>3, <1>5, <1>6, <1>7, <1>9, RankIs
  <2> QED
    BY <2>1
<1> QED
  BY <1>2, <1>8, <1>9, <1>12, <1>16, <1>17, <1>18 DEF PinnedFirst, rest, U, head, m

EvalInv == PipelineInv /\ MirrorsProduct /\ \A run \in ranker : run.evidence \in Known

\* One row of an evaluation shows what C6 shows.
LEMMA RankRowMirrors ==
  ASSUME EvalInv, NEW h \in Nearness, RankRow(h)
  PROVE  MirrorsProduct'
<1>1. PICK run \in ranker :
        LET q      == Head(todo)
            r      == Retrieved(h, text, IndexOf(text))
            route  == decide_route(r)
            ranked == RankExperts(q, r, route, run.evidence)
        IN  compared' = {[ranked |-> ranked, departed |-> r.by \cap r.departed,
                          shown |-> Shown(q, r, route, run.evidence)]}
  BY DEF RankRow
<1> DEFINE q == Head(todo)
           r == Retrieved(h, text, IndexOf(text))
           route == decide_route(r)
           evidence == run.evidence
           ranked == RankExperts(q, r, route, evidence)
           shown == Shown(q, r, route, evidence)
           pinned == PinnedResponder(r, route)
           pin == Pinned(r, route)
<1>2. compared' = {[ranked |-> ranked, departed |-> r.by \cap r.departed, shown |-> shown]}
  BY <1>1
<1>3. text \in Texts /\ active \subseteq Staff
  BY DEF EvalInv, PipelineInv, World
<1>4. /\ r.offered \in Seq(Staff) /\ r.by \in SUBSET Staff /\ \A x, y \in r.by : x = y
  <2>1. h \in Closeness /\ IndexOf(text) \in SUBSET Answers
    BY EvaluationAssumption DEF IndexOf
  <2>2. r.offered \in Seq(Staff) /\ (r.by = {} \/ \E p \in Staff : r.by = {p})
    BY <1>3, <2>1, RetrievedIs
  <2> HIDE DEF r
  <2> QED
    BY <2>2
<1> HIDE DEF r, q
<1>5. IsFiniteSet(Staff) /\ Staff \subseteq Int
  BY PipelineAssumption
<1>6. \A p \in ToSet(r.offered) : Score(evidence[p]) \in Int
  <2>1. evidence \in [Staff -> Evidence]
    BY EvaluationAssumption DEF EvalInv
  <2>2. ToSet(r.offered) \subseteq Staff
    BY <1>4, ToSetIs
  <2> HIDE DEF evidence
  <2> QED
    BY <2>1, <2>2, PipelineAssumption
<1> HIDE DEF evidence
<1>7. Nobody \notin Staff /\ Depth \in Nat /\ Slots <= Depth /\ Slots \in Nat
  BY EvaluationAssumption, ScoringAssumption
<1>8. ASSUME r.by \cap r.departed = {} PROVE Cut(ranked, Slots) = shown
  <2>1. CASE route = "document" \/ q.topics = {}
    <3>1. ranked = <<>> /\ shown = <<>>
      BY <2>1 DEF RankExperts, Shown
    <3>2. Cut(<<>>, Slots) = <<>>
      BY <1>7 DEF Cut, AtMost
    <3> HIDE DEF ranked, shown
    <3> QED
      BY <3>1, <3>2
  <2>2. CASE ~(route = "document" \/ q.topics = {})
    <3> DEFINE rest == Only(r.offered, ToSet(r.offered) \ ToSet(pinned))
    <3>1. /\ ranked = pinned \o Rank(rest, Nobody, evidence, Depth - Len(pinned))
          /\ shown = Seated(r.offered, pin, {}, Nobody, evidence)
      BY <2>2 DEF RankExperts, Shown
    <3>2. pin \in SUBSET Staff /\ \A x, y \in pin : x = y
      BY <1>4 DEF Pinned
    <3>3. pinned = ById(pin)
      <4>1. CASE route = "prior_answer"
        BY <1>8, <4>1 DEF PinnedResponder, Pinned
      <4>2. CASE route # "prior_answer"
        <5>1. pin = {} /\ pinned = <<>>
          BY <4>2 DEF PinnedResponder, Pinned
        <5>2. ById({}) = <<>>
          <6>1. IsFiniteSet({}) /\ {} \subseteq Int
            BY FS_EmptySet
          <6>2. ById({}) \in Seq({})
            BY <6>1, ByIdList
          <6> HIDE DEF ById
          <6> QED
            BY <6>2
        <5> HIDE DEF pin, pinned
        <5> QED
          BY <5>1, <5>2
      <4> QED
        BY <4>1, <4>2
    <3> HIDE DEF ranked, shown, pinned, pin, rest
    <3>4. Cut(PinnedFirst(r.offered, pin, Nobody, evidence, Depth), Slots)
            = Seated(r.offered, pin, {}, Nobody, evidence)
      BY <1>4, <1>6, <1>7, <3>2, SeatedPlainly
    <3> QED
      BY <3>1, <3>3, <3>4 DEF PinnedFirst, rest
  <2> QED
    BY <2>1, <2>2
<1> HIDE DEF ranked, shown
<1> QED
  BY <1>2, <1>8 DEF MirrorsProduct

\* Every step of an evaluation, and of the company beside it, keeps the mirror.
LEMMA EvalStep ==
  EvalInv /\ [EvalNext \/ (Next /\ UNCHANGED evalVars)]_<<vars, evalVars>> => EvalInv'
<1> SUFFICES ASSUME EvalInv, [EvalNext \/ (Next /\ UNCHANGED evalVars)]_<<vars, evalVars>>
             PROVE  EvalInv'
  OBVIOUS
<1>1. PipelineInv'
  <2>1. [Next]_vars
    BY DEF EvalNext, StartEval, RankRow, GraphRow, Report
  <2> QED
    BY <2>1, PipelineStep DEF EvalInv
<1>2. \A run \in ranker' : run.evidence \in Known
  BY DEF EvalInv, EvalNext, StartEval, RankRow, GraphRow, Report, evalVars
<1>3. MirrorsProduct'
  <2>1. ASSUME NEW h \in Nearness, RankRow(h) PROVE MirrorsProduct'
    BY <2>1, RankRowMirrors
  <2>2. CASE UNCHANGED compared
    BY <2>2 DEF EvalInv, MirrorsProduct
  <2>3. CASE compared' = {}
    BY <2>3 DEF MirrorsProduct
  <2> QED
    BY <2>1, <2>2, <2>3 DEF EvalNext, StartEval, GraphRow, Report, evalVars
<1> QED
  BY <1>1, <1>2, <1>3 DEF EvalInv

\* The top of every evaluated ranking is what the product would have shown for the same
\* search, as long as nobody the evaluation pins has left (_rank_experts, c6_score).
THEOREM EvaluationMirrors == EvalSpec => []MirrorsProduct
<1>1. Init /\ EvalInit => EvalInv
  BY PipelineInit DEF EvalInit, EvalInv, MirrorsProduct
<1>2. EvalInv => MirrorsProduct
  BY DEF EvalInv
<1> QED
  BY <1>1, <1>2, EvalStep, PTL DEF EvalSpec

-----------------------------------------------------------------------------
(* The figures of an evaluation *)

LEMMA DivExact ==
  ASSUME NEW a \in Nat, NEW b \in Nat \ {0}, a % b = 0
  PROVE  (a \div b) * b = a
OBVIOUS

\* A share is at most the whole.
LEMMA DivBounded ==
  ASSUME NEW u \in Nat, NEW c \in Nat, NEW b \in Nat \ {0}, c <= b
  PROVE  (u * c) \div b \in Nat /\ (u * c) \div b <= u
<1>1. u * c \in Nat /\ u * b \in Nat /\ u * c <= u * b
  OBVIOUS
<1> DEFINE q == (u * c) \div b
<1>2. q \in Nat /\ q * b <= u * c
  BY <1>1, DivIs
<1> HIDE DEF q
<1>3. q * b <= u * b
  BY <1>1, <1>2
<1>4. ~(q > u)
  <2> SUFFICES ASSUME q > u PROVE FALSE
    OBVIOUS
  <2>1. q * b >= (u + 1) * b
    BY <1>2
  <2>2. (u + 1) * b = u * b + b
    OBVIOUS
  <2> QED
    BY <1>1, <1>2, <1>3, <2>1, <2>2
<1> QED
  BY <1>2, <1>4 DEF q

\* The place of the first hit.
LEMMA FirstHitIs ==
  ASSUME NEW T, NEW s \in Seq(T), NEW gold
  PROVE  LET first == FirstHit(s, gold)
         IN  /\ first \in 0..Len(s)
             /\ first = 0 => \A i \in 1..Len(s) : s[i] \notin gold
             /\ first # 0 => s[first] \in gold /\ \A i \in 1..Len(s) : s[i] \in gold => first <= i
<1> DEFINE hits == {i \in DOMAIN s : s[i] \in gold}
<1>1. DOMAIN s = 1..Len(s) /\ Len(s) \in Nat
  OBVIOUS
<1>2. CASE hits = {}
  <2>1. FirstHit(s, gold) = 0
    BY <1>2 DEF FirstHit
  <2> QED
    BY <1>1, <1>2, <2>1
<1>3. CASE hits # {}
  <2>1. hits \in SUBSET Nat
    BY <1>1
  <2>2. \E x \in hits : \A y \in hits : x <= y
    <3> HIDE DEF hits
    <3> QED
      BY <1>3, <2>1, HasLeast
  <2>3. FirstHit(s, gold) = Min(hits)
    BY <1>3 DEF FirstHit
  <2>4. Min(hits) \in hits /\ \A y \in hits : Min(hits) <= y
    <3> HIDE DEF hits
    <3> QED
      BY <2>2 DEF Min
  <2> QED
    BY <1>1, <2>3, <2>4
<1> QED
  BY <1>2, <1>3

\* What the ranks of an evaluated row say about each other.
RowAgrees(r) ==
  LET top == ToSet(Cut(r.ranked, RecallK))
  IN  /\ Top1(r) <=> ReciprocalRank(r) = Unit
      /\ HitAt(r, RecallK) <=> ReciprocalRank(r) * RecallK >= Unit
      /\ HitAt(r, RecallK) <=> RecallAt(r, RecallK) > 0
      /\ r.gold \subseteq top \/ (top \subseteq r.gold /\ Cardinality(top) = RecallK)
           <=> RecallAt(r, RecallK) = Unit

\* A unit of rates can be shared by up to RecallK.
LEMMA UnitIs ==
  /\ Unit \in Nat \ {0} /\ Unit % 2 = 0 /\ Unit % 3 = 0
  /\ Unit \div 1 = Unit /\ (Unit \div 2) * 2 = Unit /\ (Unit \div 3) * 3 = Unit
<1>1. Unit \in Nat \ {0}
  BY FusionAssumption
<1>2. Unit % 2 = 0 /\ Unit % 3 = 0
  <2>1. 2 \in 1..RecallK /\ 3 \in 1..RecallK
    BY DEF RecallK
  <2> QED
    BY <2>1, EvaluationAssumption
<1> QED
  BY <1>1, <1>2

\* The reciprocal rank tells the first place, and whether it is one of three.
LEMMA RanksAgree ==
  ASSUME NEW first \in Nat,
         NEW rr, rr = IF first = 0 THEN 0 ELSE Unit \div first
  PROVE  (first = 1 <=> rr = Unit) /\ (first \in 1..3 <=> rr * 3 >= Unit)
<1>1. CASE first = 0
  BY <1>1, UnitIs
<1>2. CASE first = 1
  BY <1>2, UnitIs
<1>3. CASE first = 2
  BY <1>3, UnitIs
<1>4. CASE first = 3
  BY <1>4, UnitIs
<1>5. CASE first > 3
  <2>1. rr \in Nat /\ rr * first <= Unit
    BY <1>5, UnitIs, DivIs
  <2>2. rr * 4 <= rr * first
    BY <1>5, <2>1
  <2>3. rr * 4 <= Unit
    BY <1>5, <2>1, <2>2, UnitIs
  <2> QED
    BY <1>5, <2>1, <2>3, UnitIs
<1> QED
  BY <1>1, <1>2, <1>3, <1>4, <1>5

\* Recall is nothing without a hit, and full when no more could be found.
LEMMA RecallAgrees ==
  ASSUME NEW c \in Nat, NEW m \in 1..3, c <= m,
         NEW recall, recall = (Unit * c) \div m
  PROVE  (c # 0 <=> recall > 0) /\ (c = m <=> recall = Unit)
<1> DEFINE u2 == Unit \div 2
           u3 == Unit \div 3
<1>1. u2 \in Nat \ {0} /\ u3 \in Nat \ {0} /\ Unit = u2 * 2 /\ Unit = u3 * 3 /\ Unit \in Nat \ {0}
  BY UnitIs
<1> HIDE DEF u2, u3
<1>2. CASE m = 1
  BY <1>1, <1>2
<1>3. CASE m = 2
  <2>1. (Unit * 0) \div 2 = 0 /\ (Unit * 1) \div 2 = u2 /\ (Unit * 2) \div 2 = Unit
    BY <1>1
  <2>2. c = 0 \/ c = 1 \/ c = 2
    BY <1>3
  <2> QED
    BY <1>1, <1>3, <2>1, <2>2
<1>4. CASE m = 3
  <2>1. /\ (Unit * 0) \div 3 = 0 /\ (Unit * 1) \div 3 = u3
        /\ (Unit * 2) \div 3 = 2 * u3 /\ (Unit * 3) \div 3 = Unit
    BY <1>1
  <2>2. c = 0 \/ c = 1 \/ c = 2 \/ c = 3
    BY <1>4
  <2> QED
    BY <1>1, <1>4, <2>1, <2>2
<1> QED
  BY <1>2, <1>3, <1>4

\* Two finite sets, one as large as the part they share.
LEMMA SharedIsAll ==
  ASSUME NEW A, IsFiniteSet(A), NEW B
  PROVE  /\ IsFiniteSet(A \cap B) /\ Cardinality(A \cap B) \in Nat
         /\ Cardinality(A \cap B) <= Cardinality(A)
         /\ Cardinality(A \cap B) = Cardinality(A) <=> A \subseteq B
<1>1. A \cap B \subseteq A
  OBVIOUS
<1>2. IsFiniteSet(A \cap B) /\ Cardinality(A \cap B) <= Cardinality(A)
      /\ (Cardinality(A \cap B) = Cardinality(A) => A \cap B = A)
  BY <1>1, FS_Subset
<1>3. Cardinality(A \cap B) \in Nat /\ Cardinality(A) \in Nat
  BY <1>2, FS_CardinalityType
<1>4. A \subseteq B <=> A \cap B = A
  OBVIOUS
<1> QED
  BY <1>2, <1>3, <1>4

\* The measures of a row agree.
LEMMA RowMeasures ==
  ASSUME NEW T, NEW r, r.ranked \in Seq(T), IsFiniteSet(r.gold), r.gold # {}
  PROVE  RowAgrees(r)
<1> DEFINE s == r.ranked
           gold == r.gold
           cut == Cut(s, 3)
           top == ToSet(cut)
           first == FirstHit(s, gold)
           n == AtMost(Len(s), 3)
           c == Cardinality(top \cap gold)
           m == AtMost(3, Cardinality(gold))
<1>1. /\ first \in 0..Len(s)
      /\ first = 0 => \A i \in 1..Len(s) : s[i] \notin gold
      /\ first # 0 => s[first] \in gold /\ \A i \in 1..Len(s) : s[i] \in gold => first <= i
  BY FirstHitIs
<1>2. /\ cut \in Seq(T) /\ Len(cut) = n /\ DOMAIN cut = 1..n
      /\ n \in Nat /\ n <= Len(s) /\ n <= 3 /\ \A i \in 1..n : cut[i] = s[i]
  <2> DEFINE three == 3
  <2>1. s \in Seq(T) /\ three \in Nat
    OBVIOUS
  <2> HIDE DEF s, three
  <2>2. /\ Cut(s, three) \in Seq(T) /\ Len(Cut(s, three)) = AtMost(Len(s), three)
        /\ DOMAIN Cut(s, three) = 1..AtMost(Len(s), three)
        /\ AtMost(Len(s), three) \in Nat
        /\ AtMost(Len(s), three) <= Len(s) /\ AtMost(Len(s), three) <= three
        /\ \A i \in 1..AtMost(Len(s), three) : Cut(s, three)[i] = s[i]
    BY <2>1, CutList
  <2> QED
    BY <2>2 DEF three
<1>3. n = 3 \/ n = Len(s)
  BY DEF AtMost
<1>4. Len(s) \in Nat
  OBVIOUS
<1>5. IsFiniteSet(top) /\ Cardinality(top) \in Nat /\ Cardinality(top) <= 3
  <2>1. IsFiniteSet(1..n) /\ Cardinality(1..n) = n
    BY <1>2, FS_Interval
  <2>2. top = {cut[i] : i \in 1..n}
    BY <1>2 DEF ToSet
  <2> HIDE DEF cut, n, top
  <2>3. IsFiniteSet(top) /\ Cardinality(top) <= Cardinality(1..n)
    <3> DEFINE f == [i \in 1..n |-> cut[i]]
    <3>1. f \in Surjection(1..n, top)
      BY <2>2 DEF Surjection
    <3> HIDE DEF f
    <3> QED
      BY <2>1, <3>1, FS_Surjection
  <2> QED
    BY <1>2, <2>1, <2>3, FS_CardinalityType
<1>6. HitAt(r, 3) <=> first \in 1..3
  <2> DEFINE early == FirstHit(cut, gold)
  <2>1. /\ early \in 0..Len(cut)
        /\ early = 0 => \A i \in 1..Len(cut) : cut[i] \notin gold
        /\ early # 0 => cut[early] \in gold
    BY <1>2, FirstHitIs
  <2>2. HitAt(r, 3) <=> early # 0
    BY DEF HitAt
  <2> HIDE DEF s, cut, first, early, n, gold
  <2>3. ASSUME early # 0 PROVE first \in 1..3
    <3>1. early \in 1..n
      BY <1>2, <2>1, <2>3
    <3>2. early \in 1..Len(s) /\ s[early] \in gold /\ early <= 3
      BY <1>2, <1>4, <2>1, <2>3, <3>1
    <3>3. first # 0
      BY <1>1, <3>2
    <3>4. first <= early
      BY <1>1, <3>2, <3>3
    <3> QED
      BY <1>1, <1>4, <3>2, <3>3, <3>4
  <2>4. ASSUME first \in 1..3 PROVE early # 0
    <3>1. first \in 1..n
      BY <1>1, <1>2, <1>3, <1>4, <2>4
    <3>2. cut[first] \in gold
      BY <1>1, <1>2, <3>1
    <3> QED
      BY <1>2, <2>1, <3>1, <3>2
  <2> QED
    BY <2>2, <2>3, <2>4
<1>7. first \in 1..3 <=> c # 0
  <2>1. \A x : x \in top <=> \E i \in 1..n : s[i] = x
    BY <1>2 DEF ToSet
  <2>2. IsFiniteSet(top \cap gold)
    BY <1>5, SharedIsAll
  <2>3. c # 0 <=> top \cap gold # {}
    BY <2>2, FS_EmptySet
  <2> HIDE DEF s, top, first, n, gold, c
  <2>4. ASSUME first \in 1..3 PROVE top \cap gold # {}
    <3>1. first \in 1..n /\ s[first] \in gold
      BY <1>1, <1>2, <1>3, <1>4, <2>4
    <3> QED
      BY <2>1, <3>1
  <2>5. ASSUME top \cap gold # {} PROVE first \in 1..3
    <3>1. PICK i \in 1..n : s[i] \in gold
      BY <2>1, <2>5
    <3>2. i \in 1..Len(s) /\ i <= 3
      BY <1>2, <1>4
    <3>3. first # 0 /\ first <= i
      BY <1>1, <3>1, <3>2
    <3> QED
      BY <1>1, <1>4, <3>2, <3>3
  <2> QED
    BY <2>3, <2>4, <2>5
<1>8. /\ c \in Nat /\ c <= Cardinality(top) /\ c <= Cardinality(gold)
      /\ c = Cardinality(top) <=> top \subseteq gold
      /\ c = Cardinality(gold) <=> gold \subseteq top
  <2>1. top \cap gold = gold \cap top /\ IsFiniteSet(gold)
    OBVIOUS
  <2> HIDE DEF top, gold
  <2>2. c <= Cardinality(top) /\ (c = Cardinality(top) <=> top \subseteq gold)
    BY <1>5, SharedIsAll
  <2>3. /\ Cardinality(gold \cap top) \in Nat /\ Cardinality(gold \cap top) <= Cardinality(gold)
        /\ Cardinality(gold \cap top) = Cardinality(gold) <=> gold \subseteq top
    BY <2>1, SharedIsAll
  <2>4. c = Cardinality(gold \cap top)
    BY <2>1
  <2> HIDE DEF c
  <2> QED
    BY <2>2, <2>3, <2>4
<1>9. Cardinality(gold) \in Nat \ {0}
  BY FS_CardinalityType, FS_EmptySet
<1>10. m \in 1..3 /\ c <= m
       /\ (c = m <=> gold \subseteq top \/ (top \subseteq gold /\ Cardinality(top) = 3))
  <2>1. m = IF 3 < Cardinality(gold) THEN 3 ELSE Cardinality(gold)
    BY DEF AtMost
  <2> HIDE DEF m, c, top, gold
  <2> QED
    BY <1>5, <1>8, <1>9, <2>1
<1>11. ReciprocalRank(r) = IF first = 0 THEN 0 ELSE Unit \div first
  BY DEF ReciprocalRank
<1>12. RecallAt(r, 3) = (Unit * c) \div m
  BY DEF RecallAt
<1>13. Top1(r) <=> first = 1
  BY DEF Top1
<1>14. first \in Nat
  BY <1>1
<1> HIDE DEF s, gold, cut, top, first, n, c, m
<1>15. (first = 1 <=> ReciprocalRank(r) = Unit)
       /\ (first \in 1..3 <=> ReciprocalRank(r) * 3 >= Unit)
  BY <1>11, <1>14, RanksAgree
<1>16. (c # 0 <=> RecallAt(r, 3) > 0) /\ (c = m <=> RecallAt(r, 3) = Unit)
  BY <1>8, <1>10, <1>12, RecallAgrees
<1> QED
  BY <1>6, <1>7, <1>10, <1>13, <1>15, <1>16 DEF RowAgrees, RecallK, top, cut, s, gold

\* Branches, and the ends of a run that are none.
Routes == ValidRoutes \cup {"self_answered", "no_expert", "ask"}

QueryResults ==
  [ranked : Seq(Staff), gold : SUBSET Staff, alt : SUBSET Staff, route : Routes,
   goldRoute : ValidRoutes, layer : Difficulties, topics : Seq(Topics),
   goldTopics : SUBSET Topics, cited : SUBSET Sources, source : SUBSET Sources]

\* Measures of a row are numbers, those of its sources at most the whole.
LEMMA MeasuresIs ==
  ASSUME NEW r \in QueryResults
  PROVE  /\ ReciprocalRank(r) \in Nat
         /\ r.gold # {} => RecallAt(r, RecallK) \in Nat
         /\ r.source # {} => /\ SourceRecall(r) \in Nat /\ SourceRecall(r) <= Unit
                             /\ r.cited = {} => SourceRecall(r) = 0
<1>1. /\ r.ranked \in Seq(Staff) /\ r.gold \subseteq Staff /\ r.source \subseteq Sources
      /\ Unit \in Nat \ {0}
  BY UnitIs DEF QueryResults
<1>2. IsFiniteSet(r.gold) /\ IsFiniteSet(r.source)
  BY <1>1, FS_Subset, PipelineAssumption, EvaluationAssumption
<1>3. ReciprocalRank(r) \in Nat
  <2> DEFINE first == FirstHit(r.ranked, r.gold)
  <2>1. first \in 0..Len(r.ranked) /\ Len(r.ranked) \in Nat
    BY <1>1, FirstHitIs
  <2>2. ReciprocalRank(r) = IF first = 0 THEN 0 ELSE Unit \div first
    BY DEF ReciprocalRank
  <2> HIDE DEF first
  <2>3. first # 0 => Unit \div first \in Nat
    BY <1>1, <2>1, DivIs
  <2> QED
    BY <2>2, <2>3
<1>4. ASSUME r.gold # {} PROVE RecallAt(r, RecallK) \in Nat
  <2> DEFINE top == ToSet(Cut(r.ranked, RecallK))
             c == Cardinality(top \cap r.gold)
             m == AtMost(RecallK, Cardinality(r.gold))
  <2>1. top \cap r.gold = r.gold \cap top
    OBVIOUS
  <2>2. Cardinality(r.gold \cap top) \in Nat
    BY <1>2, SharedIsAll
  <2>3. c \in Nat
    BY <2>1, <2>2
  <2>4. Cardinality(r.gold) \in Nat \ {0}
    BY <1>2, <1>4, FS_CardinalityType, FS_EmptySet
  <2>5. m \in Nat \ {0}
    BY <2>4 DEF AtMost, RecallK
  <2>6. RecallAt(r, RecallK) = (Unit * c) \div m
    BY DEF RecallAt
  <2> HIDE DEF c, m
  <2>7. Unit * c \in Nat
    BY <1>1, <2>3
  <2> QED
    BY <2>5, <2>6, <2>7, DivIs
<1>5. ASSUME r.source # {}
      PROVE  /\ SourceRecall(r) \in Nat /\ SourceRecall(r) <= Unit
             /\ r.cited = {} => SourceRecall(r) = 0
  <2> DEFINE c == Cardinality(r.cited \cap r.source)
             m == Cardinality(r.source)
  <2>1. r.cited \cap r.source = r.source \cap r.cited
    OBVIOUS
  <2>2. Cardinality(r.source \cap r.cited) \in Nat
        /\ Cardinality(r.source \cap r.cited) <= Cardinality(r.source)
    BY <1>2, SharedIsAll
  <2>3. c \in Nat /\ c <= m
    BY <2>1, <2>2
  <2>4. m \in Nat \ {0}
    BY <1>2, <1>5, FS_CardinalityType, FS_EmptySet
  <2>5. SourceRecall(r) = (Unit * c) \div m
    BY DEF SourceRecall
  <2>6. r.cited = {} => c = 0
    <3>1. r.cited = {} => r.cited \cap r.source = {}
      OBVIOUS
    <3> QED
      BY <3>1, FS_EmptySet
  <2> HIDE DEF c, m
  <2>7. (Unit * c) \div m \in Nat /\ (Unit * c) \div m <= Unit
    BY <1>1, <2>3, <2>4, DivBounded
  <2>8. c = 0 => (Unit * c) \div m = 0
    <3>1. c = 0 => Unit * c = 0
      BY <1>1
    <3>2. 0 \div m = 0
      BY <2>4
    <3> QED
      BY <3>1, <3>2
  <2> QED
    BY <2>5, <2>6, <2>7, <2>8
<1> QED
  BY <1>3, <1>4, <1>5

Figures ==
  {"n", "n_ranked", "n_routed", "n_abstain", "top1", "recall", "hit", "mrr", "route", "abstain"}

\* What a row adds to a figure.
Worth(k, r) ==
  CASE k = "n"         -> 1
    [] k = "n_ranked"  -> IF r.gold # {} THEN 1 ELSE 0
    [] k = "n_routed"  -> IF r.goldRoute # "none" THEN 1 ELSE 0
    [] k = "n_abstain" -> IF r.goldRoute = "none" THEN 1 ELSE 0
    [] k = "top1"      -> IF r.gold # {} THEN IF Top1(r) THEN 1 ELSE 0 ELSE 0
    [] k = "recall"    -> IF r.gold # {} THEN RecallAt(r, RecallK) ELSE 0
    [] k = "hit"       -> IF r.gold # {} THEN IF HitAt(r, RecallK) THEN 1 ELSE 0 ELSE 0
    [] k = "mrr"       -> IF r.gold # {} THEN ReciprocalRank(r) ELSE 0
    [] k = "route"     -> IF r.goldRoute # "none" THEN IF r.route = r.goldRoute THEN 1 ELSE 0 ELSE 0
    [] k = "abstain"   -> IF r.goldRoute = "none" THEN IF r.ranked = <<>> THEN 1 ELSE 0 ELSE 0

Worths(k) == [r \in QueryResults |-> Worth(k, r)]

LEMMA WorthsIs ==
  ASSUME NEW k \in Figures
  PROVE  Worths(k) \in [QueryResults -> Int]
<1>1. ASSUME NEW r \in QueryResults PROVE Worth(k, r) \in Int
  <2>1. ReciprocalRank(r) \in Int /\ (r.gold # {} => RecallAt(r, RecallK) \in Int)
    BY MeasuresIs
  <2> QED
    BY <2>1 DEF Worth, Figures
<1> QED
  BY <1>1 DEF Worths

\* A filtered list is as long as its rows are many.
LEMMA ThoseCounted ==
  ASSUME NEW rows \in Seq(QueryResults), NEW S
  PROVE  /\ Only(rows, S) \in Seq(QueryResults)
         /\ Len(Only(rows, S)) = SumOf(rows, [r \in QueryResults |-> IF r \in S THEN 1 ELSE 0])
<1> DEFINE one == [r \in QueryResults |-> 1]
<1>1. one \in [QueryResults -> Int] /\ \A r \in QueryResults : one[r] = 1
  OBVIOUS
<1>2. [r \in QueryResults |-> IF r \in S THEN one[r] ELSE 0]
        = [r \in QueryResults |-> IF r \in S THEN 1 ELSE 0]
  OBVIOUS
<1> HIDE DEF one
<1>3. /\ Only(rows, S) \in Seq(QueryResults)
      /\ SumOf(Only(rows, S), one)
           = SumOf(rows, [r \in QueryResults |-> IF r \in S THEN one[r] ELSE 0])
  BY <1>1, SumOfOnly
<1>4. SumOf(Only(rows, S), one) = Len(Only(rows, S))
  BY <1>1, <1>3, SumOfOnes
<1> QED
  BY <1>2, <1>3, <1>4

\* The rows of each kind.
OfRanked == {r \in QueryResults : r.gold # {}}
OfRouted == {r \in QueryResults : r.goldRoute # "none"}
OfAbstain == {r \in QueryResults : r.goldRoute = "none"}

LEMMA KindsAre ==
  ASSUME NEW rows \in Seq(QueryResults)
  PROVE  /\ Ranked(rows) = Only(rows, OfRanked)
         /\ Routed(rows) = Only(rows, OfRouted)
         /\ Abstain(rows) = Only(rows, OfAbstain)
<1>1. \A i \in DOMAIN rows : rows[i] \in QueryResults
  OBVIOUS
<1>2. /\ {i \in DOMAIN rows : rows[i].gold # {}} = {i \in DOMAIN rows : rows[i] \in OfRanked}
      /\ {i \in DOMAIN rows : rows[i].goldRoute # "none"} = {i \in DOMAIN rows : rows[i] \in OfRouted}
      /\ {i \in DOMAIN rows : rows[i].goldRoute = "none"} = {i \in DOMAIN rows : rows[i] \in OfAbstain}
  BY <1>1 DEF OfRanked, OfRouted, OfAbstain
<1> QED
  BY <1>2 DEF Ranked, Routed, Abstain, Those, Only

\* A figure over the rows of a kind: what each adds, if it is of the kind.
LEMMA FigureOf ==
  ASSUME NEW rows \in Seq(QueryResults), NEW S, NEW value \in [QueryResults -> Int],
         NEW k \in Figures,
         \A r \in QueryResults : Worth(k, r) = IF r \in S THEN value[r] ELSE 0
  PROVE  SumOf(Only(rows, S), value) = SumOf(rows, Worths(k))
<1>1. SumOf(Only(rows, S), value)
        = SumOf(rows, [r \in QueryResults |-> IF r \in S THEN value[r] ELSE 0])
  BY SumOfOnly
<1>2. Worths(k) = [r \in QueryResults |-> IF r \in S THEN value[r] ELSE 0]
  BY DEF Worths
<1> QED
  BY <1>1, <1>2

\* Every figure of an evaluation is what its rows add to it.
LEMMA EvaluateIs ==
  ASSUME NEW rows \in Seq(QueryResults)
  PROVE  /\ DOMAIN Evaluate(rows) = Figures
         /\ \A k \in Figures : Evaluate(rows)[k] = SumOf(rows, Worths(k))
<1> DEFINE ranked == Ranked(rows)
           routed == Routed(rows)
           abstain == Abstain(rows)
<1>1. ranked = Only(rows, OfRanked) /\ routed = Only(rows, OfRouted) /\ abstain = Only(rows, OfAbstain)
  BY KindsAre
<1>2. ranked \in Seq(QueryResults) /\ routed \in Seq(QueryResults) /\ abstain \in Seq(QueryResults)
  BY <1>1, ThoseCounted
<1>3. /\ \A r \in QueryResults : r \in OfRanked <=> r.gold # {}
      /\ \A r \in QueryResults : r \in OfRouted <=> r.goldRoute # "none"
      /\ \A r \in QueryResults : r \in OfAbstain <=> r.goldRoute = "none"
  BY DEF OfRanked, OfRouted, OfAbstain
<1>4. /\ DOMAIN Evaluate(rows) = Figures
      /\ Evaluate(rows)["n"] = Len(rows)
      /\ Evaluate(rows)["n_ranked"] = Len(ranked)
      /\ Evaluate(rows)["n_routed"] = Len(routed)
      /\ Evaluate(rows)["n_abstain"] = Len(abstain)
      /\ Evaluate(rows)["top1"] = Count(ranked, Top1)
      /\ Evaluate(rows)["recall"] = Total(ranked, LAMBDA r : RecallAt(r, RecallK))
      /\ Evaluate(rows)["hit"] = Count(ranked, LAMBDA r : HitAt(r, RecallK))
      /\ Evaluate(rows)["mrr"] = Total(ranked, ReciprocalRank)
      /\ Evaluate(rows)["route"] = Count(routed, LAMBDA r : r.route = r.goldRoute)
      /\ Evaluate(rows)["abstain"] = Count(abstain, LAMBDA r : r.ranked = <<>>)
  BY DEF Evaluate, Figures
<1> HIDE DEF ranked, routed, abstain
<1>5. Evaluate(rows)["n"] = SumOf(rows, Worths("n"))
  <2>1. Worths("n") \in [QueryResults -> Int] /\ \A r \in QueryResults : Worths("n")[r] = 1
    <3>1. Worths("n") \in [QueryResults -> Int]
      BY WorthsIs DEF Figures
    <3> QED
      BY <3>1 DEF Worths, Worth
  <2>2. SumOf(rows, Worths("n")) = Len(rows)
    BY <2>1, SumOfOnes
  <2> QED
    BY <1>4, <2>2
<1>6. Evaluate(rows)["n_ranked"] = SumOf(rows, Worths("n_ranked"))
  <2>1. Worths("n_ranked") = [r \in QueryResults |-> IF r \in OfRanked THEN 1 ELSE 0]
    BY <1>3 DEF Worths, Worth
  <2>2. Len(Only(rows, OfRanked)) = SumOf(rows, Worths("n_ranked"))
    BY <2>1, ThoseCounted
  <2> QED
    BY <1>1, <1>4, <2>2
<1>7. Evaluate(rows)["n_routed"] = SumOf(rows, Worths("n_routed"))
  <2>1. Worths("n_routed") = [r \in QueryResults |-> IF r \in OfRouted THEN 1 ELSE 0]
    BY <1>3 DEF Worths, Worth
  <2>2. Len(Only(rows, OfRouted)) = SumOf(rows, Worths("n_routed"))
    BY <2>1, ThoseCounted
  <2> QED
    BY <1>1, <1>4, <2>2
<1>8. Evaluate(rows)["n_abstain"] = SumOf(rows, Worths("n_abstain"))
  <2>1. Worths("n_abstain") = [r \in QueryResults |-> IF r \in OfAbstain THEN 1 ELSE 0]
    BY <1>3 DEF Worths, Worth
  <2>2. Len(Only(rows, OfAbstain)) = SumOf(rows, Worths("n_abstain"))
    BY <2>1, ThoseCounted
  <2> QED
    BY <1>1, <1>4, <2>2
<1>9. Evaluate(rows)["top1"] = SumOf(rows, Worths("top1"))
  <2> DEFINE value == [r \in QueryResults |-> IF Top1(r) THEN 1 ELSE 0]
  <2>1. value \in [QueryResults -> Int]
    OBVIOUS
  <2>2. \A i \in DOMAIN ranked : ranked[i] \in QueryResults
    BY <1>2
  <2>3. Evaluate(rows)["top1"] = SumOf(ranked, value)
    BY <1>4, <2>2 DEF SumOf, Count, Total
  <2>4. \A r \in QueryResults : Worth("top1", r) = IF r \in OfRanked THEN value[r] ELSE 0
    BY <1>3 DEF Worth
  <2>5. "top1" \in Figures
    BY DEF Figures
  <2> HIDE DEF value
  <2> QED
    BY <1>1, <2>1, <2>3, <2>4, <2>5, FigureOf
<1>10. Evaluate(rows)["recall"] = SumOf(rows, Worths("recall"))
  <2> DEFINE value == [r \in QueryResults |-> IF r.gold # {} THEN RecallAt(r, RecallK) ELSE 0]
  <2>1. value \in [QueryResults -> Int]
    BY MeasuresIs
  <2>2. \A i \in DOMAIN ranked : ranked[i] \in QueryResults /\ ranked[i].gold # {}
    <3>1. Only(rows, OfRanked) \in Seq(QueryResults \cap OfRanked)
      BY OnlyList
    <3>2. \A i \in DOMAIN ranked : ranked[i] \in QueryResults /\ ranked[i] \in OfRanked
      BY <1>1, <3>1
    <3> QED
      BY <1>3, <3>2
  <2>3. Evaluate(rows)["recall"] = SumOf(ranked, value)
    BY <1>4, <2>2 DEF SumOf, Total
  <2>4. \A r \in QueryResults : Worth("recall", r) = IF r \in OfRanked THEN value[r] ELSE 0
    BY <1>3 DEF Worth
  <2>5. "recall" \in Figures
    BY DEF Figures
  <2> HIDE DEF value
  <2> QED
    BY <1>1, <2>1, <2>3, <2>4, <2>5, FigureOf
<1>11. Evaluate(rows)["hit"] = SumOf(rows, Worths("hit"))
  <2> DEFINE value == [r \in QueryResults |-> IF HitAt(r, RecallK) THEN 1 ELSE 0]
  <2>1. value \in [QueryResults -> Int]
    BY MeasuresIs
  <2>2. \A i \in DOMAIN ranked : ranked[i] \in QueryResults
    BY <1>2
  <2>3. Evaluate(rows)["hit"] = SumOf(ranked, value)
    BY <1>4, <2>2 DEF SumOf, Count, Total
  <2>4. \A r \in QueryResults : Worth("hit", r) = IF r \in OfRanked THEN value[r] ELSE 0
    BY <1>3 DEF Worth
  <2>5. "hit" \in Figures
    BY DEF Figures
  <2> HIDE DEF value
  <2> QED
    BY <1>1, <2>1, <2>3, <2>4, <2>5, FigureOf
<1>12. Evaluate(rows)["mrr"] = SumOf(rows, Worths("mrr"))
  <2> DEFINE value == [r \in QueryResults |-> ReciprocalRank(r)]
  <2>1. value \in [QueryResults -> Int]
    BY MeasuresIs
  <2>2. \A i \in DOMAIN ranked : ranked[i] \in QueryResults
    BY <1>2
  <2>3. Evaluate(rows)["mrr"] = SumOf(ranked, value)
    BY <1>4, <2>2 DEF SumOf, Total
  <2>4. \A r \in QueryResults : Worth("mrr", r) = IF r \in OfRanked THEN value[r] ELSE 0
    BY <1>3 DEF Worth
  <2>5. "mrr" \in Figures
    BY DEF Figures
  <2> HIDE DEF value
  <2> QED
    BY <1>1, <2>1, <2>3, <2>4, <2>5, FigureOf
<1>13. Evaluate(rows)["route"] = SumOf(rows, Worths("route"))
  <2> DEFINE value == [r \in QueryResults |-> IF r.route = r.goldRoute THEN 1 ELSE 0]
  <2>1. value \in [QueryResults -> Int]
    OBVIOUS
  <2>2. \A i \in DOMAIN routed : routed[i] \in QueryResults
    BY <1>2
  <2>3. Evaluate(rows)["route"] = SumOf(routed, value)
    BY <1>4, <2>2 DEF SumOf, Count, Total
  <2>4. \A r \in QueryResults : Worth("route", r) = IF r \in OfRouted THEN value[r] ELSE 0
    BY <1>3 DEF Worth
  <2>5. "route" \in Figures
    BY DEF Figures
  <2> HIDE DEF value
  <2> QED
    BY <1>1, <2>1, <2>3, <2>4, <2>5, FigureOf
<1>14. Evaluate(rows)["abstain"] = SumOf(rows, Worths("abstain"))
  <2> DEFINE value == [r \in QueryResults |-> IF r.ranked = <<>> THEN 1 ELSE 0]
  <2>1. value \in [QueryResults -> Int]
    OBVIOUS
  <2>2. \A i \in DOMAIN abstain : abstain[i] \in QueryResults
    BY <1>2
  <2>3. Evaluate(rows)["abstain"] = SumOf(abstain, value)
    BY <1>4, <2>2 DEF SumOf, Count, Total
  <2>4. \A r \in QueryResults : Worth("abstain", r) = IF r \in OfAbstain THEN value[r] ELSE 0
    BY <1>3 DEF Worth
  <2>5. "abstain" \in Figures
    BY DEF Figures
  <2> HIDE DEF value
  <2> QED
    BY <1>1, <2>1, <2>3, <2>4, <2>5, FigureOf
<1> QED
  BY <1>4, <1>5, <1>6, <1>7, <1>8, <1>9, <1>10, <1>11, <1>12, <1>13, <1>14 DEF Figures

\* Two measures put together, row by row.
Plus(a, b) == [r \in QueryResults |-> a[r] + b[r]]

LEMMA RowsSplit ==
  ASSUME NEW a \in [QueryResults -> Int], NEW b \in [QueryResults -> Int],
         NEW rows \in Seq(QueryResults)
  PROVE  /\ Plus(a, b) \in [QueryResults -> Int]
         /\ SumOf(rows, Plus(a, b)) = SumOf(rows, a) + SumOf(rows, b)
<1>1. Plus(a, b) \in [QueryResults -> Int] /\ \A r \in QueryResults : Plus(a, b)[r] = a[r] + b[r]
  BY DEF Plus
<1>2. \A i \in 1..Len(rows) : Plus(a, b)[rows[i]] = a[rows[i]] + b[rows[i]]
  <2>1. \A i \in 1..Len(rows) : rows[i] \in QueryResults
    OBVIOUS
  <2> QED
    BY <1>1, <2>1
<1> QED
  BY <1>1, <1>2, SumOfSplits

\* A measure no larger row by row is no larger in all.
LEMMA RowsOrdered ==
  ASSUME NEW a \in [QueryResults -> Int], NEW b \in [QueryResults -> Int],
         \A r \in QueryResults : a[r] <= b[r], NEW rows \in Seq(QueryResults)
  PROVE  SumOf(rows, a) <= SumOf(rows, b)
<1>1. \A i \in 1..Len(rows) : a[rows[i]] <= 1 * b[rows[i]]
  <2>1. \A i \in 1..Len(rows) : rows[i] \in QueryResults
    OBVIOUS
  <2>2. \A r \in QueryResults : a[r] <= 1 * b[r]
    OBVIOUS
  <2> QED
    BY <2>1, <2>2
<1>2. SumOf(rows, a) <= 1 * SumOf(rows, b)
  <2> DEFINE u == 1
  <2>1. u \in Nat /\ \A i \in 1..Len(rows) : a[rows[i]] <= u * b[rows[i]]
    BY <1>1
  <2> HIDE DEF u
  <2>2. SumOf(rows, a) <= u * SumOf(rows, b)
    BY <2>1, SumOfOrdered
  <2> QED
    BY <2>2 DEF u
<1>3. SumOf(rows, b) \in Int
  BY ValuesIs
<1> QED
  BY <1>2, <1>3

\* Rows worth nothing are worth nothing together.
LEMMA SumOfNothing ==
  ASSUME NEW v \in [QueryResults -> Int], NEW rows \in Seq(QueryResults),
         \A i \in 1..Len(rows) : v[rows[i]] = 0
  PROVE  SumOf(rows, v) = 0
<1>1. SumOf(rows, v) = SumOf(rows, v) + SumOf(rows, v)
  <2>1. \A i \in 1..Len(rows) : v[rows[i]] = v[rows[i]] + v[rows[i]]
    OBVIOUS
  <2> QED
    BY <2>1, SumOfSplits
<1>2. SumOf(rows, v) \in Int
  BY ValuesIs
<1> QED
  BY <1>1, <1>2

\* What a row of a layer adds.
OfLayer(l) == {r \in QueryResults : r.layer = l}

InLayer(k, l) == [r \in QueryResults |-> IF r \in OfLayer(l) THEN Worths(k)[r] ELSE 0]

LEMMA InLayerIs ==
  ASSUME NEW k \in Figures, NEW l
  PROVE  InLayer(k, l) \in [QueryResults -> Int]
<1>1. Worths(k) \in [QueryResults -> Int]
  BY WorthsIs
<1> HIDE DEF Worths
<1> QED
  BY <1>1 DEF InLayer

\* A layer's figure is what its rows add, and nothing without rows.
LEMMA LayerIs ==
  ASSUME NEW rows \in Seq(QueryResults), NEW k \in Figures, NEW l
  PROVE  (IF l \in DOMAIN ByDifficulty(rows) THEN ByDifficulty(rows)[l][k] ELSE 0)
           = SumOf(rows, InLayer(k, l))
<1> DEFINE part == Only(rows, OfLayer(l))
<1>1. \A i \in 1..Len(rows) : rows[i] \in QueryResults
  OBVIOUS
<1>2. CASE l \in DOMAIN ByDifficulty(rows)
  <2>1. Those(rows, LAMBDA r : r.layer = l) = part
    <3>1. {i \in DOMAIN rows : rows[i].layer = l} = {i \in DOMAIN rows : rows[i] \in OfLayer(l)}
      BY <1>1 DEF OfLayer
    <3> QED
      BY <3>1 DEF Those, Only
  <2>2. ByDifficulty(rows)[l] = Evaluate(part)
    BY <1>2, <2>1 DEF ByDifficulty
  <2>3. part \in Seq(QueryResults)
    BY ThoseCounted
  <2>4. Evaluate(part)[k] = SumOf(part, Worths(k))
    BY <2>3, EvaluateIs
  <2>5. SumOf(part, Worths(k)) = SumOf(rows, InLayer(k, l))
    BY WorthsIs, SumOfOnly DEF InLayer
  <2> QED
    BY <1>2, <2>2, <2>4, <2>5
<1>3. CASE l \notin DOMAIN ByDifficulty(rows)
  <2>1. DOMAIN ByDifficulty(rows) = {rows[i].layer : i \in DOMAIN rows}
    BY DEF ByDifficulty
  <2>2. \A i \in 1..Len(rows) : rows[i].layer # l
    BY <1>3, <2>1
  <2>3. \A i \in 1..Len(rows) : InLayer(k, l)[rows[i]] = 0
    BY <1>1, <2>2 DEF InLayer, OfLayer
  <2>4. SumOf(rows, InLayer(k, l)) = 0
    BY <2>3, InLayerIs, SumOfNothing
  <2> QED
    BY <1>3, <2>4
<1> QED
  BY <1>2, <1>3

\* Every row is in one of the four layers.
LEMMA LayersAddUp ==
  ASSUME NEW rows \in Seq(QueryResults), NEW k \in Figures
  PROVE  Evaluate(rows)[k] = OverLayers(ByDifficulty(rows), k)
<1> DEFINE a == InLayer(k, "L1")
           b == InLayer(k, "L2")
           c == InLayer(k, "L3")
           d == InLayer(k, "L4")
           w == Worths(k)
<1>1. /\ a \in [QueryResults -> Int] /\ b \in [QueryResults -> Int]
      /\ c \in [QueryResults -> Int] /\ d \in [QueryResults -> Int]
      /\ w \in [QueryResults -> Int]
  BY InLayerIs, WorthsIs
<1>2. \A r \in QueryResults : w[r] = a[r] + b[r] + (c[r] + d[r])
  <2>1. \A r \in QueryResults : r.layer \in {"L1", "L2", "L3", "L4"}
    BY DEF QueryResults, Difficulties
  <2> HIDE DEF w
  <2> QED
    BY <1>1, <2>1 DEF InLayer, OfLayer, w
<1> HIDE DEF a, b, c, d, w
<1>3. Plus(a, b) \in [QueryResults -> Int] /\ Plus(c, d) \in [QueryResults -> Int]
  BY <1>1, RowsSplit
<1>4. w = Plus(Plus(a, b), Plus(c, d))
  <2>1. w = [r \in QueryResults |-> a[r] + b[r] + (c[r] + d[r])]
    BY <1>1, <1>2
  <2> QED
    BY <2>1 DEF Plus
<1>5. SumOf(rows, Plus(a, b)) = SumOf(rows, a) + SumOf(rows, b)
  BY <1>1, RowsSplit
<1>6. SumOf(rows, Plus(c, d)) = SumOf(rows, c) + SumOf(rows, d)
  BY <1>1, RowsSplit
<1>7. SumOf(rows, w) = SumOf(rows, Plus(a, b)) + SumOf(rows, Plus(c, d))
  BY <1>3, <1>4, RowsSplit
<1>8. /\ SumOf(rows, a) \in Int /\ SumOf(rows, b) \in Int
      /\ SumOf(rows, c) \in Int /\ SumOf(rows, d) \in Int
  <2>1. ASSUME NEW x \in [QueryResults -> Int] PROVE SumOf(rows, x) \in Int
    BY ValuesIs
  <2> QED
    BY <1>1, <2>1
<1>9. Evaluate(rows)[k] = SumOf(rows, w)
  BY EvaluateIs DEF w
<1>10. OverLayers(ByDifficulty(rows), k)
         = SumOf(rows, a) + SumOf(rows, b) + SumOf(rows, c) + SumOf(rows, d)
  <2>1. \A l : (IF l \in DOMAIN ByDifficulty(rows) THEN ByDifficulty(rows)[l][k] ELSE 0)
                = SumOf(rows, InLayer(k, l))
    BY LayerIs
  <2> HIDE DEF ByDifficulty, InLayer, SumOf
  <2> QED
    BY <2>1 DEF OverLayers, a, b, c, d
<1> QED
  BY <1>5, <1>6, <1>7, <1>8, <1>9, <1>10

\* What a row adds to what a decision should have been, and was.
Supports(d) == [r \in QueryResults |-> IF DecisionOf(r.goldRoute) = d THEN 1 ELSE 0]

Meets(d) ==
  [r \in QueryResults |->
     IF DecisionOf(r.goldRoute) = d /\ DecisionOf(r.route) = d THEN 1 ELSE 0]

LEMMA DecisionIs ==
  ASSUME NEW rows \in Seq(QueryResults), NEW d, d # "unknown"
  PROVE  /\ (IF d \in DOMAIN Decisions(rows) THEN Decisions(rows)[d]["support"] ELSE 0)
              = SumOf(rows, Supports(d))
         /\ (IF d \in DOMAIN Decisions(rows) THEN Decisions(rows)[d]["hits"] ELSE 0)
              = SumOf(rows, Meets(d))
<1>1. \A i \in DOMAIN rows : rows[i] \in QueryResults
  OBVIOUS
<1>2. DOMAIN Decisions(rows) = {DecisionOf(rows[i].goldRoute) : i \in DOMAIN rows} \ {"unknown"}
  BY DEF Decisions
<1>3. Supports(d) \in [QueryResults -> Int] /\ Meets(d) \in [QueryResults -> Int]
  BY DEF Supports, Meets
<1>4. CASE d \in DOMAIN Decisions(rows)
  <2>1. Decisions(rows)[d] =
          [support |-> Count(rows, LAMBDA r : DecisionOf(r.goldRoute) = d),
           hits    |-> Count(rows, LAMBDA r : /\ DecisionOf(r.goldRoute) = d
                                              /\ DecisionOf(r.route) = d)]
    BY <1>4 DEF Decisions
  <2>2. Count(rows, LAMBDA r : DecisionOf(r.goldRoute) = d) = SumOf(rows, Supports(d))
    BY <1>1 DEF Count, Total, SumOf, Supports
  <2>3. Count(rows, LAMBDA r : /\ DecisionOf(r.goldRoute) = d
                               /\ DecisionOf(r.route) = d) = SumOf(rows, Meets(d))
    BY <1>1 DEF Count, Total, SumOf, Meets
  <2> QED
    BY <1>4, <2>1, <2>2, <2>3
<1>5. CASE d \notin DOMAIN Decisions(rows)
  <2>1. \A i \in 1..Len(rows) : DecisionOf(rows[i].goldRoute) # d /\ rows[i] \in QueryResults
    BY <1>1, <1>2, <1>5
  <2>2. \A i \in 1..Len(rows) : Supports(d)[rows[i]] = 0 /\ Meets(d)[rows[i]] = 0
    BY <2>1 DEF Supports, Meets
  <2>3. SumOf(rows, Supports(d)) = 0
    BY <1>3, <2>2, SumOfNothing
  <2>4. SumOf(rows, Meets(d)) = 0
    BY <1>3, <2>2, SumOfNothing
  <2> QED
    BY <1>5, <2>3, <2>4
<1> QED
  BY <1>4, <1>5

\* A gold route asks for one of three decisions, and a route that was met for its own.
LEMMA DecisionsCover ==
  ASSUME NEW r \in QueryResults
  PROVE  /\ DecisionOf(r.goldRoute) \in DecisionClasses
         /\ r.goldRoute # "none" /\ r.route = r.goldRoute => DecisionOf(r.route) = DecisionOf(r.goldRoute)
BY DEF QueryResults, ValidRoutes, DecisionOf, DecisionClasses

\* The decisions split the rows, and a route met is a decision met.
LEMMA DecisionsAddUp ==
  ASSUME NEW rows \in Seq(QueryResults)
  PROVE  /\ DOMAIN Decisions(rows) \subseteq DecisionClasses
         /\ Evaluate(rows)["n"] = OverDecisions(Decisions(rows), "support")
         /\ Evaluate(rows)["route"] <= OverDecisions(Decisions(rows), "hits")
<1>1. DOMAIN Decisions(rows) \subseteq DecisionClasses
  <2>1. \A i \in DOMAIN rows : rows[i] \in QueryResults
    OBVIOUS
  <2>2. \A i \in DOMAIN rows : DecisionOf(rows[i].goldRoute) \in DecisionClasses
    BY <2>1, DecisionsCover
  <2> QED
    BY <2>2 DEF Decisions
<1>2. /\ OverDecisions(Decisions(rows), "support")
           = SumOf(rows, Supports("self_answer")) + SumOf(rows, Supports("route"))
               + SumOf(rows, Supports("abstain"))
      /\ OverDecisions(Decisions(rows), "hits")
           = SumOf(rows, Meets("self_answer")) + SumOf(rows, Meets("route"))
               + SumOf(rows, Meets("abstain"))
  <2>1. "self_answer" # "unknown" /\ "route" # "unknown" /\ "abstain" # "unknown"
    OBVIOUS
  <2>2. \A d : d # "unknown" =>
          /\ (IF d \in DOMAIN Decisions(rows) THEN Decisions(rows)[d]["support"] ELSE 0)
               = SumOf(rows, Supports(d))
          /\ (IF d \in DOMAIN Decisions(rows) THEN Decisions(rows)[d]["hits"] ELSE 0)
               = SumOf(rows, Meets(d))
    BY DecisionIs
  <2> HIDE DEF Decisions, Supports, Meets, SumOf
  <2> QED
    BY <2>1, <2>2 DEF OverDecisions
<1>3. "n" \in Figures /\ "route" \in Figures
  BY DEF Figures
<1>4. /\ Evaluate(rows)["n"] = SumOf(rows, Worths("n"))
      /\ Evaluate(rows)["route"] = SumOf(rows, Worths("route"))
  BY <1>3, EvaluateIs
<1>5. SumOf(rows, Worths("n"))
        = SumOf(rows, Supports("self_answer")) + SumOf(rows, Supports("route"))
            + SumOf(rows, Supports("abstain"))
  <2> DEFINE a == Supports("self_answer")
             b == Supports("route")
             c == Supports("abstain")
             w == Worths("n")
  <2>1. /\ a \in [QueryResults -> Int] /\ b \in [QueryResults -> Int]
        /\ c \in [QueryResults -> Int] /\ w \in [QueryResults -> Int]
    BY <1>3, WorthsIs DEF Supports
  <2>2. \A r \in QueryResults : w[r] = (a[r] + b[r]) + c[r]
    BY DecisionsCover DEF Worths, Worth, Supports, DecisionClasses
  <2> HIDE DEF a, b, c, w
  <2>3. w = Plus(Plus(a, b), c)
    <3>1. w = [r \in QueryResults |-> (a[r] + b[r]) + c[r]]
      BY <2>1, <2>2
    <3> QED
      BY <3>1 DEF Plus
  <2>4. Plus(a, b) \in [QueryResults -> Int]
        /\ SumOf(rows, Plus(a, b)) = SumOf(rows, a) + SumOf(rows, b)
    BY <2>1, RowsSplit
  <2>5. SumOf(rows, w) = SumOf(rows, Plus(a, b)) + SumOf(rows, c)
    BY <2>1, <2>3, <2>4, RowsSplit
  <2> QED
    BY <2>4, <2>5 DEF a, b, c, w
<1>6. SumOf(rows, Worths("route"))
        <= SumOf(rows, Meets("self_answer")) + SumOf(rows, Meets("route"))
             + SumOf(rows, Meets("abstain"))
  <2> DEFINE a == Meets("self_answer")
             b == Meets("route")
             c == Meets("abstain")
             w == Worths("route")
             all == Plus(Plus(a, b), c)
  <2>1. /\ a \in [QueryResults -> Int] /\ b \in [QueryResults -> Int]
        /\ c \in [QueryResults -> Int] /\ w \in [QueryResults -> Int]
    BY <1>3, WorthsIs DEF Meets
  <2>2. \A r \in QueryResults : w[r] <= (a[r] + b[r]) + c[r]
    BY DecisionsCover DEF Worths, Worth, Meets, DecisionClasses
  <2> HIDE DEF a, b, c, w
  <2>3. \A r \in QueryResults : w[r] <= all[r]
    BY <2>1, <2>2 DEF Plus
  <2>4. Plus(a, b) \in [QueryResults -> Int]
        /\ SumOf(rows, Plus(a, b)) = SumOf(rows, a) + SumOf(rows, b)
    BY <2>1, RowsSplit
  <2>5. all \in [QueryResults -> Int]
        /\ SumOf(rows, all) = SumOf(rows, Plus(a, b)) + SumOf(rows, c)
    BY <2>1, <2>4, RowsSplit
  <2> HIDE DEF all
  <2>6. SumOf(rows, w) <= SumOf(rows, all)
    BY <2>1, <2>3, <2>5, RowsOrdered
  <2> QED
    BY <2>4, <2>5, <2>6 DEF a, b, c, w
<1> QED
  BY <1>1, <1>2, <1>4, <1>5, <1>6

\* Who owes a decision and who abstains are all.
LEMMA RoutedOrAbstains ==
  ASSUME NEW rows \in Seq(QueryResults)
  PROVE  Evaluate(rows)["n"] = Evaluate(rows)["n_routed"] + Evaluate(rows)["n_abstain"]
<1> DEFINE a == Worths("n_routed")
           b == Worths("n_abstain")
<1>1. "n" \in Figures /\ "n_routed" \in Figures /\ "n_abstain" \in Figures
  BY DEF Figures
<1>2. a \in [QueryResults -> Int] /\ b \in [QueryResults -> Int]
  BY <1>1, WorthsIs
<1>3. Worths("n") = Plus(a, b)
  BY DEF Worths, Worth, Plus
<1>4. /\ Evaluate(rows)["n"] = SumOf(rows, Worths("n"))
      /\ Evaluate(rows)["n_routed"] = SumOf(rows, a)
      /\ Evaluate(rows)["n_abstain"] = SumOf(rows, b)
  BY <1>1, EvaluateIs
<1> HIDE DEF a, b
<1>5. SumOf(rows, Plus(a, b)) = SumOf(rows, a) + SumOf(rows, b)
  BY <1>2, RowsSplit
<1> QED
  BY <1>3, <1>4, <1>5

\* A topic that is right as the first guess is right among three.
LEMMA TopicsAgree ==
  ASSUME NEW rows \in Seq(QueryResults)
  PROVE  TopicAccuracy(rows).at1 <= TopicAccuracy(rows).at3
<1> DEFINE S == {r \in QueryResults : r.goldTopics # {}}
           scored == Only(rows, S)
           one == [r \in QueryResults |-> IF TopicHitAt(r, 1) THEN 1 ELSE 0]
           three == [r \in QueryResults |-> IF TopicHitAt(r, 3) THEN 1 ELSE 0]
<1>1. \A i \in DOMAIN rows : rows[i] \in QueryResults
  OBVIOUS
<1>2. Those(rows, LAMBDA r : r.goldTopics # {}) = scored
  <2>1. {i \in DOMAIN rows : rows[i].goldTopics # {}} = {i \in DOMAIN rows : rows[i] \in S}
    BY <1>1
  <2> QED
    BY <2>1 DEF Those, Only
<1>3. scored \in Seq(QueryResults)
  BY ThoseCounted
<1>4. /\ TopicAccuracy(rows).at1 = Count(scored, LAMBDA r : TopicHitAt(r, 1))
      /\ TopicAccuracy(rows).at3 = Count(scored, LAMBDA r : TopicHitAt(r, 3))
  BY <1>2 DEF TopicAccuracy
<1> HIDE DEF scored
<1>5. \A i \in DOMAIN scored : scored[i] \in QueryResults
  BY <1>3
<1>6. TopicAccuracy(rows).at1 = SumOf(scored, one) /\ TopicAccuracy(rows).at3 = SumOf(scored, three)
  BY <1>4, <1>5 DEF Count, Total, SumOf
<1>7. one \in [QueryResults -> Int] /\ three \in [QueryResults -> Int]
  OBVIOUS
<1>8. ASSUME NEW r \in QueryResults, TopicHitAt(r, 1) PROVE TopicHitAt(r, 3)
  <2> DEFINE s == r.topics
             x == 1
             y == 3
  <2>1. s \in Seq(Topics) /\ x \in Nat /\ y \in Nat
    BY DEF QueryResults
  <2>2. PICK g \in ToSet(Cut(s, x)) : g \in r.goldTopics
    BY <1>8 DEF TopicHitAt
  <2> HIDE DEF s, x, y
  <2>3. /\ DOMAIN Cut(s, x) = 1..AtMost(Len(s), x)
        /\ \A i \in 1..AtMost(Len(s), x) : Cut(s, x)[i] = s[i]
    BY <2>1, CutList
  <2>4. /\ DOMAIN Cut(s, y) = 1..AtMost(Len(s), y)
        /\ \A i \in 1..AtMost(Len(s), y) : Cut(s, y)[i] = s[i]
    BY <2>1, CutList
  <2>5. PICK i \in 1..AtMost(Len(s), x) : s[i] = g
    BY <2>2, <2>3 DEF ToSet
  <2>6. i \in 1..AtMost(Len(s), y)
    <3>1. Len(s) \in Nat
      BY <2>1
    <3> QED
      BY <2>5, <3>1 DEF AtMost, x, y
  <2>7. g \in ToSet(Cut(s, y))
    BY <2>4, <2>5, <2>6 DEF ToSet
  <2> QED
    BY <2>2, <2>7 DEF TopicHitAt, s, y
<1>9. \A r \in QueryResults : one[r] <= three[r]
  BY <1>8
<1> HIDE DEF one, three
<1> QED
  BY <1>3, <1>6, <1>7, <1>9, RowsOrdered

\* What is recalled of the sources is at most everything for each row that cites.
LEMMA SourcesAgree ==
  ASSUME NEW rows \in Seq(QueryResults)
  PROVE  SourceQuality(rows).recall <= Unit * SourceQuality(rows).n_cited
<1> DEFINE S == {r \in QueryResults : r.source # {}}
           C == {r \in QueryResults : r.cited # {}}
           owing == Only(rows, S)
           cited == Only(owing, C)
           recall == [r \in QueryResults |-> IF r.source # {} THEN SourceRecall(r) ELSE 0]
           cites == [r \in QueryResults |-> IF r \in C THEN 1 ELSE 0]
<1>1. \A i \in DOMAIN rows : rows[i] \in QueryResults
  OBVIOUS
<1>2. Those(rows, LAMBDA r : r.source # {}) = owing
  <2>1. {i \in DOMAIN rows : rows[i].source # {}} = {i \in DOMAIN rows : rows[i] \in S}
    BY <1>1
  <2> QED
    BY <2>1 DEF Those, Only
<1>3. owing \in Seq(QueryResults) /\ owing \in Seq(QueryResults \cap S)
  BY ThoseCounted, OnlyList
<1>4. \A i \in DOMAIN owing : owing[i] \in QueryResults /\ owing[i] \in S
  <2> HIDE DEF owing, S
  <2> QED
    BY <1>3
<1>5. \A i \in DOMAIN owing : owing[i].source # {}
  <2>1. \A r \in S : r.source # {}
    OBVIOUS
  <2> HIDE DEF owing, S
  <2> QED
    BY <1>4, <2>1
<1> HIDE DEF owing
<1>6. Those(owing, LAMBDA r : r.cited # {}) = cited
  <2>1. {i \in DOMAIN owing : owing[i].cited # {}} = {i \in DOMAIN owing : owing[i] \in C}
    BY <1>4
  <2> QED
    BY <2>1 DEF Those, Only
<1>7. /\ SourceQuality(rows).n_cited = Len(cited)
      /\ SourceQuality(rows).recall = Total(owing, SourceRecall)
  BY <1>2, <1>6 DEF SourceQuality
<1>8. Len(cited) = SumOf(owing, cites)
  <2> HIDE DEF C
  <2> QED
    BY <1>3, ThoseCounted
<1>9. Total(owing, SourceRecall) = SumOf(owing, recall)
  BY <1>4, <1>5 DEF Total, SumOf
<1>10. recall \in [QueryResults -> Int] /\ cites \in [QueryResults -> Int] /\ Unit \in Nat
  <2>1. \A r \in QueryResults : r.source # {} => SourceRecall(r) \in Int
    BY MeasuresIs
  <2> QED
    BY <2>1, UnitIs
<1>11. \A r \in QueryResults : recall[r] <= Unit * cites[r]
  <2> TAKE r \in QueryResults
  <2>1. CASE r.source # {} /\ r.cited # {}
    <3>1. recall[r] <= Unit /\ cites[r] = 1
      BY <2>1, MeasuresIs
    <3> HIDE DEF recall, cites
    <3> QED
      BY <1>10, <3>1
  <2>2. CASE ~(r.source # {} /\ r.cited # {})
    <3>1. recall[r] = 0 /\ (cites[r] = 0 \/ cites[r] = 1)
      BY <2>2, MeasuresIs
    <3> HIDE DEF recall, cites
    <3> QED
      BY <1>10, <3>1
  <2> QED
    BY <2>1, <2>2
<1>12. SumOf(owing, recall) <= Unit * SumOf(owing, cites)
  <2> HIDE DEF recall, cites
  <2>1. \A i \in 1..Len(owing) : recall[owing[i]] <= Unit * cites[owing[i]]
    BY <1>3, <1>4, <1>11
  <2> QED
    BY <1>3, <1>10, <2>1, SumOfOrdered
<1> QED
  BY <1>7, <1>8, <1>9, <1>12

\* The parts of an evaluation add up.
LEMMA RowsAddUp ==
  ASSUME NEW rows \in Seq(QueryResults)
  PROVE  PartsAddUp(rows)
<1>1. DOMAIN Evaluate(rows) = Figures
  BY EvaluateIs
<1>2. \A k \in Figures : Evaluate(rows)[k] = OverLayers(ByDifficulty(rows), k)
  BY LayersAddUp
<1>3. DOMAIN ByDifficulty(rows) \subseteq Difficulties
  <2>1. \A i \in DOMAIN rows : rows[i] \in QueryResults
    OBVIOUS
  <2>2. \A i \in DOMAIN rows : rows[i].layer \in Difficulties
    BY <2>1 DEF QueryResults
  <2>3. DOMAIN ByDifficulty(rows) = {rows[i].layer : i \in DOMAIN rows}
    BY DEF ByDifficulty
  <2> QED
    BY <2>2, <2>3
<1>4. /\ DOMAIN Decisions(rows) \subseteq DecisionClasses
      /\ Evaluate(rows)["n"] = OverDecisions(Decisions(rows), "support")
      /\ Evaluate(rows)["route"] <= OverDecisions(Decisions(rows), "hits")
  BY DecisionsAddUp
<1>5. Evaluate(rows)["n"] = Evaluate(rows)["n_routed"] + Evaluate(rows)["n_abstain"]
  BY RoutedOrAbstains
<1>6. TopicAccuracy(rows).at1 <= TopicAccuracy(rows).at3
  BY TopicsAgree
<1>7. SourceQuality(rows).recall <= Unit * SourceQuality(rows).n_cited
  BY SourcesAgree
<1> HIDE DEF Evaluate, Decisions, ByDifficulty, OverLayers, OverDecisions
<1> QED
  BY <1>1, <1>2, <1>3, <1>4, <1>5, <1>6, <1>7 DEF PartsAddUp

\* The evaluation's invariant beside the mirror: the rows left are a query set's, and
\* a result that cites is an answer of the system's own.
Graded == {r \in QueryResults : r.cited # {} => DecisionOf(r.route) = "self_answer"}

RowsFit ==
  /\ todo \in Seq(Queries) /\ \A i \in 1..Len(todo) : Parses(todo[i])
  /\ results \in Seq(Graded)

\* A parsed row, graded, is a result.
LEMMA ResultIs ==
  ASSUME NEW q \in Queries, Parses(q), NEW ranked \in Seq(Staff), NEW route \in Routes,
         NEW topics \in Seq(Topics), NEW cited \in SUBSET Sources,
         cited # {} => DecisionOf(route) = "self_answer"
  PROVE  Result(q, ranked, route, topics, cited) \in Graded
BY DEF Result, Graded, QueryResults, Queries, Parses

LEMMA TopicsPredicted ==
  ASSUME NEW past \in Seq(Answers)
  PROVE  PredictedTopics(past) \in Seq(Topics)
<1> DEFINE voted == {t \in Topics : Vote(past, t) > 0}
           votes == [t \in Topics |-> Vote(past, t)]
           n == Cardinality(Topics)
<1>1. \A t \in Topics : Vote(past, t) \in Int
  <2> TAKE t \in Topics
  <2> DEFINE s == [i \in DOMAIN past |-> IF t \in TopicsOf[past[i]] THEN Unit \div (RrfK + i) ELSE 0]
  <2>1. \A i \in 1..Len(past) : Unit \div (RrfK + i) \in Int
    <3>1. Unit \in Nat /\ RrfK \in Nat \ {0}
      BY UnitIs, FusionAssumption
    <3>2. \A i \in 1..Len(past) : RrfK + i \in Nat \ {0}
      BY <3>1
    <3> QED
      BY <3>1, <3>2, DivIs
  <2>2. DOMAIN past = 1..Len(past) /\ Len(past) \in Nat
    OBVIOUS
  <2>3. s \in Seq(Int)
    BY <2>1, <2>2
  <2>4. Vote(past, t) = AddedUp(s)
    BY DEF Vote
  <2> HIDE DEF s
  <2> QED
    BY <2>3, <2>4, AddedUpIs
<1>2. IsFiniteSet(Topics) /\ Topics \subseteq Int
  BY EvaluationAssumption
<1>3. /\ IsFiniteSet(voted) /\ voted \subseteq Int /\ voted \subseteq Topics /\ n \in Nat
      /\ \A t \in voted : votes[t] \in Int
  BY <1>1, <1>2, FS_Subset, FS_CardinalityType
<1>4. PredictedTopics(past) = Best(voted, votes, n)
  BY DEF PredictedTopics
<1> HIDE DEF voted, votes, n
<1>5. Best(voted, votes, n) \in Seq(voted)
  BY <1>3, BestList
<1> QED
  BY <1>3, <1>4, <1>5, SeqWidens

\* The offline ranking is a list of colleagues.
LEMMA RankExpertsIs ==
  ASSUME NEW q, NEW r, r.offered \in Seq(Staff), r.by \in SUBSET Staff, \A x, y \in r.by : x = y,
         NEW route, NEW evidence \in [Staff -> Evidence]
  PROVE  RankExperts(q, r, route, evidence) \in Seq(Staff)
<1> DEFINE pinned == PinnedResponder(r, route)
           rest == Only(r.offered, ToSet(r.offered) \ ToSet(pinned))
           k == Depth - Len(pinned)
           tail == Rank(rest, Nobody, evidence, k)
<1>1. IsFiniteSet(Staff) /\ Staff \subseteq Int
  BY PipelineAssumption
<1>2. pinned \in Seq(Staff) /\ Len(pinned) <= 1
  <2>1. CASE route = "prior_answer"
    <3>1. pinned = ById(r.by)
      BY <2>1 DEF PinnedResponder
    <3>2. IsFiniteSet(r.by) /\ r.by \subseteq Int /\ Cardinality(r.by) <= 1
      <4>1. r.by = {} \/ \E p \in Staff : r.by = {p}
        OBVIOUS
      <4>2. IsFiniteSet({}) /\ Cardinality({}) = 0
        BY FS_EmptySet
      <4>3. \A p : IsFiniteSet({p}) /\ Cardinality({p}) = 1
        BY FS_Singleton
      <4>4. IsFiniteSet(r.by) /\ (Cardinality(r.by) = 0 \/ Cardinality(r.by) = 1)
        <5>1. CASE r.by = {}
          BY <4>2, <5>1
        <5>2. CASE \E p \in Staff : r.by = {p}
          BY <4>3, <5>2
        <5> QED
          BY <4>1, <5>1, <5>2
      <4>5. r.by \subseteq Int
        BY <1>1
      <4> QED
        BY <4>4, <4>5
    <3>3. ById(r.by) \in Seq(r.by) /\ Len(ById(r.by)) = Cardinality(r.by)
      BY <3>2, ByIdList
    <3> HIDE DEF pinned
    <3>4. ById(r.by) \in Seq(Staff)
      BY <3>3, SeqWidens
    <3> QED
      BY <3>1, <3>2, <3>3, <3>4
  <2>2. CASE route # "prior_answer"
    BY <2>2 DEF PinnedResponder
  <2> QED
    BY <2>1, <2>2
<1>3. Depth \in Nat \ {0}
  BY EvaluationAssumption, ScoringAssumption
<1> HIDE DEF pinned
<1>4. k \in Nat
  BY <1>2, <1>3
<1>5. rest \in Seq(Staff) /\ \A p \in ToSet(rest) : Score(evidence[p]) \in Int
  <2> DEFINE U == ToSet(r.offered) \ ToSet(pinned)
  <2>1. Only(r.offered, U) \in Seq(Staff \cap U)
    <3> HIDE DEF U
    <3> QED
      BY OnlyList
  <2>2. rest \in Seq(Staff)
    <3> HIDE DEF U
    <3>1. Only(r.offered, U) \in Seq(Staff)
      BY <2>1, SeqWidens
    <3> QED
      BY <3>1 DEF U
  <2> HIDE DEF rest
  <2>3. ToSet(rest) \subseteq Staff
    BY <2>2, ToSetIs
  <2>4. \A p \in ToSet(rest) : evidence[p] \in Evidence
    BY <2>3
  <2> QED
    BY <2>2, <2>4, PipelineAssumption
<1> HIDE DEF rest, k
<1>6. tail \in Seq(Staff)
  <2>1. tail \in Seq(ToSet(rest) \ {Nobody})
    BY <1>1, <1>4, <1>5, RankIs
  <2>2. ToSet(rest) \ {Nobody} \subseteq Staff
    BY <1>5, ToSetIs
  <2> HIDE DEF tail
  <2> QED
    BY <2>1, <2>2, SeqWidens
<1> HIDE DEF tail
<1>7. pinned \o tail \in Seq(Staff)
  BY <1>2, <1>6
<1> QED
  BY <1>7 DEF RankExperts, pinned, rest, k, tail

\* A row of either ranker leaves a graded result.
LEMMA RankRowFits ==
  ASSUME EvalInv, RowsFit, NEW h \in Nearness, RankRow(h)
  PROVE  results' \in Seq(Graded)
<1>1. todo # <<>> /\ todo \in Seq(Queries) /\ results \in Seq(Graded)
  BY DEF RowsFit, RankRow
<1>2. Head(todo) \in Queries /\ Parses(Head(todo))
  BY <1>1 DEF RowsFit
<1>3. PICK run \in ranker :
        LET q      == Head(todo)
            r      == Retrieved(h, text, IndexOf(text))
            route  == decide_route(r)
            ranked == RankExperts(q, r, route, run.evidence)
        IN  results' = Append(results, Result(q, ranked, route, PredictedTopics(r.past), {}))
  BY DEF RankRow
<1> DEFINE q == Head(todo)
           r == Retrieved(h, text, IndexOf(text))
           route == decide_route(r)
           evidence == run.evidence
           ranked == RankExperts(q, r, route, evidence)
           topics == PredictedTopics(r.past)
<1>4. results' = Append(results, Result(q, ranked, route, topics, {}))
  BY <1>3
<1>5. /\ r.offered \in Seq(Staff) /\ r.by \in SUBSET Staff /\ \A x, y \in r.by : x = y
      /\ r.past \in Seq(Answers)
  <2>1. text \in Texts /\ active \subseteq Staff
    BY DEF EvalInv, PipelineInv, World
  <2>2. h \in Closeness /\ IndexOf(text) \in SUBSET Answers
    BY EvaluationAssumption DEF IndexOf
  <2>3. /\ r.offered \in Seq(Staff) /\ r.past \in Seq(Answers)
        /\ r.by = {} \/ \E p \in Staff : r.by = {p}
    BY <2>1, <2>2, RetrievedIs
  <2> HIDE DEF r
  <2> QED
    BY <2>3
<1>6. evidence \in [Staff -> Evidence]
  BY EvaluationAssumption DEF EvalInv
<1>7. route \in Routes
  BY DEF decide_route, Routes, ValidRoutes
<1> HIDE DEF r, route, evidence
<1>8. topics \in Seq(Topics)
  BY <1>5, TopicsPredicted
<1>9. ranked \in Seq(Staff)
  BY <1>5, <1>6, RankExpertsIs
<1> HIDE DEF topics, ranked
<1>10. Result(q, ranked, route, topics, {}) \in Graded
  BY <1>2, <1>7, <1>8, <1>9, ResultIs
<1> QED
  BY <1>1, <1>4, <1>10

LEMMA GraphRowFits ==
  ASSUME RowsFit, GraphRow
  PROVE  results' \in Seq(Graded)
<1>1. todo # <<>> /\ todo \in Seq(Queries) /\ results \in Seq(Graded)
  BY DEF RowsFit, GraphRow
<1>2. Head(todo) \in Queries /\ Parses(Head(todo))
  BY <1>1 DEF RowsFit
<1>3. ASSUME NEW f \in Finals
      PROVE  Result(Head(todo), f.recs, FinalRoute(f), f.topics, f.cited) \in Graded
  <2>1. f \in Checkpoints
    BY EvaluationAssumption
  <2>2. /\ f.recs \in Seq(Staff) /\ f.topics \in Seq(Topics) /\ f.cited \in SUBSET Sources
        /\ f.cited # {} => f.grounded
    BY <2>1 DEF Checkpoints
  <2>3. FinalRoute(f) \in Routes
    BY <2>1 DEF Checkpoints, FinalRoute, Routes
  <2>4. f.cited # {} => DecisionOf(FinalRoute(f)) = "self_answer"
    BY <2>2 DEF FinalRoute, DecisionOf
  <2> QED
    BY <1>2, <2>2, <2>3, <2>4, ResultIs
<1>4. Result(Head(todo), <<>>, "none", <<>>, {}) \in Graded
  <2>1. <<>> \in Seq(Staff) /\ <<>> \in Seq(Topics) /\ "none" \in Routes /\ {} \in SUBSET Sources
    BY DEF Routes, ValidRoutes
  <2> QED
    BY <1>2, <2>1, ResultIs
<1>5. \E x \in Graded : results' = Append(results, x)
  BY <1>3, <1>4 DEF GraphRow
<1> QED
  BY <1>1, <1>5

\* The rows left stay parsed, the results graded.
LEMMA RowsFitStep ==
  ASSUME EvalInv, RowsFit, [EvalNext \/ (Next /\ UNCHANGED evalVars)]_<<vars, evalVars>>
  PROVE  RowsFit'
<1>1. CASE UNCHANGED <<todo, results>>
  BY <1>1 DEF RowsFit
<1>2. ASSUME todo # <<>>, todo' = Tail(todo), results' \in Seq(Graded) PROVE RowsFit'
  <2>1. Tail(todo) \in Seq(Queries) /\ Len(Tail(todo)) = Len(todo) - 1
        /\ \A i \in 1..Len(Tail(todo)) : Tail(todo)[i] = todo[i + 1] /\ i + 1 \in 1..Len(todo)
    BY <1>2 DEF RowsFit
  <2> QED
    BY <1>2, <2>1 DEF RowsFit
<1>3. ASSUME NEW h \in Nearness, RankRow(h) PROVE RowsFit'
  BY <1>2, <1>3, RankRowFits DEF RankRow
<1>4. CASE GraphRow
  BY <1>2, <1>4, GraphRowFits DEF GraphRow
<1>5. ASSUME NEW kind, NEW file \in Files, NEW evidence, NEW indexed,
             StartEval(kind, file, evidence, indexed)
      PROVE  RowsFit'
  <2>1. todo' = file /\ results' = <<>> /\ \A i \in DOMAIN file : Parses(file[i])
    BY <1>5 DEF StartEval
  <2>2. file \in Seq(Queries)
    BY EvaluationAssumption
  <2>3. DOMAIN file = 1..Len(file)
    BY <2>2
  <2> QED
    BY <2>1, <2>2, <2>3 DEF RowsFit
<1>6. CASE Report
  BY <1>1, <1>6 DEF Report
<1>7. CASE UNCHANGED evalVars
  BY <1>1, <1>7 DEF evalVars
<1> QED
  BY <1>3, <1>4, <1>5, <1>6, <1>7 DEF EvalNext, evalVars

\* Graded results agree, row by row and in all.
LEMMA GradedAgree ==
  ASSUME NEW rows \in Seq(Graded)
  PROVE  MeasuresAgree(rows) /\ PartsAddUp(rows)
<1>1. rows \in Seq(QueryResults)
  <2>1. Graded \subseteq QueryResults
    BY DEF Graded
  <2> QED
    BY <2>1, SeqWidens
<1>2. ASSUME NEW i \in DOMAIN rows
      PROVE  /\ rows[i].gold # {} => RowAgrees(rows[i])
             /\ rows[i].cited # {} => DecisionOf(rows[i].route) = "self_answer"
  <2>1. rows[i] \in Graded
    OBVIOUS
  <2> DEFINE r == rows[i]
  <2>2. /\ r.ranked \in Seq(Staff) /\ r.gold \subseteq Staff
        /\ r.cited # {} => DecisionOf(r.route) = "self_answer"
    BY <2>1 DEF Graded, QueryResults
  <2> HIDE DEF r
  <2>3. IsFiniteSet(r.gold)
    BY <2>2, FS_Subset, PipelineAssumption
  <2>4. r.gold # {} => RowAgrees(r)
    BY <2>2, <2>3, RowMeasures
  <2> QED
    BY <2>2, <2>4 DEF r
<1>3. MeasuresAgree(rows)
  <2> HIDE DEF RowAgrees
  <2>1. \A r : RowAgrees(r) =>
          /\ Top1(r) <=> ReciprocalRank(r) = Unit
          /\ HitAt(r, RecallK) <=> ReciprocalRank(r) * RecallK >= Unit
          /\ HitAt(r, RecallK) <=> RecallAt(r, RecallK) > 0
          /\ r.gold \subseteq ToSet(Cut(r.ranked, RecallK))
               \/ (/\ ToSet(Cut(r.ranked, RecallK)) \subseteq r.gold
                   /\ Cardinality(ToSet(Cut(r.ranked, RecallK))) = RecallK)
               <=> RecallAt(r, RecallK) = Unit
    BY DEF RowAgrees
  <2> QED
    BY <1>2, <2>1 DEF MeasuresAgree
<1> QED
  BY <1>1, <1>3, RowsAddUp

\* What an evaluation reports is about what the product shows, and its figures agree:
\* the measures of each row, and the layers and decisions with the whole (evaluate,
\* evaluate_by_difficulty, evaluate_decisions, evaluate_source_recall).
THEOREM EvaluationIsSound == EvalSpec => []EvaluationSound
<1>1. Init /\ EvalInit => EvalInv /\ RowsFit
  <2>1. Init /\ EvalInit => EvalInv
    BY PipelineInit DEF EvalInit, EvalInv, MirrorsProduct
  <2>2. EvalInit => RowsFit
    BY DEF EvalInit, RowsFit
  <2> QED
    BY <2>1, <2>2
<1>2. EvalInv /\ RowsFit /\ [EvalNext \/ (Next /\ UNCHANGED evalVars)]_<<vars, evalVars>>
        => EvalInv' /\ RowsFit'
  BY EvalStep, RowsFitStep
<1>3. EvalInv /\ RowsFit => EvaluationSound
  BY GradedAgree DEF EvalInv, RowsFit, EvaluationSound
<1> QED
  BY <1>1, <1>2, <1>3, PTL DEF EvalSpec

=============================================================================
