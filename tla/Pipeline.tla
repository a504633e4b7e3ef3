------------------------------ MODULE Pipeline ------------------------------
(***************************************************************************)
(* C4 to C6 of several questions at once: each reads the corpus, takes its *)
(* exact-word index from the cache the process shares, fuses the channels, *)
(* decides the route and seats candidates, while answers are written and   *)
(* removed and colleagues leave.                                           *)
(*                                                                         *)
(* How close a question is to a text is a choice; the ranks, weights,      *)
(* gates and caps applied to it are the operators of Fusion and Scoring.   *)
(***************************************************************************)
EXTENDS Scoring

CONSTANTS
  Searches,            \* sessions that run C4
  Staff, Answers, Asked,   \* ids of colleagues, answers and past questions
  By, Of, Reuse,       \* responder_id, question_id and reuse_count of an answer
  Near,                \* similarities a dense channel may report, 0 for no hit
  Hits,                \* how near a question may be to the texts
  Base, Boosted, Lo, Hi,   \* BM25 weight and its window, dense weighs DenseWeight
  DenseWeight,
  Evidence,            \* what a colleague may have to show
  MaxChanges           \* bound: answers written or removed, colleagues who leave

\* How near a question is to every text, and whose profiles share a word with it.
Closeness ==
  [answers : [Answers -> Near], asked : [Asked -> Near],
   document : Near, people : [Staff -> Near], words : SUBSET Staff]

ASSUME PipelineAssumption ==
  /\ Staff \cup Answers \cup Asked \cup Near \subseteq Nat
  /\ By \in [Answers -> Staff] /\ Of \in [Answers -> Asked]
  /\ IsFiniteSet(Answers) /\ IsFiniteSet(Asked) /\ IsFiniteSet(Staff)
  /\ Cardinality(Answers) <= Ranks   \* the answers of all near questions are one list
  /\ {Base, Boosted, Lo, Hi} \subseteq Nat /\ DenseWeight \in Nat \ {0}
  /\ Hits \subseteq Closeness
  /\ Evidence \subseteq Records
  /\ \A e \in Evidence : Score(e) \in Int   \* Saturate goes as far as they do
  /\ MaxChanges \in Nat

VARIABLES
  text,      \* answer rows: absent, or sharing a word with the question or not
  active,    \* employees with is_active
  cache,     \* _CACHE["answers"], at most one: pairs it was built from, and index
  search,    \* the C4 calls
  found,     \* the last retrieval result and its route, until it is ranked
  seated,    \* the last candidates and what they were ranked by
  changes

vars == <<text, active, cache, search, found, seated, changes>>

-----------------------------------------------------------------------------
(* Types *)

Texts == [Answers -> {"absent", "plain", "match"}]

Idle == [at |-> "idle"]

PipelineTypeOK ==
  /\ text \in Texts
  /\ active \subseteq Staff
  /\ Cardinality(cache) <= 1
  /\ \A c \in cache : c \in [pairs : Texts, index : SUBSET Answers]
  /\ \A s \in Searches :
       CASE search[s].at = "idle" -> search[s] = Idle
         [] search[s].at = "rank" ->
              search[s] \in [at : {"rank"}, pairs : Texts, index : SUBSET Answers]
         [] OTHER -> search[s] \in [at : {"look", "build"}, pairs : Texts]
  /\ Cardinality(found) + Cardinality(seated) <= 1
  /\ \A r \in found : /\ r.route \in {"person", "prior_answer", "document"}
                      /\ r.offered \in Seq(Staff) /\ r.past \in Seq(Answers)
  /\ \A c \in seated :
       c.recs \in Seq(Staff) /\ IsInjective(c.recs) /\ Len(c.recs) <= Slots
  /\ changes \in 0..MaxChanges

Init ==
  /\ text \in Texts
  /\ active = Staff
  /\ cache = {}
  /\ search = [s \in Searches |-> Idle]
  /\ found = {} /\ seated = {}
  /\ changes = 0

-----------------------------------------------------------------------------
(* The world *)

Change ==
  /\ changes < MaxChanges
  /\ changes' = changes + 1
  /\ UNCHANGED <<cache, search, found, seated>>

Write(a, t) ==
  /\ Change
  /\ text[a] # t
  /\ text' = [text EXCEPT ![a] = t]
  /\ UNCHANGED active

Leave(p) ==
  /\ Change
  /\ p \in active
  /\ active' = active \ {p}
  /\ UNCHANGED text

-----------------------------------------------------------------------------
(* The rows and the cached index *)

Begin(s) ==
  /\ search[s] = Idle
  /\ search' = [search EXCEPT ![s] = [at |-> "look", pairs |-> text]]
  /\ UNCHANGED <<text, active, cache, found, seated, changes>>

Present(pairs) == {a \in Answers : pairs[a] # "absent"}

\* BM25Index.build and search: a document matches when it shares a word.
IndexOf(pairs) == {a \in Answers : pairs[a] = "match"}

\* Mutant: the signature is the ids.
CachedById(pairs) == {c \in cache : Present(c.pairs) = Present(pairs)}

\* The signature is the whole list of pairs, compared exactly.
Cached(pairs) == {c \in cache : c.pairs = pairs}

Look(s) ==
  /\ search[s].at = "look"
  /\ LET pairs == search[s].pairs
     IN  \/ \E c \in Cached(pairs) :
              search' = [search EXCEPT ![s] = [at |-> "rank", pairs |-> pairs, index |-> c.index]]
         \/ /\ Cached(pairs) = {}
            /\ search' = [search EXCEPT ![s].at = "build"]
  /\ UNCHANGED <<text, active, cache, found, seated, changes>>

\* Built without the lock; the last one to finish writes the cache.
Build(s) ==
  /\ search[s].at = "build"
  /\ LET pairs == search[s].pairs
     IN  /\ cache' = {[pairs |-> pairs, index |-> IndexOf(pairs)]}
         /\ search' = [search EXCEPT ![s] =
                         [at |-> "rank", pairs |-> pairs, index |-> IndexOf(pairs)]]
  /\ UNCHANGED <<text, active, found, seated, changes>>

-----------------------------------------------------------------------------
(* HybridRetriever.search on what it read, and C5 *)

Listed(sim) == Best({d \in DOMAIN sim : sim[d] > 0}, sim, Pool)

\* The answers of the questions that are near, in the order of the questions.
QuestionMapped(asked, pairs) ==
  LET near == Listed(asked)
      reached == {a \in Present(pairs) : Of[a] \in ToSet(near)}
  IN  Best(reached, [a \in reached |-> -Place(near, Of[a])], Cardinality(Answers))

\* What shares a word with the question; their scores are taken to be equal.
Matching(S) == Cut(ById(S), Pool)

\* Mutant: a question nobody answered counts as well.
AnsweredAny(asked, pairs) == ToSet(Listed(asked))

\* Only questions with an answer raise the confidence.
Answered(asked, pairs) == {q \in ToSet(Listed(asked)) : \E a \in Present(pairs) : Of[a] = q}

TopSimilarity(sims) == Max({0} \cup sims)

Similarities(sim) == {sim[d] : d \in ToSet(Listed(sim))}

\* Who the rows that were read name as the responder.
ResponderOf(past, pairs) == Only(past, Present(pairs))

\* Mutant: a colleague who left is offered all the same.
StillHereAll(people) == people

StillHere(people) == Only(people, active)

\* Mutant: departures are looked up among the people offered.
DepartedOffered(responders, offered) == ToSet(offered) \ active

\* departed_people: responders of past answers who left.
Departed(responders, offered) == ToSet(responders) \ active

Retrieved(h, pairs, index) ==
  LET near    == [a \in Answers |-> IF text[a] = "absent" THEN 0 ELSE h.answers[a]]
      conf    == TopSimilarity(Similarities(near) \cup
                                 {h.asked[q] : q \in Answered(h.asked, pairs)})
      folk    == TopSimilarity(Similarities(h.people))
      weight(c) == AdaptiveWeight(c, Base, Boosted, Lo, Hi)
      dense   == <<Listed(near), QuestionMapped(h.asked, pairs)>>
      past    == Fused(<<dense[1], dense[2], Matching(index)>>,
                       <<DenseWeight, DenseWeight, weight(conf)>>)
      profile == Fused(<<Listed(h.people), Matching(h.words)>>, <<DenseWeight, weight(folk)>>)
      rows    == ResponderOf(past, pairs)
      by      == [i \in DOMAIN rows |-> By[rows[i]]]
      best    == IF past = <<>> THEN {} ELSE {Head(past)} \cap Present(pairs)
      offered == StillHere(People(by, profile))
  IN  [past |-> past, dense |-> ToSet(dense[1]) \cup ToSet(dense[2]),
       offered |-> offered, departed |-> Departed(by, offered),
       profile |-> profile,
       by |-> {By[a] : a \in best},
       reuse |-> IF best = {} THEN 0 ELSE Reuse[Head(past)],
       answerConf |-> conf, documentConf |-> h.document, peopleConf |-> folk]

\* prior_answer: whoever gave the best past answer, unless they left.
Pinned(r, route) == IF route = "prior_answer" THEN r.by \ r.departed ELSE {}

Retrieve(s, h) ==
  /\ search[s].at = "rank"
  /\ LET r     == Retrieved(h, search[s].pairs, search[s].index)
         route == decide_route(r)
     IN  found' = {[past |-> r.past, dense |-> r.dense, offered |-> r.offered,
                    profile |-> r.profile, answerConf |-> r.answerConf,
                    here |-> active, route |-> route, pin |-> Pinned(r, route)]}
  /\ seated' = {}
  /\ search' = [search EXCEPT ![s] = Idle]
  /\ UNCHANGED <<text, active, cache, changes>>

\* C6 on that result: any asker, branch and evidence.
C6Score ==
  /\ \E r \in found :
       LET pool == ToSet(r.offered) \cup r.pin
       IN  \E asker \in Staff, there \in SUBSET pool, evidence \in [pool -> Evidence] :
             seated' = {[recs |-> Seated(r.offered, r.pin, there, asker, evidence),
                         pool |-> ToSet(r.offered) \ {asker}, asker |-> asker,
                         pin |-> r.pin, there |-> there, evidence |-> evidence]}
  /\ found' = {}
  /\ UNCHANGED <<text, active, cache, search, changes>>

Next ==
  \/ \E a \in Answers, t \in {"absent", "plain", "match"} : Write(a, t)
  \/ \E p \in Staff : Leave(p)
  \/ \E s \in Searches : Begin(s) \/ Look(s) \/ Build(s) \/ \E h \in Hits : Retrieve(s, h)
  \/ C6Score

Spec == Init /\ [][Next]_vars

-----------------------------------------------------------------------------
(* Properties *)

\* Concurrent rebuilds, an older one finishing last, and corpora that come back:
\* a search never ranks with an index of other texts than it read ("a collision
\* can never serve a stale index", bm25_cache.py).
IndexIsCurrent ==
  \A s \in Searches : search[s].at = "rank" => search[s].index = IndexOf(search[s].pairs)

\* While the dense channel is confident and BM25 weighs nothing, no answer
\* surfaces that only shares a word with the question (rrf, _fuse).
SilentChannel ==
  \A r \in found : Base = 0 /\ r.answerConf >= Hi => ToSet(r.past) \subseteq r.dense

\* The best profile match is never crowded out of the candidates by responders
\* of past answers; only leaving the company removes it (_aggregate_people).
TopProfileOffered ==
  \A r \in found :
    r.profile # <<>> /\ TopK >= 2 /\ Head(r.profile) \in r.here
      => Head(r.profile) \in ToSet(r.offered)

\* No channel says more, or less, than its weight and its turn allow.
ChannelsWeighed == SilentChannel /\ TopProfileOffered

\* "answer_confidence already only counts questions that have answers, so these
\* agree" (decide_route): near certainty always has an answer behind it.
ConfidenceHasAnswer ==
  \A r \in found : r.answerConf >= PriorAnswerSim => r.past # <<>>

\* Nobody who had left when the people were read is offered or pinned, though
\* their answers stay searchable (retriever.search, prior_answer).
DepartedNotAsked ==
  \A r \in found : ToSet(r.offered) \cup r.pin \subseteq r.here

\* What C5 routes on and C6 ranks is there when they do.
ResultUsable == ConfidenceHasAnswer /\ DepartedNotAsked

\* A search is well typed, ranks with the corpus it read and returns what C5 and
\* C6 can use.
SearchSound == PipelineTypeOK /\ IndexIsCurrent /\ ResultUsable

\* The candidates are the best by score: whoever is left out is beaten by
\* everybody of their side of the branch condition who was seated, the pin
\* apart, and the asker never is one (rank, c6_score).
BestSeated ==
  \A c \in seated :
    /\ c.asker \notin ToSet(c.recs)
    /\ \A p \in ToSet(c.recs) \ c.pin, q \in c.pool \ ToSet(c.recs) :
         (p \in c.there) = (q \in c.there)
           => Score(c.evidence[p]) >= Score(c.evidence[q])

\* Nobody from elsewhere takes a slot while somebody of the requested branch is
\* left out (c6_score: "a CONDITION, not a bonus").
BranchFirst ==
  \A c \in seated :
    ((\E p \in ToSet(c.recs) \ c.pin : p \notin c.there)
       => c.pool \cap c.there \subseteq ToSet(c.recs))

\* A consultation that solved nothing neither counts nor crowds out one that did:
\* the evidence is that of the record without it (collect_topic_evidence).
UnsolvedCountsForNothing ==
  \A c \in seated :
    \A p \in DOMAIN c.evidence :
      LET e == c.evidence[p]
      IN  TopicEvidence(e) =
            TopicEvidence([e EXCEPT !.consults = Only(@, ToSet(@) \ {"unresolved"})])

\* The seats go to who has shown most, as far as the branch condition lets them.
SeatsEarned == BestSeated /\ BranchFirst /\ UnsolvedCountsForNothing

=============================================================================
