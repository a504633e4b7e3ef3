----------------------------- MODULE Evaluation -----------------------------
(***************************************************************************)
(* The offline evaluation (tekijin/eval): a labelled query set run through *)
(* the search and the scorer, or through the whole agent graph             *)
(* (scripts/research_fullgraph_eval.py), and the metrics made of the       *)
(* rankings.  It is a process of its own, which searches one row at a time *)
(* beside a company that goes on, hence a search is one step of it.        *)
(*                                                                         *)
(* A rate is the sum of its rows in units of Unit, beside the number of    *)
(* rows it is taken over.                                                  *)
(***************************************************************************)
EXTENDS Pipeline

CONSTANTS
  Topics,
  Sources,    \* what an answer of the system may cite
  TopicsOf,   \* topics an answer is evidence of
  Files,      \* query sets: sequences of rows with their gold labels
  Nearness,   \* how near a query may be to the corpus
  Known,      \* what all colleagues may have to show, in the database evaluated
  Finals,     \* checkpoints the graph may leave an evaluation row in
  Depth,      \* rank depth
  Nobody      \* the asker of an evaluation

RecallK == 3

ValidRoutes == {"person", "prior_answer", "document", "none"}

Difficulties == {"L1", "L2", "L3", "L4"}

DecisionClasses == {"self_answer", "route", "abstain"}

\* A row of a query set, and a checkpoint: C7' stores its citations when it answers.
Queries ==
  [topics : SUBSET Topics, experts : SUBSET Staff, alt : SUBSET Staff,
   route : STRING, layer : STRING, source : SUBSET Sources]

Checkpoints ==
  {f \in [grounded : BOOLEAN, answerable : {"unasked", "yes", "no"}, route : ValidRoutes,
          asks : BOOLEAN, recs : Seq(Staff), topics : Seq(Topics), cited : SUBSET Sources] :
     f.cited # {} => f.grounded}

ASSUME EvaluationAssumption ==
  /\ Nearness \subseteq Closeness
  /\ Known \subseteq [Staff -> Evidence]
  /\ Depth \in Nat /\ Slots <= Depth
  /\ Nobody \notin Staff
  /\ IsFiniteSet(Topics) /\ Topics \subseteq Int /\ IsFiniteSet(Sources)
  /\ \A file \in Files : file \in Seq(Queries)
  /\ \A f \in Finals : f \in Checkpoints
  /\ \A k \in 1..RecallK : Unit % k = 0

VARIABLES
  ranker,     \* the run under way, at most one: its ranker, database and embeddings
  todo,       \* rows it has not run
  results,    \* QueryResults
  compared,   \* history: the last ranking beside what the product would have shown
  latest      \* _latest_eval: the stored snapshot, at most one

evalVars == <<ranker, todo, results, compared, latest>>

-----------------------------------------------------------------------------
(* The query set *)

\* _parse_query raises on anything else.
Parses(q) == q.route \in ValidRoutes /\ q.layer \in Difficulties

-----------------------------------------------------------------------------
(* One row *)

\* The rank of the first correct one, 0 without any.
FirstHit(ranked, gold) ==
  LET hits == {i \in DOMAIN ranked : ranked[i] \in gold} IN IF hits = {} THEN 0 ELSE Min(hits)

Top1(r) == FirstHit(r.ranked, r.gold) = 1

\* Mutant: over all the gold experts, more than fit in the cut or not.
RecallOfGold(r, k) ==
  (Unit * Cardinality(ToSet(Cut(r.ranked, k)) \cap r.gold)) \div Cardinality(r.gold)

RecallAt(r, k) ==
  (Unit * Cardinality(ToSet(Cut(r.ranked, k)) \cap r.gold)) \div AtMost(k, Cardinality(r.gold))

HitAt(r, k) == FirstHit(Cut(r.ranked, k), r.gold) # 0

ReciprocalRank(r) ==
  LET first == FirstHit(r.ranked, r.gold) IN IF first = 0 THEN 0 ELSE Unit \div first

SourceRecall(r) == (Unit * Cardinality(r.cited \cap r.source)) \div Cardinality(r.source)

SourcePrecision(r) == (Unit * Cardinality(r.cited \cap r.source)) \div Cardinality(r.cited)

TopicHitAt(r, k) == ToSet(Cut(r.topics, k)) \cap r.goldTopics # {}

\* Mutant: the terminals of the graph have no decision.
DecisionOfRoutes(route) ==
  CASE route \in {"document", "prior_answer"} -> "self_answer"
    [] route = "person" -> "route"
    [] route = "none"   -> "abstain"
    [] OTHER -> "unknown"

\* decision_class
DecisionOf(route) ==
  CASE route \in {"document", "prior_answer", "self_answered"} -> "self_answer"
    [] route = "person" -> "route"
    [] route \in {"none", "no_expert"} -> "abstain"
    [] OTHER -> "unknown"

-----------------------------------------------------------------------------
(* Aggregates *)

Those(rows, test(_)) == Picked(rows, {i \in DOMAIN rows : test(rows[i])})

Total(rows, value(_)) == AddedUp([i \in DOMAIN rows |-> value(rows[i])])

Count(rows, test(_)) == Total(rows, LAMBDA r : IF test(r) THEN 1 ELSE 0)

Ranked(rows) == Those(rows, LAMBDA r : r.gold # {})
Routed(rows) == Those(rows, LAMBDA r : r.goldRoute # "none")
Abstain(rows) == Those(rows, LAMBDA r : r.goldRoute = "none")

Evaluate(rows) ==
  [n         |-> Len(rows),
   n_ranked  |-> Len(Ranked(rows)),
   n_routed  |-> Len(Routed(rows)),
   n_abstain |-> Len(Abstain(rows)),
   top1      |-> Count(Ranked(rows), Top1),
   recall    |-> Total(Ranked(rows), LAMBDA r : RecallAt(r, RecallK)),
   hit       |-> Count(Ranked(rows), LAMBDA r : HitAt(r, RecallK)),
   mrr       |-> Total(Ranked(rows), ReciprocalRank),
   route     |-> Count(Routed(rows), LAMBDA r : r.route = r.goldRoute),
   abstain   |-> Count(Abstain(rows), LAMBDA r : r.ranked = <<>>)]

\* evaluate_by_difficulty
ByDifficulty(rows) ==
  [l \in {rows[i].layer : i \in DOMAIN rows} |->
     Evaluate(Those(rows, LAMBDA r : r.layer = l))]

\* evaluate_alt: against the labels that come from answers.
EvaluateAlt(rows) ==
  LET labelled == Those(rows, LAMBDA r : r.alt # {})
  IN  Evaluate([i \in DOMAIN labelled |-> [labelled[i] EXCEPT !.gold = labelled[i].alt]])

\* evaluate_decisions: the gold rows of each decision, and those that were met.
Decisions(rows) ==
  [d \in {DecisionOf(rows[i].goldRoute) : i \in DOMAIN rows} \ {"unknown"} |->
     [support |-> Count(rows, LAMBDA r : DecisionOf(r.goldRoute) = d),
      hits    |-> Count(rows, LAMBDA r : /\ DecisionOf(r.goldRoute) = d
                                         /\ DecisionOf(r.route) = d)]]

\* evaluate_source_recall: over the rows that owe a citation.
SourceQuality(rows) ==
  LET owing == Those(rows, LAMBDA r : r.source # {})
      cited == Those(owing, LAMBDA r : r.cited # {})
  IN  [n |-> Len(owing), n_cited |-> Len(cited),
       recall |-> Total(owing, SourceRecall), precision |-> Total(cited, SourcePrecision)]

\* evaluate_topics
TopicAccuracy(rows) ==
  LET scored == Those(rows, LAMBDA r : r.goldTopics # {})
  IN  [n |-> Len(scored), at1 |-> Count(scored, LAMBDA r : TopicHitAt(r, 1)),
       at3 |-> Count(scored, LAMBDA r : TopicHitAt(r, 3))]

-----------------------------------------------------------------------------
(* The rankers *)

\* predict_topics_from_retrieval: a vote of the answers found, by rank.
Vote(past, t) ==
  AddedUp([i \in DOMAIN past |-> IF t \in TopicsOf[past[i]] THEN Unit \div (RrfK + i) ELSE 0])

PredictedTopics(past) ==
  Best({t \in Topics : Vote(past, t) > 0}, [t \in Topics |-> Vote(past, t)], Cardinality(Topics))

\* _pinned_responder: who answered best, in the company or not.
PinnedResponder(r, route) == IF route = "prior_answer" THEN ById(r.by) ELSE <<>>

\* Mutant: a pinned responder ends the ranking (#307).
RankExpertsPinned(q, r, route, evidence) ==
  LET pinned == PinnedResponder(r, route)
  IN  IF route = "document" \/ q.topics = {} THEN <<>>
      ELSE IF pinned # <<>> THEN pinned ELSE Rank(r.offered, Nobody, evidence, Depth)

\* _rank_experts
RankExperts(q, r, route, evidence) ==
  LET pinned == PinnedResponder(r, route)
      pool   == Only(r.offered, ToSet(r.offered) \ ToSet(pinned))
  IN  IF route = "document" \/ q.topics = {} THEN <<>>
      ELSE pinned \o Rank(pool, Nobody, evidence, Depth - Len(pinned))

\* What C6 shows of that search to an asker who is nobody's colleague.
Shown(q, r, route, evidence) ==
  IF route = "document" \/ q.topics = {} THEN <<>>
  ELSE Seated(r.offered, Pinned(r, route), {}, Nobody, evidence)

\* Mutant: an answer from the knowledge units, before any route, is forgotten.
FinalRouteOfC5(f) ==
  IF f.answerable = "no" THEN "no_expert"
  ELSE IF f.route # "none" THEN f.route ELSE IF f.asks THEN "ask" ELSE "none"

\* _terminal_route
FinalRoute(f) ==
  IF f.grounded THEN "self_answered"
  ELSE IF f.answerable = "no" THEN "no_expert"
  ELSE IF f.route # "none" THEN f.route
  ELSE IF f.asks THEN "ask" ELSE "none"

-----------------------------------------------------------------------------
(* The run *)

Result(q, ranked, route, topics, cited) ==
  [ranked |-> ranked, gold |-> q.experts, alt |-> q.alt, route |-> route,
   goldRoute |-> q.route, layer |-> q.layer, topics |-> topics, goldTopics |-> q.topics,
   cited |-> cited, source |-> q.source]

EvalInit == ranker = {} /\ todo = <<>> /\ results = <<>> /\ compared = {} /\ latest = {}

\* load_eval_queries, the check for embeddings, and the ranker over the database.
StartEval(kind, file, evidence, indexed) ==
  /\ ranker = {} /\ \A i \in DOMAIN file : Parses(file[i])
  /\ ranker' = {[kind |-> kind, evidence |-> evidence, indexed |-> indexed]}
  /\ todo' = file /\ results' = <<>> /\ compared' = {}
  /\ UNCHANGED <<latest, vars>>

\* PipelineRanker on the next row.
RankRow(h) ==
  /\ todo # <<>>
  /\ \E run \in {x \in ranker : x.kind = "pipeline"} :
       LET q      == Head(todo)
           r      == Retrieved(h, text, IndexOf(text))
           route  == decide_route(r)
           ranked == RankExperts(q, r, route, run.evidence)
       IN  /\ results' = Append(results, Result(q, ranked, route, PredictedTopics(r.past), {}))
           /\ compared' = {[ranked |-> ranked, departed |-> r.by \cap r.departed,
                            shown |-> Shown(q, r, route, run.evidence)]}
  /\ todo' = Tail(todo)
  /\ UNCHANGED <<ranker, latest, vars>>

\* GraphRanker on the next row: the checkpoint a fresh thread is left in, or a run
\* that raises.
GraphRow ==
  /\ todo # <<>> /\ \E run \in ranker : run.kind = "graph"
  /\ \/ \E f \in Finals : results' = Append(results,
          Result(Head(todo), f.recs, FinalRoute(f), f.topics, f.cited))
     \/ results' = Append(results, Result(Head(todo), <<>>, "none", <<>>, {}))
  /\ todo' = Tail(todo)
  /\ UNCHANGED <<ranker, compared, latest, vars>>

\* The report.  A run of the pipeline without embeddings is not stored.
Report ==
  /\ todo = <<>>
  /\ \E run \in ranker :
       latest' = IF run.kind = "pipeline" /\ run.indexed THEN {Evaluate(results)} ELSE latest
  /\ ranker' = {}
  /\ UNCHANGED <<todo, results, compared, vars>>

EvalNext ==
  \/ \E kind \in {"pipeline", "graph"}, file \in Files, evidence \in Known, indexed \in BOOLEAN :
       StartEval(kind, file, evidence, indexed)
  \/ \E h \in Nearness : RankRow(h)
  \/ GraphRow \/ Report

\* Beside a company that goes on.
EvalSpec == Init /\ EvalInit /\ [][EvalNext \/ (Next /\ UNCHANGED evalVars)]_<<vars, evalVars>>

-----------------------------------------------------------------------------
(* Properties *)

\* "Mirror the production graph so the metrics reflect what the product shows"
\* (_rank_experts): the top of an evaluated ranking is what C6 shows for the same
\* search, except that the pin of the evaluation is not asked whether they left.
MirrorsProduct ==
  \A c \in compared : c.departed = {} => Cut(c.ranked, Slots) = c.shown

\* A row's measures agree with each other: the first is a hit, a hit among three
\* bounds the reciprocal rank, recall is full when no more could be found, and a row
\* that cites sources is an answer of the system's own (recall_at_k, decision_class).
MeasuresAgree(rows) ==
  \A i \in DOMAIN rows :
    LET r == rows[i]
        top == ToSet(Cut(r.ranked, RecallK))
    IN  /\ r.gold # {} =>
             /\ Top1(r) <=> ReciprocalRank(r) = Unit
             /\ HitAt(r, RecallK) <=> ReciprocalRank(r) * RecallK >= Unit
             /\ HitAt(r, RecallK) <=> RecallAt(r, RecallK) > 0
             /\ r.gold \subseteq top \/ (top \subseteq r.gold /\ Cardinality(top) = RecallK)
                  <=> RecallAt(r, RecallK) = Unit
        /\ r.cited # {} => DecisionOf(r.route) = "self_answer"

\* A figure of the parts there are, put together.
OverLayers(layers, k) ==
  LET of(l) == IF l \in DOMAIN layers THEN layers[l][k] ELSE 0
  IN  of("L1") + of("L2") + of("L3") + of("L4")

OverDecisions(decisions, k) ==
  LET of(d) == IF d \in DOMAIN decisions THEN decisions[d][k] ELSE 0
  IN  of("self_answer") + of("route") + of("abstain")

\* The layers and the decisions split the rows: no row is in two, none in none
\* ("a healthy aggregate can hide an L2/L3 regression", evaluate_by_difficulty).
PartsAddUp(rows) ==
  LET whole == Evaluate(rows)
      layers == ByDifficulty(rows)
      decisions == Decisions(rows)
  IN  /\ DOMAIN layers \subseteq Difficulties /\ DOMAIN decisions \subseteq DecisionClasses
      /\ \A k \in DOMAIN whole : whole[k] = OverLayers(layers, k)
      /\ whole.n = OverDecisions(decisions, "support")
      /\ whole.n = whole.n_routed + whole.n_abstain
      /\ whole.route <= OverDecisions(decisions, "hits")
      /\ TopicAccuracy(rows).at1 <= TopicAccuracy(rows).at3
      /\ SourceQuality(rows).recall <= Unit * SourceQuality(rows).n_cited

\* What the evaluation reports is about what the product shows, and the figures of
\* its rows agree with each other.
EvaluationSound ==
  /\ MirrorsProduct
  /\ results # <<>> => MeasuresAgree(results) /\ PartsAddUp(results)

=============================================================================
