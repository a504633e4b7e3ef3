----------------------------- MODULE MCPipeline -----------------------------
(***************************************************************************)
(* Instances of Pipeline and Evaluation for TLC: two concurrent searches   *)
(* over three past answers, answered or not, four colleagues for two       *)
(* slots; or the evaluation of two rows beside that company.               *)
(***************************************************************************)
EXTENDS Evaluation, TLC

CONSTANTS s1, s2

VARIABLE offline   \* the behaviour is an evaluation's

MCSearches == {s1, s2}
MCStaff == 1..4
MCAnswers == 1..3
MCAsked == 1..2
MCBy == [a \in 1..3 |-> a]
MCOf == 1 :> 1 @@ 2 :> 1 @@ 3 :> 2
MCReuse == 1 :> 0 @@ 2 :> 3 @@ 3 :> 0
MCNear == {0, 30, 60}

Far(S) == [x \in S |-> 0]

Close(near) == [a \in MCAnswers |-> IF a \in near THEN 60 ELSE 0]

Likes(near) == [p \in MCStaff |-> IF p \in near THEN 30 ELSE 0]

\* Nearness to answers and to a question, with a clear favourite by profile; and
\* nearness to people and documents.
MCHits ==
  { [answers |-> a, asked |-> 1 :> q @@ 2 :> 0, document |-> 30,
     people |-> 1 :> 30 @@ 2 :> 0 @@ 3 :> 0 @@ 4 :> 60, words |-> {}] :
       a \in {Close({}), Close({2}), Close({1, 3}), Close(MCAnswers)}, q \in {0, 60} }
  \cup
  { [answers |-> Far(MCAnswers), asked |-> Far(MCAsked), document |-> d,
     people |-> Likes(near), words |-> {2}] :
       d \in {0, 30}, near \in {{1}, {2, 3, 4}} }

\* 100 (1 - exp(-x / 100)), roughly.
MCSaturate == [x \in 0..400 |-> (100 * x) \div (x + 60)]

Nothing == [helpful |-> 0, lead |-> 0, answer |-> 0, cert |-> 0,
            member |-> 0, skill |-> 0, consult |-> 0, daily |-> 0]

MCEvidence ==
  { [solid |-> [Nothing EXCEPT !.answer = 1], consults |-> <<>>, load |-> 75],
    [solid |-> [Nothing EXCEPT !.skill = 1, !.daily = 2], consults |-> <<>>, load |-> 0],
    [solid |-> Nothing, consults |-> <<"unresolved", "resolved", "partial">>, load |-> 0] }

\* Only C6 reads a result, and C6 reads nothing else: the seats of a result are
\* explored on when the process is quiet, from one corpus and company.
Quiet ==
  /\ seated = {}
  /\ found # {} => /\ \A s \in MCSearches : search[s] = Idle
                   /\ text = [a \in MCAnswers |-> "match"]
                   /\ changes = 0

MCTopics == {1, 2}
MCTopicsOf == 1 :> {1} @@ 2 :> {2} @@ 3 :> {1, 2}

Row(topics, experts, alt, route, layer, source) ==
  [topics |-> topics, experts |-> experts, alt |-> alt, route |-> route,
   layer |-> layer, source |-> source]

\* As in eval_person.json: somebody to find, a source to cite, nobody to ask.
Rows == { Row({1}, {2, 3}, {1}, "person", "L2", {}),
          Row({2}, {1, 2, 3, 4}, {}, "prior_answer", "L1", {"qa"}),
          Row({1}, {4}, {1}, "document", "L3", {"doc"}),
          Row({}, {}, {}, "none", "L4", {}) }

Misspelt == Row({1}, {4}, {}, "persn", "L1", {})

MCFiles == {<<a, b>> : a \in Rows, b \in Rows} \cup {<<Misspelt>>}

MCNearness ==
  {h \in MCHits :
     \/ h.words # {} /\ h.people[3] = 30
     \/ h.asked[1] = 0 /\ h.answers \in {Close({}), Close({2}), Close({1, 3})}}

MCKnown ==
  LET strong == CHOOSE e \in MCEvidence : e.solid.answer = 1
      weak   == CHOOSE e \in MCEvidence : e.solid.skill = 1
  IN  {[p \in MCStaff |-> IF p \in S THEN strong ELSE weak] : S \in {{1, 2}, {4}}}

Final(grounded, answerable, route, asks, recs, cited) ==
  [grounded |-> grounded, answerable |-> answerable, route |-> route, asks |-> asks,
   recs |-> recs, topics |-> <<1>>, cited |-> cited]

\* Where a thread of the agent graph stops on its first run.
MCFinals ==
  { Final(FALSE, "unasked", "none", TRUE, <<>>, {}),
    Final(TRUE, "unasked", "none", FALSE, <<>>, {"qa"}),
    Final(TRUE, "unasked", "prior_answer", FALSE, <<>>, {"qa", "doc"}),
    Final(FALSE, "yes", "person", FALSE, <<2, 4>>, {}),
    Final(FALSE, "no", "person", FALSE, <<1, 3>>, {}),
    Final(FALSE, "unasked", "document", FALSE, <<>>, {}),
    Final(FALSE, "unasked", "none", FALSE, <<>>, {}) }

\* Bounds of the evaluation's part: one run; somebody left, or an answer went, before
\* it; the embeddings are missing, and the graph is run, in one database only.
OfflineBounded ==
  /\ \A a \in MCAnswers : text[a] # "plain"
  /\ changes + Cardinality({a \in MCAnswers : text[a] = "absent"}) <= 1
  /\ (\E run \in ranker : ~run.indexed \/ run.kind = "graph") =>
       changes = 0 /\ \A a \in MCAnswers : text[a] = "match"

MCInit == Init /\ EvalInit /\ offline \in BOOLEAN /\ (offline => OfflineBounded)

Product == ~offline /\ Next /\ UNCHANGED <<evalVars, offline>>

Offline ==
  /\ offline
  /\ \/ EvalNext /\ (ranker = {} => results = <<>>)
     \/ /\ ranker = {} /\ results = <<>>
        /\ \E p \in MCStaff : Leave(p)
        /\ UNCHANGED evalVars
  /\ OfflineBounded'
  /\ UNCHANGED offline

MCSpec == MCInit /\ [][Product \/ Offline]_<<vars, evalVars, offline>>
=============================================================================
