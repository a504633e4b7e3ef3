----------------------------- MODULE AgentGraph -----------------------------
(***************************************************************************)
(* The C1-C8 LangGraph flow of agent/graph.py and agent/nodes.py as a      *)
(* state machine over its durable checkpoint: `node` is the node the graph *)
(* will run next (snapshot.next, "END" when it is empty) and `values` the  *)
(* part of AgentState that a router, a later node or the service reads.    *)
(*                                                                         *)
(* What the models behind the nodes compute (intent, sufficiency,          *)
(* retrieval, route, verdicts, scores) is a choice from the finite set of  *)
(* answers the node accepts.  Flags that only the router right after their *)
(* node reads (out_of_scope, sufficient, intent_unresolved, answerable,    *)
(* outcome) are that choice; they are not kept.                            *)
(***************************************************************************)
EXTENDS Naturals, Sequences, FiniteSets, Functions

CONSTANTS
  People,          \* employees other than the asker, whom the scorer drops
  TopK,            \* slots C6 fills (3 in the code)
  MaxFollowups,    \* MAX_FOLLOWUPS: clarifications before C2 stops asking
  Questions,       \* question ids the session may carry, a set 1..n
  CriticWired,     \* #70 answerability critic compiled in
  SelfAnswerWired, \* #291 self-answer composer compiled in
  KnowledgeWired,  \* #357 knowledge answer compiled in
  AdditiveWired,   \* #413 additive answer enabled (needs the composer)
  None             \* Python's None where a person is expected

ASSUME GraphAssumption ==
  /\ IsFiniteSet(People) /\ None \notin People
  /\ TopK \in Nat \ {0}
  /\ MaxFollowups \in Nat
  /\ Questions \subseteq Nat \ {0}
  /\ {CriticWired, SelfAnswerWired, KnowledgeWired, AdditiveWired} \subseteq BOOLEAN

VARIABLES node, values

graphVars == <<node, values>>

-----------------------------------------------------------------------------
(* Types *)

Routes == {"person", "prior_answer", "document"}

Terminals == {"c8_update", "off_topic", "document", "no_candidate",
              "unresolved_intent", "no_expert", "self_answered"}

InterruptNodes == {"ask", "send"}

Nodes == Terminals \cup InterruptNodes \cup
         {"c1_intent", "c2_sufficiency", "c3_embed", "knowledge_answer",
          "c4_retrieve", "c5_route", "self_answer", "additive_answer",
          "prior_answer", "c6_score", "answerability", "c7_draft", "reroute"}

Finished == "END"

AgentState ==
  [ qid         : Questions \cup {0},      \* question_id, 0 before the first /ask
    topics      : BOOLEAN,                 \* C1 found at least one topic
    followups   : Nat,                     \* followup_count
    pool        : SUBSET People,           \* retrieval.candidate_people
    route       : Routes,
    grounded    : BOOLEAN,                 \* self_answer_grounded
    pinned      : People \cup {None},      \* pinned_responder_id
    referred    : People \cup {None},      \* referred_responder_id
    declined    : SUBSET People,           \* declined_ids
    recs        : Seq(People),             \* recommendations, by person_id
    fallback    : People \cup {None},      \* fallback_responder
    \* written by the service, carried and cleared by the graph:
    recIds      : Seq(Nat),                \* recommendation_ids
    primary     : Nat,                     \* primary_recommendation_id, 0 for None
    fallbackReq : BOOLEAN,                 \* document_fallback_requested
    lastEvent   : {"none", "done", "message"} ]

\* A thread no run has written yet: get_state returns no values, and the
\* service reads every missing key as its empty default.
Unwritten ==
  [ qid |-> 0, topics |-> FALSE, followups |-> 0, pool |-> {},
    route |-> "person", grounded |-> FALSE, pinned |-> None,
    referred |-> None, declined |-> {}, recs |-> <<>>, fallback |-> None,
    recIds |-> <<>>, primary |-> 0, fallbackReq |-> FALSE,
    lastEvent |-> "none" ]

GraphTypeOK ==
  /\ node \in Nodes \cup {Finished}
  /\ values \in AgentState

Goto(n) == node' = n

Shown == Range(values.recs)

-----------------------------------------------------------------------------
(* START and C1 .. C5 *)

\* reset: a fresh invoke clears the per-question fields.  fallback and
\* fallbackReq are not among the fields it returns, so they survive.
ResetValues(q) ==
  [Unwritten EXCEPT !.qid = q, !.fallback = values.fallback,
                    !.fallbackReq = values.fallbackReq]

Invoke(q) ==
  /\ values' = ResetValues(q)
  /\ Goto("c1_intent")

C1Intent ==
  /\ node = "c1_intent"
  /\ \E t \in BOOLEAN : values' = [values EXCEPT !.topics = t]
  /\ \E n \in {"off_topic", "c2_sufficiency"} : Goto(n)

\* Capped without a topic ends the run; capped with one proceeds; otherwise the
\* model (or the can_route shortcut) decides.
C2Sufficiency ==
  /\ node = "c2_sufficiency"
  /\ IF values.followups >= MaxFollowups
       THEN Goto(IF values.topics THEN "c3_embed" ELSE "unresolved_intent")
       ELSE \E n \in {"c3_embed", "ask"} : Goto(n)
  /\ UNCHANGED values

\* Resumed with the asker's reply.
Ask ==
  /\ node = "ask"
  /\ values' = [values EXCEPT !.followups = @ + 1]
  /\ Goto("c1_intent")

C3Embed ==
  /\ node = "c3_embed"
  /\ Goto(IF KnowledgeWired THEN "knowledge_answer" ELSE "c4_retrieve")
  /\ UNCHANGED values

KnowledgeAnswer ==
  /\ node = "knowledge_answer"
  /\ \E g \in BOOLEAN :
       /\ values' = [values EXCEPT !.grounded = g]
       /\ Goto(IF g THEN "self_answered" ELSE "c4_retrieve")

C4Retrieve ==
  /\ node = "c4_retrieve"
  /\ \E pool \in SUBSET People : values' = [values EXCEPT !.pool = pool]
  /\ Goto("c5_route")

\* Mutant: the router's answer used as a node name.
RouteTargetUnmapped(r) == r

RouteTarget(r) ==
  CASE r = "person"       -> IF SelfAnswerWired /\ AdditiveWired
                               THEN "additive_answer" ELSE "c6_score"
    [] r = "prior_answer" -> IF SelfAnswerWired THEN "self_answer" ELSE "prior_answer"
    [] r = "document"     -> IF SelfAnswerWired THEN "self_answer" ELSE "c6_score"

C5Route ==
  /\ node = "c5_route"
  /\ \E r \in Routes : /\ values' = [values EXCEPT !.route = r]
                       /\ Goto(RouteTarget(r))

SelfAnswer ==
  /\ node = "self_answer"
  /\ \E g \in BOOLEAN :
       /\ values' = [values EXCEPT !.grounded = g]
       /\ Goto(IF g THEN "self_answered"
               ELSE IF values.route = "document" THEN "c6_score" ELSE "prior_answer")

AdditiveAnswer ==
  /\ node = "additive_answer"
  /\ Goto("c6_score")
  /\ UNCHANGED values

\* A past responder who left, or no past answer at all, pins nobody.
PriorAnswer ==
  /\ node = "prior_answer"
  /\ \E p \in People \cup {None} : values' = [values EXCEPT !.pinned = p]
  /\ Goto("c6_score")

-----------------------------------------------------------------------------
(* C6: fill the free slots, survivors first *)

\* Mutant: a pin that declined is seated again.
SeatableAgain(p) == p # None /\ p \notin Shown

Seatable(p) == p # None /\ p \notin values.declined /\ p \notin Shown

\* Mutant: the prior-answer pin beats the referral.
PinPriorFirst ==
  IF values.route = "prior_answer" /\ Seatable(values.pinned) THEN values.pinned
  ELSE IF Seatable(values.referred) THEN values.referred
  ELSE None

\* A responder's referral beats the prior_answer pin.
Pin ==
  IF Seatable(values.referred) THEN values.referred
  ELSE IF values.route = "prior_answer" /\ Seatable(values.pinned) THEN values.pinned
  ELSE None

\* Mutant: the pool is not filtered by declined_ids.
CandidatesUnfiltered == values.pool \ (Shown \cup {Pin})

Candidates == values.pool \ (values.declined \cup Shown \cup {Pin})

\* Every ranking of k distinct members of S: the score is not modelled, and it
\* moves between two passes with the candidates' load.
Rankings(S, k) == Injection(1..k, S)

Fresh ==
  LET free == TopK - Len(values.recs)
      head == IF Pin = None THEN <<>> ELSE <<Pin>>
      room == free - Len(head)
      k    == IF Cardinality(Candidates) < room THEN Cardinality(Candidates) ELSE room
  IN  IF ~values.topics \/ Len(values.recs) >= TopK THEN {<<>>}
      ELSE {head \o r : r \in Rankings(Candidates, k)}

HandoffTarget == IF CriticWired THEN "answerability" ELSE "c7_draft"

\* Mutants: hand off without looking at the candidates; forget the document
\* route; try another decline when nobody is left.
AfterC6Unchecked(route, recs) ==
  IF route = "document" THEN "document" ELSE HandoffTarget

AfterC6AnyRoute(route, recs) ==
  IF recs # <<>> THEN HandoffTarget ELSE "no_candidate"

AfterC6Retry(route, recs) ==
  IF route = "document" THEN "document"
  ELSE IF recs # <<>> THEN HandoffTarget
  ELSE "reroute"

AfterC6(route, recs) ==
  IF route = "document" THEN "document"
  ELSE IF recs # <<>> THEN HandoffTarget
  ELSE "no_candidate"

C6Score ==
  /\ node = "c6_score"
  /\ \E f \in Fresh :
       LET recs == values.recs \o f
       IN  /\ values' = [values EXCEPT !.recs = recs, !.referred = None]
           /\ Goto(AfterC6(values.route, recs))

-----------------------------------------------------------------------------
(* The critic, the hand-off loop and the terminals *)

Answerability ==
  /\ node = "answerability"
  /\ \E n \in {"c7_draft", "no_expert"} : Goto(n)
  /\ UNCHANGED values

C7Draft ==
  /\ node = "c7_draft"
  /\ Goto("send")
  /\ UNCHANGED values

\* Mutant: the router does not know the redraft of #260.
AfterSendNoRedraft(outcome) ==
  CASE outcome = "declined" -> "reroute"
    [] outcome = "accepted" -> "c8_update"
    [] OTHER                -> "send"

AfterSend(outcome) ==
  CASE outcome = "declined" -> "reroute"
    [] outcome = "accepted" -> "c8_update"
    [] outcome = "redraft"  -> "c7_draft"
    [] OTHER                -> "send"

\* Resumed with an outcome.
Send(outcome) ==
  /\ node = "send"
  /\ Goto(AfterSend(outcome))
  /\ UNCHANGED values

\* The top pick leaves; the survivors stay, except under a referral.
Reroute ==
  /\ node = "reroute"
  /\ values' = [values EXCEPT
        !.declined = IF values.recs = <<>> THEN @ ELSE @ \cup {Head(values.recs)},
        !.recs     = IF values.referred # None \/ @ = <<>> THEN <<>> ELSE Tail(@)]
  /\ Goto("c6_score")

Terminal ==
  /\ node \in Terminals
  /\ values' = IF node = "document"
                 THEN [values EXCEPT !.fallback =
                          IF values.recs = <<>> THEN None ELSE Head(values.recs)]
                 ELSE values
  /\ Goto(Finished)

\* Every node that runs without waiting for a human.
Compute ==
  \/ C1Intent \/ C2Sufficiency \/ C3Embed \/ KnowledgeAnswer \/ C4Retrieve
  \/ C5Route \/ SelfAnswer \/ AdditiveAnswer \/ PriorAnswer \/ C6Score
  \/ Answerability \/ C7Draft \/ Reroute \/ Terminal

-----------------------------------------------------------------------------
(* What the service writes into a resting checkpoint with update_state *)

\* The i-th element first, the others in their order.
MoveToFront(s, i) ==
  [k \in DOMAIN s |-> IF k = 1 THEN s[i] ELSE IF k <= i THEN s[k - 1] ELSE s[k]]

\* The asker reselects the i-th shown candidate; ids move with their people.
Reselect(i) ==
  /\ node = "send"
  /\ Len(values.recIds) = Len(values.recs)
  /\ LET ids == MoveToFront(values.recIds, i)
     IN  values' = [values EXCEPT !.recs = MoveToFront(@, i),
                                  !.recIds = ids, !.primary = ids[1]]
  /\ UNCHANGED node

Referable(p) ==
  /\ values.recs # <<>>
  /\ p # Head(values.recs)
  /\ p \notin values.declined

SeatReferral(p) ==
  /\ values' = [values EXCEPT !.referred = p]
  /\ UNCHANGED node

\* The asker turns a finished document answer into a hand-off, as if C6 had
\* just completed on the person route.
FallbackOffered ==
  /\ node = Finished
  /\ values.route = "document"
  /\ values.qid # 0
  /\ ~values.grounded
  /\ values.recs # <<>>
  /\ values.fallback # None
  /\ values.lastEvent = "message"

Reopen ==
  /\ FallbackOffered
  /\ values' = [values EXCEPT !.route = "person", !.fallback = None,
                              !.lastEvent = "none", !.fallbackReq = TRUE]
  /\ Goto(AfterC6("person", values.recs))

\* Mutant: nothing is written for a segment that inserted no rows.
WriteBackRowsOnly(ids, event) ==
  /\ values' = IF ids = <<>> THEN values ELSE
       [values EXCEPT !.recIds = ids, !.primary = Head(ids),
                      !.fallbackReq = FALSE,
                      !.lastEvent = IF event = "none" THEN @ ELSE event]
  /\ UNCHANGED node

\* The end of a streamed segment (_persist_run_state): the rows it inserted and
\* the terminal event it emitted, when there are any.
WriteBack(ids, event) ==
  /\ values' = [values EXCEPT
        !.recIds      = IF ids = <<>> THEN @ ELSE ids,
        !.primary     = IF ids = <<>> THEN @ ELSE Head(ids),
        !.fallbackReq = @ /\ ids = <<>>,
        !.lastEvent   = IF event = "none" THEN @ ELSE event]
  /\ UNCHANGED node

-----------------------------------------------------------------------------
(* The graph alone, driven by any legal sequence of service calls *)

Outcomes == {"accepted", "declined", "redraft"}

GraphInit == node = Finished /\ values = Unwritten

\* A new question on a finished thread, or a corrected one at the hand-off.
Start ==
  \/ node = Finished /\ \E q \in Questions : q > values.qid /\ Invoke(q)
  \/ node = "send" /\ Invoke(values.qid)

RecordSegment ==
  \/ /\ node = "send"
     /\ WriteBack([i \in DOMAIN values.recs |-> i], "none")
  \/ /\ node = Finished
     /\ values.qid # 0
     /\ \E e \in {"done", "message"} : WriteBack(<<>>, e)

\* A referral is written only together with the decline that consumes it.
Resume ==
  \/ Ask
  \/ \E o \in Outcomes : /\ values.referred # None => o = "declined"
                         /\ Send(o)

Steer ==
  /\ node = "send"
  /\ values.referred = None
  /\ \/ \E i \in DOMAIN values.recs : Reselect(i)
     \/ \E p \in People : Referable(p) /\ SeatReferral(p)

GraphNext == Compute \/ Start \/ Resume \/ Steer \/ RecordSegment \/ Reopen

GraphSpec == GraphInit /\ [][GraphNext]_graphVars /\ WF_graphVars(Compute)

-----------------------------------------------------------------------------
(* Properties *)

\* A candidate the asker is shown was not declined, excluded or referred away
\* earlier in the question, holds one slot only, and at most TopK are shown:
\* the survivors C6 keeps, the referral or prior-answer pin and the fresh
\* ranking never overlap (nodes.py c6_score, reroute).
ShownNotDeclined ==
  /\ Len(values.recs) <= TopK
  /\ IsInjective(values.recs)
  /\ Shown \cap values.declined = {}

\* c7_draft takes recommendations[0] without a check, and send hands the draft to
\* that person: no path of corrections, declines, referrals, empty pools or
\* fallbacks reaches the hand-off with nobody to hand it to.
HandoffHasCandidate ==
  node \in {"answerability", "c7_draft", "send"} => values.recs # <<>>

\* A responder's referral comes out at rank 1, whatever the survivors, the
\* prior-answer pin and the pool were, and is consumed by that pass (c6_score).
ReferralSeated ==
  [][ node = "c6_score" /\ values.referred # None
        => Head(values'.recs) = values.referred /\ values'.referred = None ]_graphVars

\* On the document route nobody is asked: the run ends there until the asker
\* requests the fallback, so no document-routed question waits at the hand-off.
DocumentNeverWaits ==
  values.route = "document" => node \notin {"answerability", "c7_draft", "send", "reroute"}

\* Who is shown, who is handed to and who waits fit together at every checkpoint,
\* in whatever order the asker and the responders interrupt the run.
GraphSafe == ShownNotDeclined /\ HandoffHasCandidate /\ DocumentNeverWaits

\* Declining cannot go on for ever: each decline removes one more person for the
\* rest of the question, so an endless chain of reroutes needs endless restarts.
DeclinesRunOut ==
  []<>(node = "reroute") => []<>(node = "c1_intent")

\* Once started, the graph comes to rest at a human or at its end (no cycle of
\* compute nodes, no node whose router leads nowhere).
ComesToRest ==
  node \notin InterruptNodes ~> node \in InterruptNodes \cup {Finished}

\* No endless run, neither of nodes nor of responders who decline.
GraphSettles == DeclinesRunOut /\ ComesToRest

=============================================================================
