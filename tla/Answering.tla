----------------------------- MODULE Answering ------------------------------
(***************************************************************************)
(* The C1-C8 graph with its models' answers in view: what C1 and C2 make   *)
(* of the text (llm/vllm.py, llm/schemas.py, agent/stubs.py), the screen   *)
(* in front of them (agent/safety.py), the sources a direct answer cites   *)
(* (retrieval/fragments.py, knowledge/answer.py) and whom the critic and   *)
(* the draft are about.  It implements EventReplay, and through it         *)
(* AgentGraph, over the same `node` and `values`.                          *)
(*                                                                         *)
(* A model answers anything its schema lets through; an answer the schema  *)
(* refuses, or no tool call at all, raises and leaves the checkpoint as it *)
(* was: the node has not run.  A text is the set of its telling markers.   *)
(***************************************************************************)
EXTENDS EventReplay, Lists

CONSTANTS
  Texts,          \* what an asker may type, each a subset of Markers
  PastAnswers,    \* qa ids C4 may retrieve
  Documents,      \* doc ids C4 may retrieve
  Dailies,        \* daily ids C4 may retrieve
  KnowledgeUnits, \* approved units
  MaxFragments,   \* DEFAULT_MAX_FRAGMENTS (6 in the code)
  TopUnits,       \* top_n of answer_from_knowledge (3 in the code)
  MaxCited        \* bound: how many ids a composer lists

\* "prefixed so it never collides with a qa/doc id in the citation whitelist"
\* (collect_cited_evidence).
ASSUME AnsweringAssumption ==
  /\ {MaxFragments, TopUnits, MaxCited} \subseteq Nat \ {0}
  /\ PastAnswers \cap Documents = {} /\ (PastAnswers \cup Documents) \cap Dailies = {}

VARIABLE run

answeringVars == <<node, values, live, marks, run>>

-----------------------------------------------------------------------------
(* Texts and the screen *)

Markers == {"injection", "solicitation", "possession", "personal", "exfiltration", "secret"}

\* scan_disallowed.  Spaces are stripped before matching, so the markers of a
\* question are those of everything folded into it.
Disallowed(text) ==
  \/ "injection" \in text
  \/ /\ "solicitation" \in text
     /\ \/ {"possession", "personal"} \subseteq text
        \/ "secret" \in text /\ text \cap {"possession", "exfiltration"} # {}

-----------------------------------------------------------------------------
(* C1: what a backend makes of a question *)

Invented == "invented"   \* an id or a topic that exists nowhere

Confidences == {0, 40, 50, 90}   \* hundredths, on both sides of the threshold

IntentThreshold == 50            \* INTENT_CONFIDENCE_THRESHOLD

RawIntent == [topics : SUBSET {"canonical", Invented}, signal : BOOLEAN,
              outOfScope : BOOLEAN, confidence : Confidences]

\* normalize_topics: what is off the vocabulary is dropped.
Canonical(topics) == topics \ {Invented}

\* signal stands for a product or a situation.
Uninformative(raw) == raw.topics = {} /\ ~raw.signal /\ raw.confidence = 0

\* VllmIntentModel: the topics are judged uninformative before they are snapped.
Analyzed(raw) == [topics    |-> Canonical(raw.topics) # {},
                  off       |-> raw.outOfScope \/ Uninformative(raw),
                  confident |-> raw.confidence >= IntentThreshold]

\* KeywordIntentModel: a topic or a product makes the question at least a
\* technical consultation, which adds to the confidence as a quote or a form does.
Weight(b, w) == IF b THEN w ELSE 0

KeywordConfidence(topic, product, typed) ==
  40 + Weight(topic, 25) + Weight(product, 15) + Weight(typed \/ topic \/ product, 10)

KeywordIntent(topic, product, typed) ==
  [topics |-> topic, off |-> FALSE,
   confident |-> KeywordConfidence(topic, product, typed) >= IntentThreshold]

KeywordIntents ==
  [topics : BOOLEAN, off : {TRUE}, confident : {TRUE}] \cup
  {KeywordIntent(t, p, q) : t, p, q \in BOOLEAN}

Intents == {Analyzed(raw) : raw \in RawIntent} \cup KeywordIntents

\* Mutant: the schema validator is dropped.
SchemaAcceptsAny(s) == TRUE

\* SufficiencySchema: an insufficient answer needs a question to ask.
SchemaAccepts(s) == s.sufficient \/ s.followup

ModelSufficiencies == {s \in [sufficient : BOOLEAN, followup : BOOLEAN] : SchemaAccepts(s)}

\* The rule model, where can_route has not skipped it: C1 left no topic or too
\* little confidence, so it asks until the cap.
RuleSufficiency == [sufficient |-> values.followups >= MaxFollowups,
                    followup   |-> values.followups < MaxFollowups]

Sufficiencies == ModelSufficiencies \cup {RuleSufficiency}

-----------------------------------------------------------------------------
(* Sources and citations *)

Retrieved(hits) == Range(hits.qa) \cup Range(hits.document) \cup Range(hits.daily)

NoHits == [qa |-> <<>>, document |-> <<>>, daily |-> <<>>]

Ranked(S) == UNION {Injection(1..k, S) : k \in 0..Cardinality(S)}

\* collect_cited_evidence: the channels interleaved, without the rows deleted or
\* emptied since the search, capped.
Evidence(hits, gone) ==
  LET left(s) == Only(s, Range(s) \ gone)
  IN  Cut(InTurns(<<left(hits.qa), left(hits.document), left(hits.daily)>>), MaxFragments)

\* Mutant: the model's list is taken as it is.
CitedAsListed(evidence, listed) == listed

\* The ids the model was given, each once, in its order.
Cited(evidence, listed) == Distinct(Only(listed, Range(evidence)))

\* SelfAnswerSchema: a grounded answer lists at least one id, some perhaps invented.
Listings == UNION {[1..k -> PastAnswers \cup Documents \cup Dailies \cup {Invented}] : k \in 1..MaxCited}

\* The template composer cites all it was given.
TemplateCited(evidence) == evidence

\* compose: the citations of a grounded answer, <<>> when it is not grounded.
\* Without evidence no model is asked.
Composed(evidence) ==
  IF evidence = <<>> THEN {<<>>}
  ELSE {<<>>, TemplateCited(evidence)} \cup {Cited(evidence, l) : l \in Listings}

\* answer_from_knowledge: the best approved units above the floor.
KnowledgeAnswers == {Cut(u, TopUnits) : u \in Ranked(KnowledgeUnits)}

-----------------------------------------------------------------------------
(* The critic *)

AnswerabilityThreshold == 40

ModelScores == {0, 39, 40, 100}

RuleScore(lines) == IF 40 + 20 * lines < 100 THEN 40 + 20 * lines ELSE 100

\* assess: nobody to judge scores 0 without the model.
Scores(lines) == IF lines = 0 THEN {0} ELSE ModelScores \cup {RuleScore(lines)}

-----------------------------------------------------------------------------
(* State *)

Run == [question   : SUBSET Markers,
        confident  : BOOLEAN,              \* intent_confidence >= threshold, until C2 reads it
        followup   : BOOLEAN,              \* the run asks, and followup_question is a question
        hits       : [qa : Seq(PastAnswers), document : Seq(Documents), daily : Seq(Dailies)],
        cited      : Seq(PastAnswers \cup Documents \cup Dailies \cup KnowledgeUnits),
        extra      : Seq(PastAnswers \cup Documents \cup Dailies),  \* additive_citations
        answerable : BOOLEAN,
        judged     : SUBSET People,        \* history: whom the stored verdict is about
        draft      : People \cup {None}]   \* whom the stored draft addresses

Blank(text) == [question |-> text, confident |-> FALSE, followup |-> FALSE,
                hits |-> NoHits, cited |-> <<>>, extra |-> <<>>,
                answerable |-> FALSE, judged |-> {}, draft |-> None]

AnsweringInit == ReplayInit /\ run = Blank({})

-----------------------------------------------------------------------------
(* The nodes that ask a model or touch its answers *)

\* Mutant: the asker's reply is not screened again.
ScreenedOutFirst == values.followups = 0 /\ Disallowed(run.question)

ScreenedOut == Disallowed(run.question)

Understand ==
  /\ node = "c1_intent"
  /\ IF ScreenedOut
       THEN /\ values' = [values EXCEPT !.topics = FALSE]
            /\ run' = [run EXCEPT !.confident = FALSE]
            /\ Goto("off_topic")
       ELSE \E intent \in Intents :
            /\ values' = [values EXCEPT !.topics = intent.topics]
            /\ run' = [run EXCEPT !.confident = intent.confident]
            /\ Goto(IF intent.off THEN "off_topic" ELSE "c2_sufficiency")

\* Mutant: the model may ask again and again.
AfterC2Uncapped(s) == IF s.sufficient THEN "c3_embed" ELSE "ask"

\* can_route skips the model; the cap overrules it.
AfterC2(s) ==
  IF values.followups >= MaxFollowups
    THEN IF values.topics THEN "c3_embed" ELSE "unresolved_intent"
    ELSE IF s.sufficient THEN "c3_embed" ELSE "ask"

Suffice ==
  /\ node = "c2_sufficiency"
  /\ \/ /\ values.topics /\ run.confident
        /\ run' = [run EXCEPT !.confident = FALSE, !.followup = FALSE]
        /\ Goto("c3_embed")
     \/ /\ ~(values.topics /\ run.confident)
        /\ \E s \in Sufficiencies :
             /\ run' = [run EXCEPT !.confident = FALSE,
                                  !.followup = s.followup /\ AfterC2(s) = "ask"]
             /\ Goto(AfterC2(s))
  /\ UNCHANGED values

\* An empty reply leaves the question as it is.
Reply ==
  /\ Ask
  /\ \E text \in Texts : run' = [run EXCEPT !.question = @ \cup text, !.followup = FALSE]

TryKnowledge ==
  /\ node = "knowledge_answer"
  /\ \E units \in KnowledgeAnswers :
       /\ values' = [values EXCEPT !.grounded = units # <<>>]
       /\ run' = IF units = <<>> THEN run ELSE [run EXCEPT !.cited = units]
       /\ Goto(IF units # <<>> THEN "self_answered" ELSE "c4_retrieve")

Search ==
  /\ C4Retrieve
  /\ \E a \in Ranked(PastAnswers), d \in Ranked(Documents), r \in Ranked(Dailies) :
       run' = [run EXCEPT !.hits = [qa |-> a, document |-> d, daily |-> r]]

Gone == SUBSET Retrieved(run.hits)

AnswerDirectly ==
  /\ node = "self_answer"
  /\ \E gone \in Gone : \E cited \in Composed(Evidence(run.hits, gone)) :
       /\ values' = [values EXCEPT !.grounded = cited # <<>>]
       /\ run' = IF cited = <<>> THEN run ELSE [run EXCEPT !.cited = cited]
       /\ Goto(IF cited # <<>> THEN "self_answered"
               ELSE IF values.route = "document" THEN "c6_score" ELSE "prior_answer")

\* Best effort: below the floor, or when the composer raises, it adds nothing.
AnswerBeside ==
  /\ AdditiveAnswer
  /\ \E gone \in Gone : \E cited \in {<<>>} \cup Composed(Evidence(run.hits, gone)) :
       run' = IF cited = <<>> THEN run ELSE [run EXCEPT !.extra = cited]

Judge ==
  /\ node = "answerability"
  /\ \E score \in Scores(Len(values.recs)) :
       LET ok == score >= AnswerabilityThreshold
       IN  /\ run' = [run EXCEPT !.answerable = ok, !.judged = Shown]
           /\ Goto(IF ok THEN "c7_draft" ELSE "no_expert")
  /\ UNCHANGED values

Write == C7Draft /\ run' = [run EXCEPT !.draft = Head(values.recs)]

Withdraw == Reroute /\ run' = [run EXCEPT !.draft = None]

Rest ==
  /\ \/ C3Embed \/ C5Route \/ PriorAnswer \/ C6Score \/ Terminal
  /\ UNCHANGED run

AnsweringCompute ==
  /\ \/ Understand \/ Suffice \/ TryKnowledge \/ Search \/ AnswerDirectly \/ AnswerBeside
     \/ Judge \/ Write \/ Withdraw \/ Rest
  /\ Told
  /\ node = "additive_answer" => ("reference" \in marks') = (run'.extra # <<>>)

-----------------------------------------------------------------------------
(* The service *)

\* A new question, or a corrected one, on the same thread.
NewQuestion ==
  /\ Start
  /\ \E text \in Texts : run' = Blank(text)
  /\ live' = {} /\ marks' = Cleared

\* Mutant: a reselected candidate gets the text written for the one before.
RedraftedKept(i) == run.draft

\* select_handoff_candidate drafts anew; update_state writes order and draft at once.
Redrafted(i) == values.recs[i]

Choose ==
  /\ node = "send" /\ values.referred = None
  /\ \E i \in DOMAIN values.recs : Reselect(i) /\ run' = [run EXCEPT !.draft = Redrafted(i)]
  /\ UNCHANGED <<live, marks>>

SeatReferred ==
  /\ node = "send" /\ values.referred = None
  /\ \E p \in People : Referable(p) /\ SeatReferral(p)
  /\ UNCHANGED <<live, marks, run>>

Outcome ==
  /\ \E o \in Outcomes : Send(o) /\ (values.referred # None => o = "declined")
  /\ UNCHANGED <<live, marks, run>>

FallBack == Reopen /\ Undrafted /\ run' = [run EXCEPT !.draft = None]

AnsweringNext ==
  \/ AnsweringCompute
  \/ NewQuestion
  \/ Reply /\ UNCHANGED <<live, marks>>
  \/ Choose \/ SeatReferred \/ Outcome \/ FallBack
  \/ RecordSegment /\ UNCHANGED <<live, marks, run>>

AnsweringSpec ==
  AnsweringInit /\ [][AnsweringNext]_answeringVars /\ WF_graphVars(Compute)

-----------------------------------------------------------------------------
(* Properties *)

\* A direct answer, and one shown beside a hand-off, cites at least one source,
\* each once, all of them among what this question retrieved or all of them
\* approved units: nothing invented, nothing of the question before on the same
\* thread, and no row that the composer was not shown.  The two never come together.
AnswersCited ==
  /\ values.grounded =>
       /\ run.cited # <<>> /\ IsInjective(run.cited)
       /\ \/ Range(run.cited) \subseteq Retrieved(run.hits)
          \/ Range(run.cited) \subseteq KnowledgeUnits /\ Len(run.cited) <= TopUnits
  /\ IsInjective(run.extra) /\ Len(run.extra) <= MaxFragments
  /\ Range(run.extra) \subseteq Retrieved(run.hits)
  /\ run.extra # <<>> => ~values.grounded

\* Past C1 every text that was folded into the question has been screened together
\* with the rest, and a run that stops for a reply has something to ask.
TextScreened ==
  /\ node \notin {"c1_intent", "off_topic", Finished} => ~Disallowed(run.question)
  /\ node = "ask" => run.followup

\* A hand-off is vetted as it is shown: the critic's favourable verdict is about
\* exactly the candidates shown, after whatever declines, referrals, reselections
\* and fallbacks, and the draft addresses the first of them.
HandoffVetted ==
  /\ node \in {"c7_draft", "send"} /\ CriticWired => run.answerable /\ run.judged = Shown
  /\ node = "send" => run.draft = Head(values.recs)

\* Whatever reaches a person, asker or responder, was screened and vetted first.
PeopleSeeVetted == TextScreened /\ HandoffVetted

\* With its models' answers in view the graph still takes only the steps AgentGraph
\* and EventReplay allow.
AnsweringRefines == [][ReplayNext]_replayVars

=============================================================================
