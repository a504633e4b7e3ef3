---------------------------- MODULE MCAgentGraph ----------------------------
(***************************************************************************)
(* Instances of EventReplay and of Answering, which implements it, for     *)
(* TLC: three colleagues for two slots and two questions, without symmetry *)
(* because liveness is checked.  A behaviour is of one of the two modules  *)
(* from its start to its end; the detailed ones have two colleagues.       *)
(***************************************************************************)
EXTENDS Answering

CONSTANTS p1, p2, p3, a1, d1, r1, k1, k2

VARIABLE detailed   \* the behaviour is Answering's

MCPeople == {p1, p2, p3}

MCQuestions == 1..2

\* Harmless alone, and together not.
MCTexts == {{}, {"solicitation"}, {"possession", "personal"}}

MCInit == AnsweringInit /\ detailed \in BOOLEAN

Replaying == ~detailed /\ ReplayNext /\ UNCHANGED <<run, detailed>>

\* Bounds of the detailed behaviours: C4 finds nobody or the same two colleagues,
\* and only the first question on the thread is typed with care.
Bounded == values'.pool \in {{}, {p1, p2}} /\ (values'.qid = 2 => run'.question = {})

Detailing == detailed /\ AnsweringNext /\ Bounded /\ UNCHANGED detailed

MCSpec ==
  /\ MCInit
  /\ [][Replaying \/ Detailing]_<<answeringVars, detailed>>
  /\ WF_graphVars(Compute)

\* Every cited source is one that was retrieved or approved for this question, and
\* every text or candidate a person is shown was screened and vetted as shown
\* (Answering's AnswersCited and PeopleSeeVetted, where its detail is there).
AnsweringSafe == detailed => AnswersCited /\ PeopleSeeVetted

=============================================================================
