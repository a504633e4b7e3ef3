------------------------------- MODULE MCDesk -------------------------------
(***************************************************************************)
(* Instances of Desk and of Reports for TLC: the screens around one        *)
(* question, and those over all of them.  A behaviour is of one of the two *)
(* modules from its start to its end.                                      *)
(***************************************************************************)
EXTENDS Desk, Reports, TLC

CONSTANTS p1, p2, w1, w2

VARIABLE company   \* the behaviour is Reports'

TwoPeople == {p1, p2}
TwoWriteUps == {w1, w2}

Twins == Permutations(TwoPeople) \cup Permutations(TwoWriteUps)

MCQuestions == {1, 2}
MCStaff == {1, 2}
MCDepartment == 1 :> "sales" @@ 2 :> "support"
MCFirstMonth == <<2024, 12>>

\* Bound of the desk's part: after a crash a question is deleted before a bell rings.
DeskBounded == deleting # 0 /\ crashes > 0 => shown = {}

AtTheDesk == ~company /\ Next /\ DeskBounded' /\ UNCHANGED <<reportVars, company>>

\* Bounds of the company's part: documents and units come beside one hand-off at most
\* and no write-up; the second question is asked of a person after the first, and its
\* asker does not change their mind; the seeded answer is the first colleague's.
CompanyBounded ==
  /\ docs \cup cases # {} => Cardinality(handoffs) <= 1 /\ consults = {} /\ Cardinality(asked) <= 2
  /\ \A x \in asked : x.id = 2 => x.route = "person" /\ x.kind = Unset
  /\ \A a \in written : a.id = 0 => a.who = 1
  /\ (\E x \in asked : x.id = 2) =>
       \E x \in asked : x.id = 1 /\ x.route = "person" /\ \E h \in handoffs : h.q = 1

MCInit == Init /\ ReportInit /\ CompanyBounded /\ company \in BOOLEAN

InTheCompany ==
  /\ company /\ CompanyBounded
  /\ ReportNext
  /\ CompanyBounded'
  /\ UNCHANGED <<vars, company>>

MCSpec == MCInit /\ [][AtTheDesk \/ InTheCompany]_<<vars, reportVars, company>>

\* The dashboard, the history and the library describe the same rows.  (The reports
\* stand still while the desk moves: the two properties are of the company's
\* behaviours.)
CompanyReports == company => ReportsAgree

\* A month that is over keeps its figure on the dashboard, unless a question goes
\* (_knowledge_accumulation).
CompanyMonths == [][company => MonthsStand]_reportVars
=============================================================================
