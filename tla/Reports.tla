------------------------------- MODULE Reports ------------------------------
(***************************************************************************)
(* What the company sees of its questions: the dashboard                   *)
(* (data/dashboard.py), the history (data/history.py) and the knowledge    *)
(* library (data/knowledge_library.py), computed from rows that questions, *)
(* hand-offs, write-ups, documents and reviews leave behind month after    *)
(* month.                                                                  *)
(*                                                                         *)
(* A timestamp is its month, a pair <<year, month>>, which is the finest   *)
(* step the reports tell apart; ids order what happens within one.         *)
(***************************************************************************)
EXTENDS Lists, FiniteSetsExt, SequencesExt

CONSTANTS
  Questions,    \* ids of questions; the seeded one is 0
  Staff,
  Department,   \* of each colleague
  FirstMonth,   \* the month the behaviour starts in
  Unset,
  MaxMonths,    \* bound: months that pass
  MaxEntries    \* bound: hand-offs, and documents with units

Months == Int \X (1..12)

ASSUME ReportsAssumption ==
  /\ Questions \subseteq Nat \ {0}
  /\ IsFiniteSet(Staff) /\ Staff \subseteq Int
  /\ FirstMonth \in Months
  /\ Unset \notin Months \cup {"person", "document", "self", "accepted", "declined"}
  /\ {MaxMonths, MaxEntries} \subseteq Nat

VARIABLES
  asked,     \* questions: id, route, status, kind, resolved
  handoffs,  \* recommendations: id, q, who, rank, outcome, shown
  written,   \* answers: id, q, who, at
  consults,  \* offline_consults: q, who, at, resolution
  docs,      \* documents: id, at
  cases,     \* knowledge_units: id, at, status
  today, passed

tables == <<asked, handoffs, written, consults, docs, cases>>
reportVars == <<tables, today, passed>>

-----------------------------------------------------------------------------
(* Months *)

AtLeast(a, b) == a[1] > b[1] \/ (a[1] = b[1] /\ a[2] >= b[2])

\* Mutant: January comes out as month 0.
MonthsBackZero(m, count) ==
  LET total == m[1] * 12 + m[2] - count IN <<total \div 12, total % 12>>

\* _months_back
MonthsBack(m, count) ==
  LET total == m[1] * 12 + (m[2] - 1) - count IN <<total \div 12, (total % 12) + 1>>

NextMonth(m) == IF m[2] = 12 THEN <<m[1] + 1, 1>> ELSE <<m[1], m[2] + 1>>

-----------------------------------------------------------------------------
(* The rows *)

Question(q) == CHOOSE x \in asked : x.id = q

\* The next id of a table.
Fresh(table) == Max({x.id : x \in table} \cup {0}) + 1

ReportInit ==
  /\ today = FirstMonth /\ passed = 0
  /\ asked = {[id |-> 0, route |-> Unset, status |-> "answered", kind |-> Unset,
               resolved |-> Unset]}
  /\ \E p \in Staff : written = {[id |-> 0, q |-> 0, who |-> p, at |-> FirstMonth]}
  /\ handoffs = {} /\ consults = {} /\ docs = {} /\ cases = {}

\* The route is recorded; a document answers at once.
Ask(q, route) ==
  /\ \A x \in asked : x.id # q
  /\ asked' = asked \cup
       {[id |-> q, route |-> route, status |-> "open", kind |-> Unset,
         resolved |-> IF route = "document" THEN today ELSE Unset]}
  /\ UNCHANGED <<handoffs, written, consults, docs, cases, today, passed>>

Open(q) ==
  /\ \E x \in asked : x.id = q /\ x.route = "person"
  /\ \A h \in handoffs : h.q = q => h.outcome = "declined"

HandOff(q, p) ==
  /\ Open(q) /\ Cardinality(handoffs) < MaxEntries
  /\ \A h \in handoffs : ~(h.q = q /\ h.who = p)
  /\ handoffs' = handoffs \cup {[id |-> Fresh(handoffs), q |-> q, who |-> p,
                                 rank |-> 1, outcome |-> Unset, shown |-> today]}
  /\ UNCHANGED <<asked, written, consults, docs, cases, today, passed>>

Decided(h, outcome) == handoffs' = (handoffs \ {h}) \cup {[h EXCEPT !.outcome = outcome]}

\* An acceptance by chat leaves the answer's text, a face-to-face one nothing.  The
\* first resolution keeps its time (mark_question_resolved).
Accept(h, text) ==
  /\ h.outcome = Unset
  /\ Decided(h, "accepted")
  /\ asked' = (asked \ {Question(h.q)}) \cup
       {[Question(h.q) EXCEPT !.resolved = IF @ = Unset THEN today ELSE @]}
  /\ written' = IF text
       THEN written \cup {[id |-> h.id, q |-> h.q, who |-> h.who, at |-> today]}
       ELSE written
  /\ UNCHANGED <<consults, docs, cases, today, passed>>

Decline(h) ==
  /\ h.outcome = Unset
  /\ Decided(h, "declined")
  /\ UNCHANGED <<asked, written, consults, docs, cases, today, passed>>

\* The retrospective of a consultation without an answer.
WriteUp(h, resolution) ==
  /\ h.outcome = "accepted" /\ \A c \in consults : c.q # h.q
  /\ \A a \in written : a.q # h.q
  /\ consults' = consults \cup {[q |-> h.q, who |-> h.who, at |-> today,
                                 resolution |-> resolution]}
  /\ UNCHANGED <<asked, handoffs, written, docs, cases, today, passed>>

\* mark_self_resolved, which nothing but an earlier resolution stops.
SolveSelf(q) ==
  /\ \E x \in asked :
       /\ x.id = q /\ x.resolved = Unset /\ x.route # Unset
       /\ asked' = (asked \ {x}) \cup {[x EXCEPT !.kind = "self", !.resolved = today]}
  /\ UNCHANGED <<handoffs, written, consults, docs, cases, today, passed>>

\* The asker of a document wants a person after all.
FallBackTo(q) ==
  /\ \E x \in asked :
       /\ x.id = q /\ x.route = "document"
       /\ asked' = (asked \ {x}) \cup
            {[x EXCEPT !.route = "person", !.kind = Unset, !.resolved = Unset]}
  /\ UNCHANGED <<handoffs, written, consults, docs, cases, today, passed>>

Delete(q) ==
  /\ \E x \in asked : x.id = q
  /\ asked' = {x \in asked : x.id # q}
  /\ handoffs' = {h \in handoffs : h.q # q}
  /\ written' = {a \in written : a.q # q}
  /\ consults' = {c \in consults : c.q # q}
  /\ UNCHANGED <<docs, cases, today, passed>>

Publish ==
  /\ Cardinality(docs) + Cardinality(cases) < MaxEntries
  /\ docs' = docs \cup {[id |-> Fresh(docs), at |-> today]}
  /\ UNCHANGED <<asked, handoffs, written, consults, cases, today, passed>>

\* A unit is captured, and reviewed.
Capture ==
  /\ Cardinality(docs) + Cardinality(cases) < MaxEntries
  /\ cases' = cases \cup {[id |-> Fresh(cases), at |-> today,
                           status |-> "unreviewed"]}
  /\ UNCHANGED <<asked, handoffs, written, consults, docs, today, passed>>

Review(c, status) ==
  /\ c.status = "unreviewed"
  /\ cases' = (cases \ {c}) \cup {[c EXCEPT !.status = status]}
  /\ UNCHANGED <<asked, handoffs, written, consults, docs, today, passed>>

MonthPasses ==
  /\ passed < MaxMonths
  /\ passed' = passed + 1 /\ today' = NextMonth(today)
  /\ UNCHANGED tables

ReportNext ==
  \/ \E q \in Questions :
       \/ \E r \in {"person", "document"} : Ask(q, r)
       \/ \E p \in Staff : HandOff(q, p)
       \/ SolveSelf(q) \/ FallBackTo(q) \/ Delete(q)
  \/ \E h \in handoffs :
       \/ \E text \in BOOLEAN : Accept(h, text)
       \/ Decline(h)
       \/ \E r \in {"resolved", "unresolved"} : WriteUp(h, r)
  \/ Publish \/ Capture
  \/ \E c \in cases, s \in {"approved", "rejected"} : Review(c, s)
  \/ MonthPasses

-----------------------------------------------------------------------------
(* The dashboard *)

\* Mutant: a captured answer is dated when its hand-off was shown.
CapturedAnswersShown ==
  UNION {{<<a.id, h.shown>> : h \in {h \in handoffs :
            h.q = a.q /\ h.who = a.who /\ h.outcome = "accepted"}} : a \in written}

\* _captured_answers_stmt: what the runtime wrote, not the fixtures.
CapturedAnswers ==
  {<<a.id, a.at>> : a \in {a \in written : \E h \in handoffs :
     h.q = a.q /\ h.who = a.who /\ h.outcome = "accepted"}}

PositiveConsults ==
  {<<c.q, c.at>> : c \in {c \in consults : c.resolution # "unresolved"}}

Since(S, from) == Cardinality({x \in S : AtLeast(x[2], from)})

Between(S, from, to) == Cardinality({x \in S : AtLeast(x[2], from) /\ ~AtLeast(x[2], to)})

Buckets == {MonthsBack(today, n) : n \in 0..5}

\* The accepted hand-offs shown this month, and those that left a record.
AcceptedNow == {h \in handoffs : h.outcome = "accepted" /\ AtLeast(h.shown, today)}

\* Mutant: as before #247 reached it, only a text is a record.
CapturedNowText ==
  {h \in AcceptedNow : \E a \in written : a.q = h.q /\ a.who = h.who}

\* The numerator of capture_rate over AcceptedNow.
CapturedNow ==
  {h \in AcceptedNow : \/ \E a \in written : a.q = h.q /\ a.who = h.who
                       \/ \E c \in consults : c.q = h.q /\ c.who = h.who}

KnowledgeAccumulation ==
  LET last == MonthsBack(today, 1)
  IN  [this_month |-> Since(CapturedAnswers, today) + Since(PositiveConsults, today),
       last_month |-> Between(CapturedAnswers, last, today)
                        + Between(PositiveConsults, last, today),
       monthly |-> [m \in Buckets |-> Cardinality({x \in CapturedAnswers : x[2] = m})
                                        + Cardinality({x \in PositiveConsults : x[2] = m})]]

AnswersOf(p) == Cardinality({a \in written : a.who = p})

\* Busiest first.
TopAnswerers(limit) ==
  Best({p \in Staff : AnswersOf(p) > 0}, [p \in Staff |-> AnswersOf(p)], limit)

\* _top_responder_share, as <<numerator, denominator>>.
TopResponderShare(limit) ==
  IF written = {} THEN <<0, 1>>
  ELSE <<AnswersOf(Head(TopAnswerers(limit))), Cardinality(written)>>

\* Mutant: who clicked "solved it myself" did.
SolvedByPersonNever(x) == FALSE

\* A person wins over everything else that was recorded.
SolvedByPerson(x) ==
  \/ x.status = "answered"
  \/ \E a \in written : a.q = x.id
  \/ \E h \in handoffs : h.q = x.id /\ h.rank = 1 /\ h.outcome = "accepted"

Routed == {x \in asked : x.route # Unset}

SelfResolved == {x \in Routed : x.route = "document" \/ (x.kind = "self" /\ ~SolvedByPerson(x))}

\* _avg_resolution_hours: when a question was solved, if it counts.
SolvedAt(x) ==
  IF x.resolved # Unset THEN {x.resolved} ELSE {a.at : a \in {a \in written : a.q = x.id}}

\* The history names the newest acceptance, else the first answer.
Responder(x) ==
  LET took == {h \in handoffs : h.q = x.id /\ h.rank = 1 /\ h.outcome = "accepted"}
      wrote == {a \in written : a.q = x.id}
  IN  IF took # {} THEN {h.who : h \in {h \in took : \A g \in took : g.id <= h.id}}
      ELSE {a.who : a \in {a \in wrote : \A b \in wrote : a.id <= b.id}}

\* recent_questions_for_asker: a person, else the click, else the document.
ResolutionOf(x) ==
  IF Responder(x) # {} \/ x.status = "answered" THEN "person"
  ELSE IF x.kind = "self" THEN "self"
  ELSE IF x.route = "document" THEN "document" ELSE "pending"

-----------------------------------------------------------------------------
(* The knowledge library *)

Newest(x, y) == ~AtLeast(y.at, x.at) \/ (x.at = y.at /\ x.id > y.id)

Item(kind, x) == [kind |-> kind, id |-> x.id]

NewestFirst(S) == InOrder(S, {p \in S \X S : Newest(p[1], p[2])})

Items(kind, S) == [i \in DOMAIN NewestFirst(S) |-> Item(kind, NewestFirst(S)[i])]

Matches(x, f) == f.since = Unset \/ AtLeast(x.at, f.since)

\* Of a question with several answers, the newest that matches.
QaItems(f) ==
  LET match == {a \in written :
                  Matches(a, f) /\ (f.department = Unset \/ Department[a.who] = f.department)}
  IN  Items("qa", {a \in match : \A b \in match : b.q = a.q => ~Newest(b, a)})

DocumentItems(f) ==
  IF f.department = Unset THEN Items("document", {d \in docs : Matches(d, f)}) ELSE <<>>

KnowledgeUnitItems(f) ==
  IF f.department = Unset
    THEN Items("knowledge", {c \in cases : c.status = "approved" /\ Matches(c, f)})
    ELSE <<>>

\* Mutant: one source after the other.
RoundRobinNot(sources) == FlattenSeq(sources)

\* zip_longest: the first of each source, the second of each, and so on.
RoundRobin(sources) == InTurns(sources)

ListKnowledge(f) == RoundRobin(<<QaItems(f), DocumentItems(f), KnowledgeUnitItems(f)>>)

Page(f, offset, limit) ==
  LET all == ListKnowledge(f)
  IN  SubSeq(all, offset + 1, IF offset + limit < Len(all) THEN offset + limit ELSE Len(all))

\* total_items of the summary.
TotalItems ==
  Cardinality({a.q : a \in written}) + Cardinality(docs)
    + Cardinality({c \in cases : c.status = "approved"})

-----------------------------------------------------------------------------
(* Properties *)

NoFilter == [department |-> Unset, since |-> Unset]

Filters == [department : {Department[p] : p \in Staff} \cup {Unset},
            since : {today, Unset}]

\* The hand-offs whose answer or write-up is in a figure of the trend.
CountedHandoffs ==
  {h.id : h \in {h \in handoffs :
     \/ \E a \in written : a.q = h.q /\ a.who = h.who /\ <<a.id, a.at>> \in CapturedAnswers
     \/ \E c \in consults : c.q = h.q /\ c.who = h.who /\ <<c.q, c.at>> \in PositiveConsults}}

\* The headline figures and the trend are drawn from the same months, over the
\* turn of the year too, and the capture rate leaves out no hand-off of this month
\* that they count as knowledge (_knowledge_accumulation).
TrendAgrees ==
  LET k == KnowledgeAccumulation
  IN  /\ Cardinality(Buckets) = 6 /\ today \in Buckets
      /\ k.monthly[today] = k.this_month
      /\ k.monthly[MonthsBack(today, 1)] = k.last_month
      /\ \A h \in handoffs : h.shown = today /\ h.id \in CountedHandoffs => h \in CapturedNow

\* "the KPI does not move when the caller changes how many responders it asks for"
\* (_top_responder_share).
ShareIsStable == \A n \in 1..Cardinality(Staff) : TopResponderShare(n) = TopResponderShare(1)

\* What the history calls resolved counts in the dashboard as it is called there,
\* and has a time of resolution.
HistoryAgrees ==
  \A x \in asked :
    /\ ResolutionOf(x) # "pending" => SolvedAt(x) # {}
    /\ x \in SelfResolved <=> x \in Routed /\ ResolutionOf(x) \in {"self", "document"}

\* Whatever the filter, the list shows each matching item once, a page is followed by
\* the one at the next offset, none of the three sources holds the others back from the
\* first pages, and the unfiltered list is as long as the summary says (list_knowledge,
\* _interleave).
LibraryIsWhole ==
  /\ Len(ListKnowledge(NoFilter)) = TotalItems
  /\ \A f \in Filters :
       LET all == ListKnowledge(f)
       IN  /\ Cardinality(ToSet(all)) = Len(all)
           /\ \A s \in {QaItems(f), DocumentItems(f), KnowledgeUnitItems(f)} :
                \A i \in DOMAIN s : s[i] \in ToSet(Page(f, 0, 3 * i))
           /\ Page(f, 0, Len(all)) = all
           /\ \A o \in 0..Len(all), n \in 1..2 :
                Page(f, o, n) \o Page(f, o + n, Len(all)) = Page(f, o, Len(all))

\* Whoever looks at the dashboard, the history or the library finds the same rows.
ReportsAgree == TrendAgrees /\ ShareIsStable /\ HistoryAgrees /\ LibraryIsWhole

\* A month that is over keeps its figure: what is accepted, written up or solved
\* later counts later, and only a deleted question takes something away
\* (_knowledge_accumulation: "keyed on when the ANSWER was written").
MonthsStand ==
  \A m \in Buckets \cap Buckets' : m # today =>
    LET was == KnowledgeAccumulation.monthly[m]
        is == KnowledgeAccumulation'.monthly[m]
    IN  is = was \/ (is < was /\ \E x \in asked : x.id \notin {y.id : y \in asked'})

=============================================================================
