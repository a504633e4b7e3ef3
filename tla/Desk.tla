-------------------------------- MODULE Desk --------------------------------
(***************************************************************************)
(* One question as the screens around its session see it: the bells, the   *)
(* chat thread, the asker's own buttons (resolve, feedback, retrospective, *)
(* delete), the history and the dashboard.  api/routes.py serves them from *)
(* SQL without the session lock, beside a session that goes on.            *)
(*                                                                         *)
(* The session is what HandoffSession details, reduced to the rows it      *)
(* writes.  A child table of which only "has rows" matters is a boolean.   *)
(***************************************************************************)
EXTENDS Integers, Sequences, FiniteSets, Functions

CONSTANTS
  People,     \* the colleagues who can be asked
  WriteUps,   \* POST /consult-retrospective requests
  None,
  MaxRows,    \* bound: recommendation rows
  MaxCrashes  \* bound: process crashes

ASSUME DeskAssumption ==
  /\ IsFiniteSet(People) /\ None \notin People
  /\ {MaxRows, MaxCrashes} \subseteq Nat

VARIABLES
  quest,     \* the questions row
  rows,      \* its recommendations, ids are positions
  batch,     \* ids of the candidates the session shows
  stage,     \* where the session is
  queued,    \* the outcome waiting in the session's memory
  untimed,   \* a run has ended whose stage timings are still to be written
  messages,  \* ids of the threads that hold messages
  answers, feedback, events,   \* these child tables hold rows of the question
  writeups,  \* offline_consults: the responder of each row
  asks,      \* retrospective requests past their checks: the responder, else None
  deleting,  \* the next statement of the DELETE request under way, else 0
  late,      \* tables that received a row after its statement had passed them
  doomed,    \* ids of the rows it has deleted and not committed
  shown,     \* notices, <<kind, row id>>, that appeared in their reader's bell
  seen,      \* <<kind, row id>> whose seen column is stamped
  crashes

sessionVars == <<batch, stage, queued, untimed>>
childVars   == <<messages, answers, feedback, events, writeups>>
deleteVars  == <<deleting, late, doomed>>
requestVars == <<asks, deleteVars>>
bellVars    == <<shown, seen>>
vars == <<quest, rows, sessionVars, childVars, requestVars, bellVars, crashes>>

-----------------------------------------------------------------------------
(* Types *)

Ids == 1..MaxRows

Row == [who : People, rank : Ids, outcome : {"open", "accepted", "declined"}]

\* self: resolution_kind is "self"; method NULL counts as chat everywhere.
Quest == [exists : BOOLEAN, route : {"none", "person", "document"},
          resolved : BOOLEAN, self : BOOLEAN, method : {"chat", "direct"}]

Kinds == {"request", "declined", "accepted"}

Tables == {"messages", "feedback", "writeups", "answers", "rows", "events"}

\* The foreign keys, <<table, table it refers to>>; none of them cascades.
References ==
  {<<"messages", "rows">>} \cup
  {<<t, "quest">> : t \in {"writeups", "answers", "rows", "events", "feedback"}}

\* Mutants: as before #247 reached it; the timings forgotten; parents first.
StatementsBefore247 == <<"messages", "feedback", "answers", "rows", "events", "quest">>
StatementsNoEvents  == <<"messages", "feedback", "writeups", "answers", "rows", "quest">>
StatementsRowsFirst ==
  <<"feedback", "writeups", "answers", "rows", "messages", "events", "quest">>

\* delete_question.  (The select of the row ids counts with the first statement.)
Statements == <<"messages", "feedback", "writeups", "answers", "rows", "events", "quest">>

\* Behind the statement to come.
Passed == {Statements[k] : k \in 1..(deleting - 1)}

TypeOK ==
  /\ quest \in Quest
  /\ rows \in Seq(Row) /\ Len(rows) <= MaxRows
  /\ batch \subseteq Ids
  /\ stage \in {"running", "waiting", "document", "reopening", "finished"}
  /\ queued \in {"none", "accepted", "declined"}
  /\ messages \subseteq Ids
  /\ answers \in BOOLEAN /\ feedback \in BOOLEAN
  /\ events \in BOOLEAN /\ untimed \in BOOLEAN
  /\ writeups \in Seq(People)
  /\ asks \in [WriteUps -> People \cup {None}]
  /\ deleting \in 0..Len(Statements) /\ late \subseteq Tables /\ doomed \subseteq Ids
  /\ shown \subseteq Kinds \X Ids /\ seen \subseteq shown
  /\ crashes \in 0..MaxCrashes

Init ==
  /\ quest = [exists |-> TRUE, route |-> "none", resolved |-> FALSE, self |-> FALSE,
              method |-> "chat"]
  /\ rows = <<>> /\ batch = {} /\ stage = "running" /\ queued = "none"
  /\ messages = {} /\ answers = FALSE /\ feedback = FALSE /\ writeups = <<>>
  /\ events = FALSE /\ untimed = FALSE
  /\ asks = [w \in WriteUps |-> None] /\ deleting = 0 /\ late = {} /\ doomed = {}
  /\ shown = {} /\ seen = {} /\ crashes = 0

\* Rows are committed to tables a delete under way may have passed: it goes on
\* without them.
Inserted(tables) == late' = late \cup (tables \cap Passed)

-----------------------------------------------------------------------------
(* The session *)

Declined == {rows[i].who : i \in {j \in DOMAIN rows : rows[j].outcome = "declined"}}

Orders(S) == {s \in [1..Cardinality(S) -> S] : IsInjective(s)}

\* C6's candidates become rows and the run stops at the hand-off; on a question
\* that is gone the insert fails and the run with it.
Show ==
  /\ stage = "running" /\ quest.exists
  /\ \E S \in SUBSET (People \ Declined) \ {{}} : \E order \in Orders(S) :
       /\ Len(rows) + Len(order) <= MaxRows
       /\ rows' = rows \o [k \in DOMAIN order |->
                             [who |-> order[k], rank |-> k, outcome |-> "open"]]
       /\ batch' = {Len(rows) + k : k \in DOMAIN order}
  /\ quest' = [quest EXCEPT !.route = "person"]
  /\ stage' = "waiting" /\ untimed' = TRUE
  /\ Inserted({"rows"})
  /\ UNCHANGED <<queued, childVars, asks, deleting, doomed, bellVars, crashes>>

\* Nobody is left to ask: no_expert.
Exhaust ==
  /\ stage = "running" /\ People \subseteq Declined
  /\ stage' = "finished" /\ untimed' = TRUE
  /\ UNCHANGED <<quest, rows, batch, queued, childVars, requestVars, bellVars, crashes>>

\* The document route answers, which resolves the question.
AnswerByDocument ==
  /\ stage = "running" /\ quest.route = "none"
  /\ quest' = IF quest.exists THEN [quest EXCEPT !.route = "document", !.resolved = TRUE]
              ELSE quest
  /\ stage' = "document" /\ untimed' = TRUE
  /\ UNCHANGED <<rows, batch, queued, childVars, requestVars, bellVars, crashes>>

\* The asker wants a person after all: the checkpoint, then the question row.
RequestFallback ==
  /\ stage = "document"
  /\ stage' = "reopening"
  /\ UNCHANGED <<quest, rows, batch, queued, untimed, childVars, requestVars, bellVars, crashes>>

ReopenQuestion ==
  /\ stage = "reopening"
  /\ quest' = IF quest.exists
                THEN [quest EXCEPT !.route = "person", !.resolved = FALSE, !.self = FALSE]
                ELSE quest
  /\ stage' = "running"
  /\ UNCHANGED <<rows, batch, queued, untimed, childVars, requestVars, bellVars, crashes>>

Primary ==
  IF \E i \in batch \cap DOMAIN rows : rows[i].rank = 1
    THEN CHOOSE i \in batch \cap DOMAIN rows : rows[i].rank = 1
    ELSE 0

\* Mutant: an outcome that waits to be run is not looked at.
OpenHandoffQueued == stage = "waiting"

OpenHandoff == stage = "waiting" /\ queued = "none"

\* POST /handoff/draft: the text, the consultation method, and the edit as
\* feedback in a transaction of its own whose failure is swallowed.
SaveDraft(method) ==
  /\ OpenHandoff
  /\ quest' = IF quest.exists THEN [quest EXCEPT !.method = method] ELSE quest
  /\ \/ UNCHANGED <<feedback, late>>
     \/ quest.exists /\ feedback' = TRUE /\ Inserted({"feedback"})
  /\ UNCHANGED <<rows, sessionVars, messages, answers, events, writeups, asks, deleting,
                 doomed, bellVars, crashes>>

\* Mutant: the chosen candidate goes first, the others keep their numbers.
RankAfterKept(i, j) == IF j = i THEN 0 ELSE rows[j].rank

RankAfter(i, j) ==
  IF j = i THEN 1
  ELSE IF rows[j].rank < rows[i].rank THEN rows[j].rank + 1 ELSE rows[j].rank

\* POST /handoff/select: another shown candidate moves to the front.  Rows that a
\* delete holds are waited for, here and below.
Select(i) ==
  /\ OpenHandoff /\ batch \cap doomed = {}
  /\ i \in batch \cap DOMAIN rows /\ rows[i].rank # 1
  /\ rows' = [j \in DOMAIN rows |->
       IF j \in batch THEN [rows[j] EXCEPT !.rank = RankAfter(i, j)] ELSE rows[j]]
  /\ UNCHANGED <<quest, sessionVars, childVars, requestVars, bellVars, crashes>>

\* POST /answer.  An acceptance resolves the question and opens the chat with the
\* draft, unless the consultation is direct; the answer text may be captured.  A
\* stored outcome wins over a new one; without a row there is nothing to record.
SubmitOutcome(o) ==
  /\ OpenHandoff
  /\ IF Primary # 0 /\ rows[Primary].outcome = "open"
       THEN /\ Primary \notin doomed
            /\ rows' = [rows EXCEPT ![Primary].outcome = o]
            /\ queued' = o
            /\ quest' = IF o = "accepted" THEN [quest EXCEPT !.resolved = TRUE] ELSE quest
            /\ \E new \in SUBSET {"messages", "answers"} :
                 /\ "messages" \in new <=> o = "accepted" /\ quest.method # "direct"
                 /\ "answers" \in new => o = "accepted"
                 /\ messages' = IF "messages" \in new THEN messages \cup {Primary} ELSE messages
                 /\ answers' = (answers \/ "answers" \in new)
                 /\ Inserted(new)
       ELSE /\ queued' = IF Primary = 0 THEN o ELSE rows[Primary].outcome
            /\ UNCHANGED <<quest, rows, messages, answers, late>>
  /\ UNCHANGED <<batch, stage, untimed, feedback, events, writeups, asks, deleting, doomed,
                 bellVars, crashes>>

\* GET /events runs what is queued.
Resume ==
  /\ queued # "none"
  /\ stage' = IF queued = "accepted" THEN "finished" ELSE "running"
  /\ queued' = "none"
  /\ untimed' = (untimed \/ queued = "accepted")
  /\ UNCHANGED <<quest, rows, batch, childVars, requestVars, bellVars, crashes>>

\* The stage timings of a run that ended, in a transaction of their own; without
\* the question it fails.
RecordEvents ==
  /\ untimed /\ untimed' = FALSE
  /\ IF quest.exists THEN events' = TRUE /\ Inserted({"events"})
     ELSE UNCHANGED <<events, late>>
  /\ UNCHANGED <<quest, rows, batch, stage, queued, messages, answers, feedback, writeups, asks,
                 deleting, doomed, bellVars, crashes>>

-----------------------------------------------------------------------------
(* The chat thread of an accepted row *)

AcceptedIds == {i \in DOMAIN rows : rows[i].outcome = "accepted"}

\* thread_parties: there is none for a direct consultation.
IsThread(t) == quest.exists /\ t \in AcceptedIds /\ quest.method # "direct"

\* threads_for_employee, of the asker or of a colleague.
ThreadsOf(reader) ==
  {t \in AcceptedIds : quest.method # "direct" /\ reader \in {"asker", rows[t].who}}

\* POST /messages
SendMessage(t) ==
  /\ IsThread(t) /\ t \notin doomed
  /\ messages' = messages \cup {t}
  /\ Inserted({"messages"})
  /\ UNCHANGED <<quest, rows, sessionVars, answers, feedback, events, writeups, asks, deleting,
                 doomed, bellVars, crashes>>

-----------------------------------------------------------------------------
(* The asker's buttons *)

\* Mutant: only a second click is ignored.
UnresolvedByClick == ~quest.self

\* mark_self_resolved: first wins over both ways to resolve.
Unresolved == ~quest.resolved /\ ~quest.self

\* POST /questions/{id}/resolve
ResolveMyself ==
  /\ quest.exists /\ Unresolved
  /\ quest' = [quest EXCEPT !.resolved = TRUE, !.self = TRUE]
  /\ UNCHANGED <<rows, sessionVars, childVars, requestVars, bellVars, crashes>>

\* POST /feedback on a question that is known.
SendFeedback ==
  /\ quest.exists
  /\ feedback' = TRUE
  /\ Inserted({"feedback"})
  /\ UNCHANGED <<quest, rows, sessionVars, messages, answers, events, writeups, asks, deleting,
                 doomed, bellVars, crashes>>

Written == writeups # <<>>

\* POST /consult-retrospective, its checks: the responder must be the one who
\* accepted, the newest if there were several.
CheckWriteUp(w) ==
  /\ asks[w] = None
  /\ quest.exists /\ quest.method = "direct" /\ ~Written
  /\ \E i \in AcceptedIds :
       /\ \A j \in AcceptedIds : j <= i
       /\ asks' = [asks EXCEPT ![w] = rows[i].who]
  /\ UNCHANGED <<quest, rows, sessionVars, childVars, deleteVars, bellVars, crashes>>

\* Mutant: no unique constraint behind the check.
RecordableTwice == quest.exists

\* uq_offline_consults_question and the foreign key.
Recordable == quest.exists /\ ~Written

\* Its insert; an IntegrityError of either kind is a 409.  The write-up there is may
\* be one that a delete holds: it is waited for.
InsertWriteUp(w) ==
  /\ asks[w] # None
  /\ Written => "writeups" \notin Passed \/ "writeups" \in late
  /\ asks' = [asks EXCEPT ![w] = None]
  /\ IF Recordable THEN writeups' = Append(writeups, asks[w]) /\ Inserted({"writeups"})
     ELSE UNCHANGED <<writeups, late>>
  /\ UNCHANGED <<quest, rows, sessionVars, messages, answers, feedback, events, deleting, doomed,
                 bellVars, crashes>>

\* DELETE /questions/{id}: one transaction of several statements, each of which sees
\* what others have committed by then.
BeginDelete ==
  /\ quest.exists /\ deleting = 0
  /\ deleting' = 1
  /\ UNCHANGED <<quest, rows, sessionVars, childVars, asks, late, doomed, bellVars, crashes>>

Holds(t) ==
  CASE t = "messages" -> messages # {}
    [] t = "feedback" -> feedback
    [] t = "writeups" -> Written
    [] t = "answers"  -> answers
    [] t = "rows"     -> rows # <<>>
    [] t = "events"   -> events

\* To the delete the table still holds rows.
Left(t) == t \in late \/ (t \notin Passed /\ Holds(t))

\* The statement to come deletes from a table that is still referred to.
Refused == \E t \in Tables : <<t, Statements[deleting]>> \in References /\ Left(t)

\* A refused statement rolls the others back (a 500).
RollBack ==
  /\ deleting' = 0 /\ late' = {} /\ doomed' = {}
  /\ UNCHANGED <<quest, rows, batch, childVars, bellVars>>

DeleteOn ==
  /\ deleting' = deleting + 1
  /\ doomed' = IF Statements[deleting] = "rows" THEN DOMAIN rows ELSE doomed
  /\ UNCHANGED <<quest, rows, batch, childVars, late, bellVars>>

DeleteDone ==
  /\ quest' = [quest EXCEPT !.exists = FALSE]
  /\ rows' = <<>> /\ messages' = {} /\ answers' = FALSE /\ feedback' = FALSE
  /\ events' = FALSE /\ writeups' = <<>> /\ batch' = {} /\ shown' = {} /\ seen' = {}
  /\ deleting' = 0 /\ late' = {} /\ doomed' = {}

DeleteStatement ==
  /\ deleting # 0
  /\ IF Refused THEN RollBack
     ELSE IF deleting < Len(Statements) THEN DeleteOn ELSE DeleteDone
  /\ UNCHANGED <<stage, queued, untimed, asks, crashes>>

-----------------------------------------------------------------------------
(* The bells *)

\* Mutant: one seen column for every kind.
UnseenByAnyone(kind, i) == \A k \in Kinds : <<k, i>> \notin seen

Unseen(kind, i) == <<kind, i>> \notin seen

\* notifications_for_asker
AskerBell ==
  {<<"declined", i>> : i \in {j \in DOMAIN rows :
      rows[j].rank = 1 /\ rows[j].outcome = "declined" /\ Unseen("declined", j)}}
  \cup
  {<<"accepted", i>> : i \in {j \in AcceptedIds : Unseen("accepted", j)}}

Pending(p) ==
  {i \in DOMAIN rows : rows[i].who = p /\ rows[i].rank = 1 /\ rows[i].outcome = "open"}

\* pending_request_notifications_for_responder: the newest of a session only.
ResponderBell(p) ==
  LET ids == {i \in Pending(p) : Unseen("request", i)}
  IN  {<<"request", i>> : i \in {j \in ids : \A k \in ids : k <= j}}

\* GET /notifications
Ring(bell) ==
  /\ ~(bell \subseteq shown)
  /\ shown' = shown \cup bell
  /\ UNCHANGED <<quest, rows, sessionVars, childVars, requestVars, seen, crashes>>

\* The rows an acknowledged notice stamps, however old the page it was on.
Stamped(kind, i) ==
  IF i \notin DOMAIN rows THEN {}
  ELSE IF kind = "request" THEN IF i \in Pending(rows[i].who) THEN Pending(rows[i].who) ELSE {}
  ELSE {j \in {i} : rows[j].outcome = kind /\ (kind = "declined" => rows[j].rank = 1)}

\* POST /notifications/ack of a notice on the screen.
Acknowledge(notice) ==
  /\ Stamped(notice[1], notice[2]) \cap doomed = {}
  /\ seen' = seen \cup {<<notice[1], j>> : j \in Stamped(notice[1], notice[2])}
  /\ seen' # seen
  /\ UNCHANGED <<quest, rows, sessionVars, childVars, requestVars, shown, crashes>>

-----------------------------------------------------------------------------
\* The process dies while it holds something: what is queued or under way is gone.
Crash ==
  /\ queued # "none" \/ stage = "reopening"
  /\ crashes < MaxCrashes /\ crashes' = crashes + 1
  /\ queued' = "none" /\ untimed' = FALSE
  /\ stage' = IF stage = "reopening" THEN "running" ELSE stage
  /\ asks' = [w \in WriteUps |-> None] /\ deleting' = 0 /\ late' = {} /\ doomed' = {}
  /\ UNCHANGED <<quest, rows, batch, childVars, bellVars>>

Session ==
  \/ Show \/ Exhaust \/ AnswerByDocument \/ RequestFallback \/ ReopenQuestion \/ Resume
  \/ RecordEvents
  \/ \E method \in {"chat", "direct"} : SaveDraft(method)
  \/ \E i \in batch : Select(i)
  \/ \E o \in {"accepted", "declined"} : SubmitOutcome(o)

Screens ==
  \/ \E t \in DOMAIN rows : SendMessage(t)
  \/ ResolveMyself \/ SendFeedback \/ BeginDelete \/ DeleteStatement
  \/ \E w \in WriteUps : CheckWriteUp(w) \/ InsertWriteUp(w)
  \/ Ring(AskerBell)
  \/ \E p \in People : Ring(ResponderBell(p))
  \/ \E notice \in shown : Acknowledge(notice)

Next == Session \/ Screens \/ Crash

Spec == Init /\ [][Next]_vars

-----------------------------------------------------------------------------
(* Properties *)

\* However many retrospectives are posted at once, and whatever is deleted in
\* between, a question has one, and it credits the colleague who accepted (#247).
WriteUpOfTheConsulted ==
  Written =>
    Len(writeups) = 1 /\ \E i \in AcceptedIds : writeups[1] = rows[i].who

\* Every decision reaches the asker and every request its responder: it is in the
\* reader's bell, or it was, whatever the pages acknowledged, reselections and
\* notices of the other kinds stamped in between (#509).  A process that dies
\* before it runs a decline lets the asker select past it, hence the condition.
NoNoticeLost ==
  /\ crashes = 0 => \A i \in DOMAIN rows : rows[i].outcome # "open" =>
       <<rows[i].outcome, i>> \in AskerBell \cup shown
  /\ OpenHandoff /\ Primary # 0 /\ rows[Primary].outcome = "open" =>
       <<"request", Primary>> \in ResponderBell(rows[Primary].who) \cup shown

\* A conversation never disappears from under its two parties: the method an
\* acceptance found cannot be changed to direct afterwards.  A process that dies
\* before it runs the acceptance reopens the draft, hence the condition.
ThreadStays ==
  crashes = 0 => \A t \in messages :
    t \in ThreadsOf("asker") \cap ThreadsOf(rows[t].who)

\* The desk is well typed, and what two people had of each other stays theirs: the
\* write-up is of the one consulted, the conversation is there for both.
ConsultationKept == TypeOK /\ WriteUpOfTheConsulted /\ ThreadStays

\* However the asker's click, an acceptance and the fallback fall, the question keeps
\* the resolution it had first: after an acceptance a click does not claim it, and
\* only the fallback takes one back, before anybody is asked (#159, #351).
ResolutionStands ==
  [][quest.exists /\ quest'.exists =>
       /\ AcceptedIds # {} => quest.resolved /\ quest'.resolved /\ quest'.self = quest.self
       /\ quest.resolved => quest'.resolved \/ rows = <<>>]_vars

\* A delete goes through, whatever has been recorded about the question (#207, #286,
\* #247), unless something was recorded behind its back: then it is rolled back,
\* and never leaves a row that refers to nothing.
DeleteSucceeds ==
  [][DeleteStatement /\ deleting' = 0 => (quest'.exists <=> late # {})]_vars
=============================================================================
