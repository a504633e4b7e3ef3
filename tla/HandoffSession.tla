--------------------------- MODULE HandoffSession ---------------------------
(***************************************************************************)
(* One chat session of api/service.py: the graph of AgentGraph, the SQL    *)
(* rows its segments and its HTTP handlers write, the in-memory queue of   *)
(* one pending input, and the per-session lock.                            *)
(*                                                                         *)
(* A handler that runs one transaction under the lock is one action.  A    *)
(* handler that writes the checkpoint and SQL separately is two, with the  *)
(* lock held in between (`hold`), so that a failure may strike there.      *)
(* A streamed segment is an alternation of graph nodes, whose checkpoint   *)
(* is saved when they return, and of the SQL work _run does on each        *)
(* update before the client gets its event.                                *)
(***************************************************************************)
EXTENDS AgentGraph

CONSTANTS
  MaxFaults,       \* bound: failing nodes or transactions, and process crashes
  MaxDrops,        \* bound: clients gone while an event is delivered
  MaxCorrections,  \* bound: interpretation corrections, each a whole new run
  PagesTracked     \* bound: whether an instance remembers a responder's page

ASSUME SessionAssumption ==
  /\ {MaxFaults, MaxDrops, MaxCorrections} \subseteq Nat
  /\ PagesTracked \in BOOLEAN
  /\ IsFiniteSet(Questions) /\ Questions = 1..Cardinality(Questions)

VARIABLES
  rows,         \* recommendations table, ids are positions
  quest,        \* questions table of this session, ids are positions
  answers,      \* ids of the rows an answer was captured for
  pending,      \* _SessionCtx.pending, lost with the process
  hold,         \* the operation holding the session lock between two steps
  seg,          \* locals of the running _run segment (or the referee)
  tab,          \* the row id a responder's screen last loaded, 0 for none
  faults, drops, corrections

sqlVars   == <<rows, quest, answers>>
countVars == <<faults, drops, corrections>>
vars == <<graphVars, sqlVars, pending, hold, seg, tab, countVars>>

-----------------------------------------------------------------------------
(* Types *)

Closings == {"accepted", "declined", "excluded", "referred", "superseded"}

Row == [q : Questions, person : People, rank : Nat \ {0},
        outcome : Closings \cup {"open"}]

\* resolved: resolved_at is set; self: resolution_kind is "self".
Question == [route : Routes \cup {"none", "knowledge"},
             resolved : BOOLEAN, self : BOOLEAN]

Resumes == Closings \cup {"reply", "redraft"}

Pending == [kind : {"none", "fresh", "resume"}, q : Questions \cup {0},
            with : Resumes \cup {"none"}]

Idle == [kind |-> "none", q |-> 0, with |-> "none"]
FreshRun(q) == [kind |-> "fresh", q |-> q, with |-> "none"]
ResumeWith(r) == [kind |-> "resume", q |-> 0, with |-> r]

Segment == [resume   : Resumes \cup {"none"},        \* not yet consumed
            upd      : Nodes \cup {"none"},          \* update being handled
            route    : Routes \cup {"none", "knowledge"},
            ids      : Seq(Nat),                     \* rec_ids
            terminal : {"none", "done", "message"},
            referee  : People \cup {None}]

NoSegment == [resume |-> "none", upd |-> "none", route |-> "none", ids |-> <<>>,
              terminal |-> "none", referee |-> None]

TypeOK ==
  /\ GraphTypeOK
  /\ rows \in Seq(Row)
  /\ quest \in Seq(Question)
  /\ Len(quest) \in Questions \cup {0}
  /\ answers \subseteq Nat
  /\ pending \in Pending
  /\ hold \in {"free", "stream", "select", "refer", "fallback"}
  /\ seg \in Segment
  /\ tab \in Nat
  /\ faults \in 0..MaxFaults /\ drops \in 0..MaxDrops
  /\ corrections \in 0..MaxCorrections

Init ==
  /\ GraphInit
  /\ rows = <<>> /\ quest = <<>> /\ answers = {}
  /\ pending = Idle /\ hold = "free" /\ seg = NoSegment /\ tab = 0
  /\ faults = 0 /\ drops = 0 /\ corrections = 0

-----------------------------------------------------------------------------
(* Which row the hand-off is bound to, and recording an outcome on it *)

RowsOf(q) == {i \in DOMAIN rows : rows[i].q = q}

Newest(ids) == IF ids = {} THEN 0 ELSE CHOOSE i \in ids : \A j \in ids : j <= i

\* Mutants: trust the stored id; without one take the newest rank-1 row, or any
\* newest row, of the question.
ResolvedPrimaryStored ==
  IF values.primary # 0 THEN values.primary
  ELSE Newest({i \in RowsOf(values.qid) : rows[i].rank = 1})

ResolvedPrimaryNewest ==
  IF values.primary # 0 THEN values.primary ELSE Newest(RowsOf(values.qid))

\* _resolve_primary: the shown person is the authority, the stored id only a
\* hint.  0 when they have no row.
ResolvedPrimary ==
  LET shown == Head(values.recs)
  IN  IF values.recs = <<>> THEN
        IF values.primary # 0 THEN values.primary
        ELSE Newest({i \in RowsOf(values.qid) : rows[i].rank = 1})
      ELSE IF values.primary \in DOMAIN rows /\ rows[values.primary].person = shown
        THEN values.primary
      ELSE Newest({i \in RowsOf(values.qid) : rows[i].person = shown})

\* Mutant: an outcome already on the row does not stop the next one.
UnansweredAlways == ResolvedPrimary # 0

Unanswered == ResolvedPrimary # 0 /\ rows[ResolvedPrimary].outcome = "open"

\* _record_outcome: first outcome wins; an acceptance resolves the question.
RecordOutcome(o) ==
  IF Unanswered
    THEN /\ rows' = [rows EXCEPT ![ResolvedPrimary].outcome = o]
         /\ quest' = IF o = "accepted"
                       THEN [quest EXCEPT ![values.qid].resolved = TRUE] ELSE quest
    ELSE UNCHANGED <<rows, quest>>

\* The value it returns to resume with: what is stored, else what was submitted.
Effective(o) ==
  IF ResolvedPrimary = 0 \/ Unanswered THEN o ELSE rows[ResolvedPrimary].outcome

-----------------------------------------------------------------------------
(* HTTP handlers, each under the session lock *)

\* Mutant: the queued input is not looked at.
AtHandoffQueued == hold = "free" /\ node = "send"

AtHandoff == hold = "free" /\ node = "send" /\ pending = Idle

\* POST /ask
StartQuestion ==
  /\ hold = "free" /\ node = Finished /\ pending = Idle
  /\ Len(quest) + 1 \in Questions
  /\ quest' = Append(quest, [route |-> "none", resolved |-> FALSE, self |-> FALSE])
  /\ pending' = FreshRun(Len(quest) + 1)
  /\ UNCHANGED <<graphVars, rows, answers, hold, seg, tab, countVars>>

\* POST /answer with a clarification
SubmitReply ==
  /\ hold = "free" /\ node = "ask" /\ pending = Idle
  /\ pending' = ResumeWith("reply")
  /\ UNCHANGED <<graphVars, sqlVars, hold, seg, tab, countVars>>

\* GET /handoff: the screen now echoes this row id with its outcome.
LoadHandoff ==
  /\ PagesTracked
  /\ AtHandoff
  /\ tab' = ResolvedPrimary
  /\ UNCHANGED <<graphVars, sqlVars, pending, hold, seg, countVars>>

\* Mutant: the token is compared with the stored id instead of the resolved one.
TokenAcceptedRaw == tab = 0 \/ values.primary = 0 \/ tab = values.primary

\* The generation token; a hand-off without a row cannot be checked.
TokenAccepted == tab = 0 \/ ResolvedPrimary = 0 \/ tab = ResolvedPrimary

\* POST /answer with an outcome.  The answer text of a fresh acceptance is
\* captured in a transaction of its own, which may fail without consequence.
SubmitOutcome(o) ==
  /\ AtHandoff
  /\ TokenAccepted
  /\ RecordOutcome(o)
  /\ pending' = ResumeWith(Effective(o))
  /\ \/ UNCHANGED answers
     \/ o = "accepted" /\ Unanswered /\ answers' = answers \cup {ResolvedPrimary}
  /\ UNCHANGED <<graphVars, hold, seg, tab, countVars>>

\* POST /handoff/exclude of the current target: the reroute of a decline.
Exclude ==
  /\ AtHandoff
  /\ values.recs # <<>>
  /\ RecordOutcome("excluded")
  /\ pending' = ResumeWith("declined")
  /\ UNCHANGED <<graphVars, answers, hold, seg, tab, countVars>>

\* POST /handoff/refer: the outcome first, then the seat in the checkpoint.
Refer(p) ==
  /\ AtHandoff
  /\ Referable(p)
  /\ RecordOutcome("referred")
  /\ hold' = "refer"
  /\ seg' = [seg EXCEPT !.referee = p]
  /\ UNCHANGED <<graphVars, answers, pending, tab, countVars>>

ReferSeat ==
  /\ hold = "refer"
  /\ SeatReferral(seg.referee)
  /\ pending' = ResumeWith("declined")
  /\ hold' = "free" /\ seg' = NoSegment
  /\ UNCHANGED <<sqlVars, tab, countVars>>

\* POST /handoff/redraft
Redraft ==
  /\ AtHandoff
  /\ pending' = ResumeWith("redraft")
  /\ UNCHANGED <<graphVars, sqlVars, hold, seg, tab, countVars>>

\* POST /handoff/correct: the whole pipeline again, for the same question row.
Correct ==
  /\ AtHandoff
  /\ corrections < MaxCorrections
  /\ corrections' = corrections + 1
  /\ RecordOutcome("superseded")
  /\ pending' = FreshRun(values.qid)
  /\ UNCHANGED <<graphVars, answers, hold, seg, tab, faults, drops>>

\* POST /handoff/select: the checkpoint first, then the ranks of its rows.
Select(i) ==
  /\ AtHandoff
  /\ Reselect(i)
  /\ hold' = "select"
  /\ UNCHANGED <<sqlVars, pending, seg, tab, countVars>>

SelectRanks ==
  /\ hold = "select"
  /\ rows' = [i \in DOMAIN rows |->
       IF i \in Range(values.recIds)
         THEN [rows[i] EXCEPT !.rank =
                 CHOOSE k \in DOMAIN values.recIds : values.recIds[k] = i]
         ELSE rows[i]]
  /\ hold' = "free"
  /\ UNCHANGED <<graphVars, quest, answers, pending, seg, tab, countVars>>

\* POST /handoff/document-fallback: the checkpoint first, then the question row.
\* Unlike the other handlers it does not look at the queued input.
RequestFallback ==
  /\ hold = "free"
  /\ Reopen
  /\ hold' = "fallback"
  /\ UNCHANGED <<sqlVars, pending, seg, tab, countVars>>

FallbackReopensQuestion ==
  /\ hold = "fallback"
  /\ quest' = [quest EXCEPT ![values.qid] =
                 [route |-> "person", resolved |-> FALSE, self |-> FALSE]]
  /\ hold' = "free"
  /\ UNCHANGED <<graphVars, rows, answers, pending, seg, tab, countVars>>

-----------------------------------------------------------------------------
(* GET /events: take the queued input, or continue a run parked mid-way.    *)
(* A session at rest is only replayed to, which changes nothing.           *)

Streaming == hold = "stream"

BeginFresh ==
  /\ hold = "free" /\ pending.kind = "fresh"
  /\ Invoke(pending.q)
  /\ seg' = NoSegment

BeginResume ==
  /\ hold = "free" /\ pending.kind = "resume"
  /\ seg' = [NoSegment EXCEPT !.resume = pending.with]
  /\ UNCHANGED graphVars

\* Mutant: a reconnect to a run parked between two nodes does not continue it.
BeginParkedIgnored == FALSE

BeginParked ==
  /\ hold = "free" /\ pending = Idle
  /\ node \notin InterruptNodes \cup {Finished}
  /\ seg' = NoSegment
  /\ UNCHANGED graphVars

Begin ==
  /\ BeginFresh \/ BeginResume \/ BeginParked
  /\ pending' = Idle
  /\ hold' = "stream"
  /\ UNCHANGED <<sqlVars, tab, countVars>>

\* The next node runs and its checkpoint is saved.
RunNode ==
  /\ Streaming /\ seg.upd = "none"
  /\ \/ seg.resume = "none" /\ Compute
     \/ seg.resume # "none" /\ (Ask \/ Send(seg.resume))
  /\ seg' = [seg EXCEPT !.upd = node, !.resume = "none"]
  /\ UNCHANGED <<sqlVars, pending, hold, tab, countVars>>

\* An update is handled; if it surfaces an event, the client may be gone.
Deliver(local, emits) ==
  \/ /\ seg' = [local EXCEPT !.upd = "none"]
     /\ UNCHANGED <<hold, drops>>
  \/ /\ emits
     /\ drops < MaxDrops /\ drops' = drops + 1
     /\ seg' = NoSegment /\ hold' = "free"

\* Mutant: enumerate from zero.
NewRowsFromZero(recs) ==
  [k \in DOMAIN recs |-> [q |-> values.qid, person |-> recs[k], rank |-> k - 1,
                          outcome |-> "open"]]

\* insert_shown_recommendations: every shown candidate, ranked by position.
NewRows(recs) ==
  [k \in DOMAIN recs |-> [q |-> values.qid, person |-> recs[k], rank |-> k,
                          outcome |-> "open"]]

NewIds(recs) == [k \in DOMAIN recs |-> Len(rows) + k]

InsertAndDeliver(recs) ==
  /\ rows' = rows \o NewRows(recs)
  /\ Deliver([seg EXCEPT !.ids = NewIds(recs)], TRUE)
  /\ UNCHANGED <<quest, answers>>

HandleRoute ==
  /\ seg.upd = "c5_route"
  /\ quest' = [quest EXCEPT ![values.qid].route = values.route,
                            ![values.qid].resolved = @ \/ values.route = "document"]
  /\ Deliver([seg EXCEPT !.route = values.route], TRUE)
  /\ UNCHANGED <<rows, answers>>

HandleKnowledge ==
  /\ seg.upd = "knowledge_answer"
  /\ quest' = IF values.grounded
                THEN [quest EXCEPT ![values.qid].route = "knowledge"] ELSE quest
  /\ Deliver([seg EXCEPT !.route = IF values.grounded THEN "knowledge" ELSE @], FALSE)
  /\ UNCHANGED <<rows, answers>>

\* Mutant: rows are inserted without waiting for the critic.
DeferredNever == FALSE

\* The critic's verdict is awaited before candidates become rows; the document
\* route's candidates never do.
Deferred == CriticWired /\ values.recs # <<>>

HandleScore ==
  /\ seg.upd = "c6_score"
  /\ IF seg.route = "document" \/ Deferred
       THEN Deliver(seg, FALSE) /\ UNCHANGED sqlVars
       ELSE InsertAndDeliver(values.recs)

HandleVerdict ==
  /\ seg.upd = "answerability"
  /\ IF node = "c7_draft" THEN InsertAndDeliver(values.recs)
     ELSE Deliver(seg, FALSE) /\ UNCHANGED sqlVars

\* shown_recommendation_ids: the question's rows by rank, then by id.
ShownFirst(i, j) ==
  rows[i].rank < rows[j].rank \/ (rows[i].rank = rows[j].rank /\ i < j)

DisplayOrders(q) ==
  {s \in [1..Cardinality(RowsOf(q)) -> RowsOf(q)] :
     \A k, l \in DOMAIN s : k < l => ShownFirst(s[k], s[l])}

HandleDraft ==
  /\ seg.upd = "c7_draft"
  /\ IF values.fallbackReq /\ values.recIds = <<>>
       THEN IF RowsOf(values.qid) # {}
              THEN /\ \E ids \in DisplayOrders(values.qid) :
                        Deliver([seg EXCEPT !.ids = ids], TRUE)
                   /\ UNCHANGED sqlVars
              ELSE InsertAndDeliver(values.recs)
       ELSE Deliver(seg, TRUE) /\ UNCHANGED sqlVars

\* self_answered also marks the question self-resolved, unless it is resolved.
HandleTerminal ==
  /\ seg.upd \in Terminals
  /\ quest' = IF seg.upd = "self_answered" /\ ~quest[values.qid].resolved
                   /\ ~quest[values.qid].self
                THEN [quest EXCEPT ![values.qid].resolved = TRUE,
                                   ![values.qid].self = TRUE]
                ELSE quest
  /\ Deliver([seg EXCEPT !.terminal =
                IF seg.upd = "c8_update" THEN "done" ELSE "message"], TRUE)
  /\ UNCHANGED <<rows, answers>>

\* Nodes that write nothing but topics or body; C1 always surfaces an event, the
\* additive answer only when it grounded.
HandleQuietly ==
  /\ seg.upd \in Nodes \ (Terminals \cup {"c5_route", "knowledge_answer",
                                          "c6_score", "answerability", "c7_draft"})
  /\ Deliver(seg, seg.upd \in {"c1_intent", "additive_answer"})
  /\ UNCHANGED sqlVars

HandleUpdate ==
  /\ Streaming
  /\ \/ HandleRoute \/ HandleKnowledge \/ HandleScore \/ HandleVerdict
     \/ HandleDraft \/ HandleTerminal \/ HandleQuietly
  /\ UNCHANGED <<graphVars, pending, tab, faults, corrections>>

\* The graph has come to rest: _persist_run_state, then the lock is released.
EndSegment ==
  /\ Streaming /\ seg.upd = "none" /\ seg.resume = "none"
  /\ node \in InterruptNodes \cup {Finished}
  /\ WriteBack(seg.ids, seg.terminal)
  /\ hold' = "free" /\ seg' = NoSegment
  /\ UNCHANGED <<sqlVars, pending, tab, countVars>>

-----------------------------------------------------------------------------
(* Failures *)

\* A node, a transaction or a checkpoint write raises: what was committed stays,
\* the rest of the operation does not happen.
Fault ==
  /\ hold # "free"
  /\ faults < MaxFaults /\ faults' = faults + 1
  /\ hold' = "free" /\ seg' = NoSegment
  /\ UNCHANGED <<graphVars, sqlVars, pending, tab, drops, corrections>>

\* The process dies: the registry goes with it.
Crash ==
  /\ hold # "free" \/ pending # Idle
  /\ faults < MaxFaults /\ faults' = faults + 1
  /\ hold' = "free" /\ seg' = NoSegment /\ pending' = Idle
  /\ UNCHANGED <<graphVars, sqlVars, tab, drops, corrections>>

-----------------------------------------------------------------------------
Stream == Begin \/ RunNode \/ HandleUpdate \/ EndSegment

\* The steps that finish an operation already holding the lock.
SecondStep == ReferSeat \/ SelectRanks \/ FallbackReopensQuestion

Handlers ==
  \/ StartQuestion \/ SubmitReply \/ LoadHandoff
  \/ \E o \in {"accepted", "declined"} : SubmitOutcome(o)
  \/ Exclude \/ Redraft \/ Correct \/ RequestFallback
  \/ \E p \in People : Refer(p)
  \/ \E i \in DOMAIN values.recs : Select(i)

Next == Stream \/ SecondStep \/ Handlers \/ Fault \/ Crash

Spec == Init /\ [][Next]_vars

\* A client that keeps its event stream open reads every queued run; a thread
\* inside an operation goes on until it finishes or fails.
Fairness == WF_vars(Stream) /\ WF_vars(SecondStep)

FairSpec == Spec /\ Fairness

-----------------------------------------------------------------------------
(* Safety that holds whatever fails *)

Entries == [i \in DOMAIN rows |->
  [q |-> rows[i].q, person |-> rows[i].person, outcome |-> rows[i].outcome]]

Ledger == INSTANCE HandoffLedger WITH entries <- Entries

\* The session implements the ledger: no interleaving of handlers, dropped
\* clients, failures and restarts overwrites an outcome, moves a row to another
\* person or captures an answer that was not an acceptance.
LedgerPromise == Ledger!LedgerSpec

Closes(i) == rows[i].outcome = "open" /\ rows'[i].outcome # "open"

\* An outcome lands on the person the responder saw: the row that closes is one
\* of the current question, for its first shown candidate, however stale the
\* stored primary id is (_resolve_primary, #94-3).
OutcomeOnShownPerson ==
  [][ \A i \in DOMAIN rows : Closes(i) =>
        /\ rows[i].q = values.qid
        /\ values.recs # <<>> /\ rows[i].person = Head(values.recs) ]_vars

\* A responder whose screen shows an earlier candidate cannot answer for the
\* present one: an outcome that closes a row closes the row on the screen (#94).
StaleTabRejected ==
  [][ (\E o \in {"accepted", "declined"} : SubmitOutcome(o)) =>
        \A i \in DOMAIN rows : Closes(i) => tab \in {0, i} ]_vars

-----------------------------------------------------------------------------
(* Agreement of the checkpoint and SQL once nothing is under way *)

Settled ==
  hold = "free" /\ pending = Idle /\ node \in InterruptNodes \cup {Finished}

\* pending_handoffs_for_responder, for all responders.
Inbox(q) == {rows[i].person :
              i \in {j \in RowsOf(q) : rows[j].rank = 1 /\ rows[j].outcome = "open"}}

\* The responders' inboxes show the hand-off the session waits on, and only it:
\* nobody keeps a request that cannot be resolved (#281), and the person the
\* draft is addressed to sees it.
InboxAgrees ==
  Settled => \A q \in DOMAIN quest :
    Inbox(q) = IF node = "send" /\ q = values.qid THEN {Head(values.recs)} ELSE {}

Accepted(q) == {i \in RowsOf(q) : rows[i].outcome = "accepted"}

\* One acceptance ends a question: it is unique, stamped as resolution, and the
\* session is at the end of that question, not at another hand-off of it.
AcceptanceIsFinal ==
  \A q \in DOMAIN quest : Accepted(q) # {} =>
    /\ Cardinality(Accepted(q)) = 1
    /\ quest[q].resolved
    /\ Settled /\ q = values.qid => node = Finished

\* At most one recommendation of a question ever reaches accepted, as the bells,
\* the chat and the retrospective rely on (data/notifications.py).  A crash that
\* loses a queued acceptance refutes it: the asker selects the next candidate.
OneAcceptance == \A q \in DOMAIN quest : Cardinality(Accepted(q)) <= 1

\* Whoever left the candidate set of the question has a closed row to show for
\* it: the graph's declined_ids never run ahead of the audit trail.
DeclinedIsRecorded ==
  \A p \in values.declined : \E i \in RowsOf(values.qid) :
    rows[i].person = p /\ rows[i].outcome # "open"

\* A client that dropped at the end can come back for the terminal event: a
\* question that finished stays streamable (is_streamable).
TerminalReplayable ==
  Settled /\ node = Finished /\ values.qid # 0 => values.lastEvent # "none"

\* At rest, what the inboxes, the checkpoint and the stream of a question say of it
\* is the same: pending, with one addressee, or over, with its terminal event.
RestAgrees == InboxAgrees /\ TerminalReplayable

\* What a resume carries is consistent with the graph: an outcome queued by
\* submit_resume never leaves the session paused at send.
ResumeAdvances ==
  [][ Streaming /\ node = "send" /\ seg.resume # "none" /\ seg'.resume = "none"
        /\ hold' = "stream" => node' # "send" ]_vars

\* An acceptance ends its question, and no outcome leaves the session where it was.
OutcomesAdvance == []AcceptanceIsFinal /\ ResumeAdvances

\* Whoever was passed over has a row to show for it, and nobody closes the row of
\* somebody else from an outdated page.
OutcomesTraced == []DeclinedIsRecorded /\ StaleTabRejected

-----------------------------------------------------------------------------
(* Liveness *)

\* A queued input is taken, and its run comes to rest with the lock released.
QueuedRunSettles == pending # Idle ~> Settled

\* A responder's acceptance completes the session: the graph reaches its end, also
\* when clients drop on the way (the next reader continues the parked run).
AcceptanceCompletes ==
  \A q \in Questions :
    (q \in DOMAIN quest /\ Accepted(q) # {})
      ~> (values.qid # q \/ node = Finished)

\* What was queued is worked off, down to the end of an accepted question.
WorkSettles == QueuedRunSettles /\ AcceptanceCompletes

=============================================================================
