------------------------ MODULE HandoffSessionProofs ------------------------
(***************************************************************************)
(* Proofs about HandoffSession, for any people, questions and wiring: its  *)
(* types, that outcomes land on the person shown and never from an         *)
(* outdated page, and that it implements HandoffLedger, under any number   *)
(* of failures, drops and corrections; while nothing fails and nobody      *)
(* corrects, that who was passed over is on record and an acceptance ends  *)
(* its question; and, while clients stay as well, that inboxes, checkpoint *)
(* and stream agree at rest.                                               *)
(***************************************************************************)
EXTENDS HandoffSession, AgentGraphProofs, WellFoundedInduction

-----------------------------------------------------------------------------
(* Rows *)

\* The newest of some rows is one of them.
LEMMA NewestIsOne ==
  ASSUME NEW n \in Nat, NEW ids \in SUBSET (1..n), ids # {}
  PROVE  Newest(ids) \in ids
<1> DEFINE T == {n - i : i \in ids}
<1>1. \A i \in ids : i \in Nat /\ n - i \in Nat
  <2>1. \A i \in ids : i \in 1..n
    OBVIOUS
  <2> QED
    BY <2>1
<1>2. PICK x \in T : \A y \in T : x <= y
  <2>1. T \subseteq Nat /\ T # {}
    BY <1>1
  <2> HIDE DEF T
  <2> QED
    BY <2>1, HasLeast
<1>3. PICK i \in ids : x = n - i
  OBVIOUS
<1>4. \A j \in ids : j <= i
  <2> SUFFICES ASSUME NEW j \in ids PROVE j <= i
    OBVIOUS
  <2>1. n - i <= n - j
    BY <1>2, <1>3
  <2> QED
    BY <1>1, <2>1
<1> QED
  BY <1>4 DEF Newest

\* Rows whose question and person never change keep their ids.
LEMMA RowsOfQuestion ==
  ASSUME rows \in Seq(Row), NEW q
  PROVE  /\ RowsOf(q) \subseteq 1..Len(rows) /\ Len(rows) \in Nat
         /\ DOMAIN rows = 1..Len(rows)
         /\ \A i \in RowsOf(q) : rows[i] \in Row /\ rows[i].q = q
BY LenProperties, ElementOfSeq DEF RowsOf

\* Closing a row leaves its question, person and rank alone, and every other row.
LEMMA CloseRow ==
  ASSUME rows \in Seq(Row), NEW r \in DOMAIN rows, NEW o \in Closings,
         rows' = [rows EXCEPT ![r].outcome = o]
  PROVE  /\ rows' \in Seq(Row) /\ Len(rows') = Len(rows)
         /\ \A i \in DOMAIN rows : rows'[i] = IF i = r THEN [rows[r] EXCEPT !.outcome = o]
                                                       ELSE rows[i]
         /\ \A q : RowsOf(q)' = RowsOf(q)
<1>1. DOMAIN rows = 1..Len(rows) /\ rows[r] \in Row
  BY LenProperties, ElementOfSeq
<1>2. [rows[r] EXCEPT !.outcome = o] \in Row
  BY <1>1 DEF Row
<1>3. rows' \in Seq(Row) /\ Len(rows') = Len(rows)
  BY <1>1, <1>2, ExceptSeq
<1>4. \A i \in DOMAIN rows : rows'[i] = IF i = r THEN [rows[r] EXCEPT !.outcome = o] ELSE rows[i]
  OBVIOUS
<1>5. \A i \in DOMAIN rows : rows'[i].q = rows[i].q
  BY <1>1, <1>4 DEF Row
<1>6. DOMAIN rows' = DOMAIN rows
  BY <1>1, <1>3, LenProperties
<1> QED
  BY <1>3, <1>4, <1>5, <1>6 DEF RowsOf

-----------------------------------------------------------------------------
(* The inductive invariant *)

\* Questions are numbered as they are asked, and a run has one.
Numbered ==
  /\ values.qid \in 0..Len(quest)
  /\ pending.kind = "fresh" => pending.q \in 1..Len(quest)
  /\ values.qid = 0 => node = Finished /\ seg.upd = "none" /\ hold # "fallback"

\* The ids in the checkpoint and in the running segment are rows of the question
\* the graph is at, so no outcome can land in another one.
IdsKnown ==
  /\ values.primary # 0 => values.primary \in RowsOf(values.qid)
  /\ Range(values.recIds) \subseteq RowsOf(values.qid)
  /\ Range(seg.ids) \subseteq RowsOf(values.qid)

SessionInv == TypeOK /\ GraphSafe /\ Numbered /\ IdsKnown

-----------------------------------------------------------------------------
(* The row an outcome is recorded on *)

\* The row a hand-off resolves to is one of its question, for the person shown first.
LEMMA ResolvedKnown ==
  ASSUME TypeOK, IdsKnown, values.recs # <<>>
  PROVE  \/ ResolvedPrimary = 0
         \/ /\ ResolvedPrimary \in RowsOf(values.qid) /\ ResolvedPrimary \in Nat \ {0}
            /\ rows[ResolvedPrimary].person = Head(values.recs)
<1> DEFINE mine == {i \in RowsOf(values.qid) : rows[i].person = Head(values.recs)}
<1>0. rows \in Seq(Row)
  BY DEF TypeOK
<1>1. RowsOf(values.qid) \subseteq 1..Len(rows) /\ Len(rows) \in Nat /\ DOMAIN rows = 1..Len(rows)
  BY <1>0, RowsOfQuestion
<1>2. CASE values.primary \in DOMAIN rows /\ rows[values.primary].person = Head(values.recs)
  BY <1>1, <1>2 DEF ResolvedPrimary, IdsKnown
<1>3. CASE ~(values.primary \in DOMAIN rows /\ rows[values.primary].person = Head(values.recs))
  <2>1. ResolvedPrimary = Newest(mine)
    BY <1>3 DEF ResolvedPrimary
  <2>2. mine # {} => Newest(mine) \in mine
    BY <1>1, NewestIsOne
  <2>3. mine = {} => Newest(mine) = 0
    BY DEF Newest
  <2> QED
    BY <1>1, <2>1, <2>2, <2>3
<1> QED
  BY <1>2, <1>3

\* Either no row changes, or the open row of the person shown closes.
ClosesShown(o) ==
  /\ ResolvedPrimary \in RowsOf(values.qid)
  /\ rows[ResolvedPrimary].person = Head(values.recs)
  /\ rows[ResolvedPrimary].outcome = "open"
  /\ rows' = [rows EXCEPT ![ResolvedPrimary].outcome = o]

\* Recording an outcome closes the shown person's row or no row, and keeps the tables typed.
LEMMA Recorded ==
  ASSUME TypeOK, IdsKnown, values.recs # <<>>, values.qid \in 1..Len(quest),
         NEW o \in Closings, RecordOutcome(o)
  PROVE  /\ rows' \in Seq(Row) /\ Len(rows') = Len(rows)
         /\ \A q : RowsOf(q)' = RowsOf(q)
         /\ quest' \in Seq(Question) /\ Len(quest') = Len(quest)
         /\ Effective(o) \in Closings
         /\ UNCHANGED rows \/ ClosesShown(o)
         /\ Unanswered => ClosesShown(o)
<1>0. rows \in Seq(Row) /\ quest \in Seq(Question)
  BY DEF TypeOK
<1>1. CASE Unanswered
  <2>1. ClosesShown(o)
    BY <1>1, ResolvedKnown DEF Unanswered, RecordOutcome, ClosesShown
  <2>2. ResolvedPrimary \in DOMAIN rows
    BY <2>1 DEF ClosesShown, RowsOf
  <2>3. rows' \in Seq(Row) /\ Len(rows') = Len(rows) /\ \A q : RowsOf(q)' = RowsOf(q)
    BY <1>0, <2>1, <2>2, CloseRow DEF ClosesShown
  <2>4. quest' \in Seq(Question) /\ Len(quest') = Len(quest)
    <3>1. quest[values.qid] \in Question
      BY <1>0, ElementOfSeq
    <3>2. [quest[values.qid] EXCEPT !.resolved = TRUE] \in Question
      BY <3>1 DEF Question
    <3>3. quest' = [quest EXCEPT ![values.qid] = [quest[values.qid] EXCEPT !.resolved = TRUE]]
          \/ quest' = quest
      BY <1>1 DEF RecordOutcome
    <3> QED
      BY <1>0, <3>2, <3>3, ExceptSeq
  <2> QED
    BY <1>1, <2>1, <2>3, <2>4 DEF Effective
<1>2. CASE ~Unanswered
  <2>1. UNCHANGED <<rows, quest>>
    BY <1>2 DEF RecordOutcome
  <2>2. Effective(o) \in Closings
    <3>1. ResolvedPrimary # 0 => rows[ResolvedPrimary].outcome # "open"
      BY <1>2 DEF Unanswered
    <3>2. ResolvedPrimary # 0 => rows[ResolvedPrimary] \in Row
      BY <1>0, ResolvedKnown, RowsOfQuestion
    <3> QED
      BY <1>2, <3>1, <3>2 DEF Effective, Row
  <2> QED
    BY <1>0, <1>2, <2>1, <2>2 DEF RowsOf
<1> QED
  BY <1>1, <1>2

\* Showing candidates appends rows of the current question; the new ids are theirs.
LEMMA Inserted ==
  ASSUME rows \in Seq(Row), values.recs \in Seq(People), values.qid \in Questions,
         rows' = rows \o NewRows(values.recs), UNCHANGED values
  PROVE  /\ rows' \in Seq(Row) /\ Len(rows') = Len(rows) + Len(values.recs)
         /\ \A i \in DOMAIN rows : i \in DOMAIN rows' /\ rows'[i] = rows[i]
         /\ \A i \in DOMAIN rows' :
              i \notin DOMAIN rows => rows'[i].q = values.qid /\ rows'[i].outcome = "open"
         /\ \A q : RowsOf(q) \subseteq RowsOf(q)'
         /\ NewIds(values.recs) \in Seq(Nat)
         /\ Range(NewIds(values.recs)) \subseteq RowsOf(values.qid)'
<1> DEFINE recs == values.recs
           n == Len(rows)
           m == Len(recs)
<1>1. n \in Nat /\ m \in Nat /\ DOMAIN rows = 1..n /\ DOMAIN recs = 1..m
      /\ \A k \in 1..m : recs[k] \in People
  BY LenProperties, ElementOfSeq
<1>2. NewRows(recs) \in Seq(Row) /\ Len(NewRows(recs)) = m
      /\ \A k \in 1..m : NewRows(recs)[k].q = values.qid /\ NewRows(recs)[k].outcome = "open"
  <2>1. NewRows(recs) \in [1..m -> Row]
    BY <1>1 DEF NewRows, Row
  <2>2. NewRows(recs) \in Seq(Row)
    BY <1>1, <2>1, FunctionIsSeq
  <2>3. Len(NewRows(recs)) = m
    BY <1>1, <2>1, FunctionIsSeq
  <2>4. \A k \in 1..m : NewRows(recs)[k].q = values.qid /\ NewRows(recs)[k].outcome = "open"
    BY <1>1 DEF NewRows
  <2> QED
    BY <2>2, <2>3, <2>4
<1> HIDE DEF n, m
<1>3. /\ rows' \in Seq(Row) /\ Len(rows') = n + m
      /\ \A i \in 1..(n + m) : rows'[i] = IF i <= n THEN rows[i] ELSE NewRows(recs)[i - n]
  BY <1>1, <1>2, ConcatProperties DEF n
<1>4. DOMAIN rows' = 1..(n + m)
  BY <1>1, <1>3, LenProperties
<1>5. \A i \in DOMAIN rows : i \in DOMAIN rows' /\ rows'[i] = rows[i]
  BY <1>1, <1>3, <1>4
<1>6. \A i \in DOMAIN rows' :
        i \notin DOMAIN rows => rows'[i].q = values.qid /\ rows'[i].outcome = "open"
  BY <1>1, <1>2, <1>3, <1>4
<1>7. \A q : RowsOf(q) \subseteq RowsOf(q)'
  BY <1>5 DEF RowsOf
<1>8. NewIds(recs) \in Seq(Nat) /\ DOMAIN NewIds(recs) = 1..m
      /\ \A k \in 1..m : NewIds(recs)[k] = n + k
  <2>1. NewIds(recs) \in [1..m -> Nat] /\ \A k \in 1..m : NewIds(recs)[k] = n + k
    BY <1>1 DEF NewIds, n
  <2> QED
    BY <1>1, <2>1, FunctionIsSeq
<1>9. \A k \in 1..m : n + k \in DOMAIN rows' /\ n + k \notin DOMAIN rows
  BY <1>1, <1>4
<1>10. Range(NewIds(recs)) \subseteq RowsOf(values.qid)'
  <2>1. \A k \in 1..m : n + k \in RowsOf(values.qid)'
    BY <1>6, <1>9 DEF RowsOf
  <2> QED
    BY <1>8, <2>1 DEF Range
<1> QED
  BY <1>3, <1>5, <1>6, <1>7, <1>8, <1>10 DEF n, m

\* The appended rows, each with the person, the rank and the id of its position.
LEMMA InsertedAs ==
  ASSUME rows \in Seq(Row), values.recs \in Seq(People), values.qid \in Questions,
         rows' = rows \o NewRows(values.recs), UNCHANGED values
  PROVE  /\ DOMAIN NewIds(values.recs) = DOMAIN values.recs
         /\ \A k \in DOMAIN values.recs :
              /\ NewIds(values.recs)[k] \in RowsOf(values.qid)'
              /\ rows'[NewIds(values.recs)[k]].person = values.recs[k]
              /\ rows'[NewIds(values.recs)[k]].rank = k
         /\ \A i \in DOMAIN rows' : i \in DOMAIN rows \/ i \in Range(NewIds(values.recs))
<1> DEFINE recs == values.recs
           new  == NewRows(recs)
           n == Len(rows)
           m == Len(recs)
<1>1. n \in Nat /\ m \in Nat /\ DOMAIN rows = 1..n /\ DOMAIN recs = 1..m
      /\ \A k \in 1..m : recs[k] \in People
  BY LenProperties, ElementOfSeq
<1>2. /\ new \in Seq(Row) /\ Len(new) = m
      /\ \A k \in 1..m : new[k].person = recs[k] /\ new[k].rank = k
  <2>1. new \in [1..m -> Row]
    BY <1>1 DEF NewRows, Row
  <2>2. new \in Seq(Row) /\ Len(new) = m
    BY <1>1, <2>1, FunctionIsSeq
  <2>3. \A k \in 1..m : new[k].person = recs[k] /\ new[k].rank = k
    BY <1>1 DEF NewRows
  <2> QED
    BY <2>2, <2>3
<1>3. DOMAIN NewIds(recs) = 1..m /\ \A k \in 1..m : NewIds(recs)[k] = n + k
  BY <1>1 DEF NewIds
<1>4. /\ Range(NewIds(recs)) \subseteq RowsOf(values.qid)'
      /\ rows' \in Seq(Row) /\ Len(rows') = n + m
  BY Inserted
<1>5. rows' = rows \o new
  OBVIOUS
<1> HIDE DEF new, n, m
<1>6. \A i \in 1..(n + m) : rows'[i] = IF i <= n THEN rows[i] ELSE new[i - n]
  BY <1>2, <1>5, ConcatProperties DEF n
<1>7. ASSUME NEW k \in 1..m
      PROVE  /\ NewIds(recs)[k] \in RowsOf(values.qid)'
             /\ rows'[NewIds(recs)[k]].person = recs[k]
             /\ rows'[NewIds(recs)[k]].rank = k
  <2>1. n + k \in 1..(n + m) /\ ~(n + k <= n) /\ (n + k) - n = k
    BY <1>1
  <2>2. rows'[n + k] = new[k]
    BY <1>6, <2>1
  <2>3. NewIds(recs)[k] = n + k /\ NewIds(recs)[k] \in Range(NewIds(recs))
    BY <1>3 DEF Range
  <2> QED
    BY <1>2, <1>4, <2>2, <2>3
<1>8. ASSUME NEW i \in DOMAIN rows', i \notin DOMAIN rows
      PROVE  i \in Range(NewIds(recs))
  <2>1. i \in 1..(n + m)
    BY <1>1, <1>4, LenProperties
  <2>2. i - n \in 1..m /\ i = n + (i - n)
    BY <1>1, <1>8, <2>1
  <2>3. NewIds(recs)[i - n] = i
    BY <1>3, <2>2
  <2> QED
    BY <1>3, <2>2, <2>3 DEF Range
<1> QED
  BY <1>1, <1>3, <1>7, <1>8

-----------------------------------------------------------------------------
(* Running segments *)

\* Handing an event to a client, who may be gone, keeps the segment typed.
LEMMA Delivered ==
  ASSUME TypeOK, NEW local \in Segment, NEW emits, Deliver(local, emits),
         UNCHANGED hold \/ hold = "stream"
  PROVE  /\ seg' \in Segment /\ seg'.upd = "none"
         /\ seg'.ids = local.ids \/ seg'.ids = <<>>
         /\ hold' \in {hold, "free"}
         /\ drops' \in 0..MaxDrops
<1>1. CASE seg' = [local EXCEPT !.upd = "none"] /\ UNCHANGED <<hold, drops>>
  BY <1>1 DEF Segment, TypeOK
<1>2. CASE drops < MaxDrops /\ drops' = drops + 1 /\ seg' = NoSegment /\ hold' = "free"
  BY <1>2, SessionAssumption, EmptySeq DEF Segment, NoSegment, TypeOK
<1> QED
  BY <1>1, <1>2 DEF Deliver

\* A node keeps the question and the ids, and there is one to run.
LEMMA NodeKeepsIds ==
  ASSUME GraphTypeOK, Compute \/ Ask \/ \E o : Send(o)
  PROVE  /\ values'.qid = values.qid /\ values'.primary = values.primary
         /\ values'.recIds = values.recIds
         /\ node \in Nodes
<1> USE DEF GraphTypeOK, AgentState, Nodes, Terminals, InterruptNodes
<1>1. CASE Compute
  BY <1>1 DEF Compute, C1Intent, C2Sufficiency, C3Embed, KnowledgeAnswer, C4Retrieve, C5Route,
     SelfAnswer, AdditiveAnswer, PriorAnswer, C6Score, Answerability, C7Draft, Reroute, Terminal
<1>2. CASE Ask
  BY <1>2 DEF Ask
<1>3. ASSUME NEW o, Send(o) PROVE values' = values /\ node \in Nodes
  BY <1>3 DEF Send
<1> QED
  BY <1>1, <1>2, <1>3

\* A step that leaves the checkpoint alone leaves its invariant alone.
LEMMA GraphUnchanged ==
  ASSUME UNCHANGED graphVars, GraphTypeOK, GraphSafe
  PROVE  GraphTypeOK' /\ GraphSafe'
BY DEF graphVars, GraphTypeOK, GraphSafe, ShownNotDeclined, Shown, HandoffHasCandidate,
       DocumentNeverWaits

\* What every handled update has in common.
LEMMA HandledKeeps ==
  ASSUME SessionInv, Streaming, seg.upd # "none",
         UNCHANGED <<graphVars, pending, tab, faults, corrections>>,
         rows' \in Seq(Row), \A q : RowsOf(q) \subseteq RowsOf(q)',
         quest' \in Seq(Question), Len(quest') = Len(quest), UNCHANGED answers,
         NEW local \in Segment, Range(local.ids) \subseteq RowsOf(values.qid)',
         NEW emits, Deliver(local, emits)
  PROVE  SessionInv'
<1>1. /\ seg' \in Segment /\ seg'.upd = "none"
      /\ seg'.ids = local.ids \/ seg'.ids = <<>>
      /\ hold' \in {"stream", "free"} /\ drops' \in 0..MaxDrops
  BY Delivered DEF SessionInv, Streaming
<1>2. TypeOK'
  BY <1>1, GraphUnchanged DEF SessionInv, TypeOK
<1>3. GraphSafe'
  BY GraphUnchanged DEF SessionInv, TypeOK
<1>4. Numbered'
  BY <1>1 DEF SessionInv, Numbered, graphVars
<1>5. IdsKnown'
  <2>1. values' = values /\ Range(seg'.ids) \subseteq RowsOf(values.qid)'
    BY <1>1 DEF graphVars, Range
  <2> QED
    BY <2>1 DEF SessionInv, IdsKnown
<1> QED
  BY <1>2, <1>3, <1>4, <1>5 DEF SessionInv

\* Setting fields of the current question's row.
LEMMA QuestionSet ==
  ASSUME quest \in Seq(Question), NEW q \in 1..Len(quest), NEW r \in Question,
         quest' = [quest EXCEPT ![q] = r]
  PROVE  quest' \in Seq(Question) /\ Len(quest') = Len(quest)
BY ExceptSeq

\* What _run does on a node's update keeps the invariant.
LEMMA HandleUpdateKeeps == ASSUME SessionInv, HandleUpdate PROVE SessionInv'
<1>1. /\ Streaming /\ UNCHANGED <<graphVars, pending, tab, faults, corrections>>
      /\ rows \in Seq(Row) /\ quest \in Seq(Question) /\ seg \in Segment
      /\ values \in AgentState /\ values.recs \in Seq(People)
  BY DEF HandleUpdate, SessionInv, TypeOK, GraphTypeOK, AgentState
<1>2. seg.upd # "none"
  BY DEF HandleUpdate, HandleRoute, HandleKnowledge, HandleScore, HandleVerdict, HandleDraft,
         HandleTerminal, HandleQuietly, Terminals, Nodes, InterruptNodes
<1>3. values.qid \in 1..Len(quest) /\ values.qid \in Questions /\ quest[values.qid] \in Question
  <2>1. values.qid \in 1..Len(quest) /\ values.qid \in Questions
    BY <1>1, <1>2, LenProperties DEF SessionInv, Numbered, AgentState
  <2> QED
    BY <1>1, <2>1, ElementOfSeq
<1>4. Range(seg.ids) \subseteq RowsOf(values.qid) /\ values' = values
  BY <1>1 DEF SessionInv, IdsKnown, graphVars
<1>5. UNCHANGED rows => \A q : RowsOf(q) \subseteq RowsOf(q)'
  BY DEF RowsOf
<1>6. ASSUME NEW emits, UNCHANGED sqlVars, Deliver(seg, emits) PROVE SessionInv'
  BY <1>1, <1>2, <1>4, <1>5, <1>6, HandledKeeps DEF sqlVars
<1>7. ASSUME NEW x, InsertAndDeliver(values.recs) PROVE SessionInv'
  <2>1. /\ rows' \in Seq(Row) /\ \A q : RowsOf(q) \subseteq RowsOf(q)'
        /\ NewIds(values.recs) \in Seq(Nat)
        /\ Range(NewIds(values.recs)) \subseteq RowsOf(values.qid)'
    BY <1>1, <1>3, <1>4, <1>7, Inserted DEF InsertAndDeliver
  <2>2. [seg EXCEPT !.ids = NewIds(values.recs)] \in Segment
        /\ [seg EXCEPT !.ids = NewIds(values.recs)].ids = NewIds(values.recs)
    BY <1>1, <2>1 DEF Segment
  <2> QED
    BY <1>1, <1>2, <1>7, <2>1, <2>2, HandledKeeps DEF InsertAndDeliver
<1>8. CASE HandleRoute
  <2>1. quest' \in Seq(Question) /\ Len(quest') = Len(quest)
    <3> DEFINE r == [quest[values.qid] EXCEPT !.route = values.route,
                       !.resolved = quest[values.qid].resolved \/ values.route = "document"]
    <3>1. r \in Question
      BY <1>1, <1>3 DEF Question, AgentState
    <3>2. quest' = [quest EXCEPT ![values.qid] = r]
      BY <1>1, <1>3, <1>8, LenProperties DEF HandleRoute
    <3> HIDE DEF r
    <3> QED
      BY <1>1, <1>3, <3>1, <3>2, QuestionSet
  <2>2. [seg EXCEPT !.route = values.route] \in Segment
        /\ [seg EXCEPT !.route = values.route].ids = seg.ids
    BY <1>1 DEF Segment, AgentState
  <2> QED
    BY <1>1, <1>2, <1>4, <1>5, <1>8, <2>1, <2>2, HandledKeeps DEF HandleRoute
<1>9. CASE HandleKnowledge
  <2>1. [quest[values.qid] EXCEPT !.route = "knowledge"] \in Question
    BY <1>3 DEF Question
  <2>2. quest' \in Seq(Question) /\ Len(quest') = Len(quest)
    BY <1>1, <1>3, <1>9, <2>1, QuestionSet DEF HandleKnowledge
  <2>3. PICK local : /\ local \in Segment /\ local.ids = seg.ids
                     /\ Deliver(local, FALSE)
    <3> DEFINE l == [seg EXCEPT !.route = IF values.grounded THEN "knowledge" ELSE @]
    <3>1. l \in Segment /\ l.ids = seg.ids
      BY <1>1 DEF Segment
    <3>2. Deliver(l, FALSE)
      BY <1>9 DEF HandleKnowledge
    <3> QED
      BY <3>1, <3>2
  <2> QED
    BY <1>1, <1>2, <1>4, <1>5, <1>9, <2>2, <2>3, HandledKeeps DEF HandleKnowledge
<1>10. CASE HandleScore
  BY <1>6, <1>7, <1>10 DEF HandleScore
<1>11. CASE HandleVerdict
  BY <1>6, <1>7, <1>11 DEF HandleVerdict
<1>12. CASE HandleDraft
  <2>1. ASSUME NEW ids \in DisplayOrders(values.qid),
               Deliver([seg EXCEPT !.ids = ids], TRUE), UNCHANGED sqlVars
        PROVE  SessionInv'
    <3>1. RowsOf(values.qid) \subseteq 1..Len(rows) /\ Len(rows) \in Nat
      BY <1>1, RowsOfQuestion
    <3>2. IsFiniteSet(RowsOf(values.qid)) /\ Cardinality(RowsOf(values.qid)) \in Nat
      <4>1. IsFiniteSet(1..Len(rows))
        BY <3>1, FS_Interval
      <4>2. IsFiniteSet(RowsOf(values.qid))
        BY <3>1, <4>1, FS_Subset
      <4> QED
        BY <4>2, FS_CardinalityType
    <3>3. ids \in [1..Cardinality(RowsOf(values.qid)) -> RowsOf(values.qid)]
      BY <2>1 DEF DisplayOrders
    <3>4. ids \in [1..Cardinality(RowsOf(values.qid)) -> Nat]
      BY <3>1, <3>3
    <3>5. ids \in Seq(Nat) /\ Range(ids) \subseteq RowsOf(values.qid)
      BY <3>2, <3>3, <3>4, FunctionIsSeq DEF Range
    <3>6. [seg EXCEPT !.ids = ids] \in Segment /\ [seg EXCEPT !.ids = ids].ids = ids
      BY <1>1, <3>5 DEF Segment
    <3> QED
      BY <1>1, <1>2, <1>4, <1>5, <2>1, <3>5, <3>6, HandledKeeps DEF sqlVars
  <2> QED
    BY <1>6, <1>7, <1>12, <2>1 DEF HandleDraft
<1>13. CASE HandleTerminal
  <2>1. quest' \in Seq(Question) /\ Len(quest') = Len(quest)
    <3>1. [quest[values.qid] EXCEPT !.resolved = TRUE, !.self = TRUE] \in Question
      BY <1>3 DEF Question
    <3>2. \/ quest' = quest
          \/ quest' = [quest EXCEPT ![values.qid] =
                         [quest[values.qid] EXCEPT !.resolved = TRUE, !.self = TRUE]]
      BY <1>1, <1>3, <1>13, LenProperties DEF HandleTerminal
    <3> QED
      BY <1>1, <1>3, <3>1, <3>2, QuestionSet
  <2>2. PICK local \in Segment : local.ids = seg.ids /\ Deliver(local, TRUE)
    <3> DEFINE l == [seg EXCEPT !.terminal = IF seg.upd = "c8_update" THEN "done" ELSE "message"]
    <3>1. l \in Segment /\ l.ids = seg.ids
      BY <1>1 DEF Segment
    <3>2. Deliver(l, TRUE)
      BY <1>13 DEF HandleTerminal
    <3> QED
      BY <3>1, <3>2
  <2> QED
    BY <1>1, <1>2, <1>4, <1>5, <1>13, <2>1, <2>2, HandledKeeps DEF HandleTerminal
<1>14. CASE HandleQuietly
  BY <1>6, <1>14 DEF HandleQuietly
<1> QED
  BY <1>8, <1>9, <1>10, <1>11, <1>12, <1>13, <1>14 DEF HandleUpdate

\* What the steps outside a segment's updates have in common: no row or question is
\* lost, and the ids left behind are those of the question the graph is then at.
LEMMA StepKeeps ==
  ASSUME SessionInv, GraphTypeOK', GraphSafe',
         rows' \in Seq(Row), \A q : RowsOf(q)' = RowsOf(q),
         quest' \in Seq(Question), Len(quest') \in Questions \cup {0}, Len(quest') >= Len(quest),
         answers' \subseteq Nat, tab' \in Nat,
         seg' \in Segment, seg'.ids \in {seg.ids, <<>>},
         seg'.upd = "none" \/ values'.qid # 0,
         hold' \in {"free", "stream", "select", "refer", "fallback"},
         hold' = "fallback" => values'.qid # 0,
         pending' \in Pending, pending'.kind = "fresh" => pending'.q \in 1..Len(quest'),
         faults' \in 0..MaxFaults, drops' \in 0..MaxDrops, corrections' \in 0..MaxCorrections,
         values'.qid = values.qid \/ (values'.qid \in 1..Len(quest) /\ seg'.ids = <<>>
                                      /\ values'.primary = 0 /\ values'.recIds = <<>>),
         values'.qid = 0 => node' = Finished,
         values'.primary \in {values.primary, 0} \cup Range(values.recIds) \cup Range(seg.ids),
         Range(values'.recIds) \subseteq Range(values.recIds) \cup Range(seg.ids)
  PROVE  SessionInv'
<1>1. TypeOK'
  BY DEF SessionInv, TypeOK
<1>2. Numbered'
  BY LenProperties DEF SessionInv, TypeOK, Numbered
<1>3. IdsKnown'
  <2>1. CASE values'.qid = values.qid
    <3>1. RowsOf(values.qid)' = RowsOf(values.qid)
      BY <2>1
    <3>2. Range(seg'.ids) \subseteq RowsOf(values.qid)
      BY DEF SessionInv, IdsKnown, Range
    <3> QED
      BY <3>1, <3>2 DEF SessionInv, IdsKnown
  <2>2. CASE seg'.ids = <<>> /\ values'.primary = 0 /\ values'.recIds = <<>>
    BY <2>2 DEF IdsKnown, Range
  <2> QED
    BY <2>1, <2>2
<1> QED
  BY <1>1, <1>2, <1>3 DEF SessionInv

\* The same with the checkpoint untouched.
LEMMA QuietStep ==
  ASSUME SessionInv, UNCHANGED graphVars,
         rows' \in Seq(Row), \A q : RowsOf(q)' = RowsOf(q),
         quest' \in Seq(Question), Len(quest') \in Questions \cup {0}, Len(quest') >= Len(quest),
         answers' \subseteq Nat, tab' \in Nat,
         seg' \in Segment, seg'.ids \in {seg.ids, <<>>}, seg'.upd \in {seg.upd, "none"},
         hold' \in {"free", "stream", "select", "refer", hold},
         pending' \in Pending, pending'.kind = "fresh" => pending'.q \in 1..Len(quest'),
         faults' \in 0..MaxFaults, drops' \in 0..MaxDrops, corrections' \in 0..MaxCorrections
  PROVE  SessionInv'
<1>1. GraphTypeOK' /\ GraphSafe' /\ values' = values /\ node' = node
  BY GraphUnchanged DEF SessionInv, TypeOK, graphVars
<1>2. /\ seg'.upd = "none" \/ values'.qid # 0
      /\ hold' = "fallback" => values'.qid # 0
      /\ values'.qid = 0 => node' = Finished
      /\ hold' \in {"free", "stream", "select", "refer", "fallback"}
  BY <1>1 DEF SessionInv, Numbered, TypeOK
<1> QED
  BY <1>1, <1>2, StepKeeps

\* The state of the session at a hand-off.
LEMMA AtHandoffKnown ==
  ASSUME SessionInv, AtHandoff
  PROVE  /\ values.recs # <<>> /\ values.recs \in Seq(People)
         /\ values.qid \in 1..Len(quest) /\ values.qid \in Questions
         /\ ResolvedPrimary \in Nat
<1>1. values.recs # <<>> /\ values.recs \in Seq(People)
  BY DEF SessionInv, AtHandoff, GraphSafe, HandoffHasCandidate, TypeOK, GraphTypeOK, AgentState
<1>2. values.qid \in 1..Len(quest) /\ values.qid \in Questions
  BY LenProperties DEF SessionInv, AtHandoff, Numbered, TypeOK, GraphTypeOK, AgentState, Finished
<1> QED
  BY <1>1, <1>2, ResolvedKnown DEF SessionInv

\* Every HTTP handler keeps the invariant.
LEMMA HandlersKeep == ASSUME SessionInv, Handlers PROVE SessionInv'
<1>0. /\ rows \in Seq(Row) /\ quest \in Seq(Question) /\ Len(quest) \in Questions \cup {0}
      /\ Len(quest) \in Nat /\ answers \subseteq Nat /\ tab \in Nat
      /\ pending \in Pending /\ seg \in Segment
      /\ hold \in {"free", "stream", "select", "refer", "fallback"}
      /\ faults \in 0..MaxFaults /\ drops \in 0..MaxDrops /\ corrections \in 0..MaxCorrections
      /\ pending.kind = "fresh" => pending.q \in 1..Len(quest)
  BY LenProperties DEF SessionInv, TypeOK, Numbered
<1>1. UNCHANGED rows => rows' \in Seq(Row) /\ \A q : RowsOf(q)' = RowsOf(q)
  BY <1>0 DEF RowsOf
<1>2. /\ \A r \in Resumes : ResumeWith(r) \in Pending /\ ResumeWith(r).kind # "fresh"
      /\ \A q \in Questions : FreshRun(q) \in Pending /\ FreshRun(q).q = q
  BY DEF ResumeWith, FreshRun, Pending, Resumes
<1> USE <1>0
<1>3. CASE StartQuestion
  <2>1. [route |-> "none", resolved |-> FALSE, self |-> FALSE] \in Question
    BY DEF Question
  <2>2. quest' \in Seq(Question) /\ Len(quest') = Len(quest) + 1
    BY <1>3, <2>1, AppendProperties DEF StartQuestion
  <2> QED
    BY <1>1, <1>2, <1>3, <2>2, QuietStep DEF StartQuestion, countVars
<1>4. CASE SubmitReply
  BY <1>1, <1>2, <1>4, QuietStep DEF SubmitReply, countVars, sqlVars, Resumes
<1>5. CASE LoadHandoff
  BY <1>1, <1>5, AtHandoffKnown, QuietStep DEF LoadHandoff, countVars, sqlVars
<1>6. ASSUME NEW o \in {"accepted", "declined"}, SubmitOutcome(o) PROVE SessionInv'
  <2>1. /\ rows' \in Seq(Row) /\ \A q : RowsOf(q)' = RowsOf(q)
        /\ quest' \in Seq(Question) /\ Len(quest') = Len(quest) /\ Effective(o) \in Closings
    BY <1>6, AtHandoffKnown, Recorded DEF SubmitOutcome, SessionInv, Closings
  <2>2. answers' \subseteq Nat
    BY <1>6, AtHandoffKnown DEF SubmitOutcome
  <2> QED
    BY <1>2, <1>6, <2>1, <2>2, QuietStep DEF SubmitOutcome, countVars, Resumes
<1>7. CASE Exclude
  <2>1. /\ rows' \in Seq(Row) /\ \A q : RowsOf(q)' = RowsOf(q)
        /\ quest' \in Seq(Question) /\ Len(quest') = Len(quest)
    BY <1>7, AtHandoffKnown, Recorded DEF Exclude, SessionInv, Closings
  <2> QED
    BY <1>2, <1>7, <2>1, QuietStep DEF Exclude, countVars, Resumes, Closings
<1>8. CASE Redraft
  BY <1>1, <1>2, <1>8, QuietStep DEF Redraft, countVars, sqlVars, Resumes
<1>9. CASE Correct
  <2>1. /\ rows' \in Seq(Row) /\ \A q : RowsOf(q)' = RowsOf(q)
        /\ quest' \in Seq(Question) /\ Len(quest') = Len(quest)
    BY <1>9, AtHandoffKnown, Recorded DEF Correct, SessionInv, Closings
  <2>2. values.qid \in Questions /\ values.qid \in 1..Len(quest)
    BY <1>9, AtHandoffKnown DEF Correct
  <2>3. corrections' \in 0..MaxCorrections
    BY <1>9, SessionAssumption DEF Correct
  <2> QED
    BY <1>2, <1>9, <2>1, <2>2, <2>3, QuietStep DEF Correct
<1>10. ASSUME NEW p \in People, Refer(p) PROVE SessionInv'
  <2>1. /\ rows' \in Seq(Row) /\ \A q : RowsOf(q)' = RowsOf(q)
        /\ quest' \in Seq(Question) /\ Len(quest') = Len(quest)
    BY <1>10, AtHandoffKnown, Recorded DEF Refer, SessionInv, Closings
  <2>2. seg' \in Segment /\ seg'.ids = seg.ids /\ seg'.upd = seg.upd
    BY <1>10 DEF Refer, Segment
  <2> QED
    BY <1>10, <2>1, <2>2, QuietStep DEF Refer, countVars
<1>11. ASSUME NEW i \in DOMAIN values.recs, Select(i) PROVE SessionInv'
  <2>1. GraphTypeOK' /\ GraphSafe'
    BY <1>11, SteerTyped, SteerSafe DEF Select, SessionInv, TypeOK
  <2>2. /\ values'.qid = values.qid /\ values.qid # 0
        /\ Range(values'.recIds) \subseteq Range(values.recIds)
        /\ values'.primary \in Range(values.recIds)
    <3>1. values.recIds \in Seq(Nat) /\ i \in DOMAIN values.recIds /\ values.recIds # <<>>
      BY <1>11, LenProperties, EmptySeq DEF Select, Reselect, SessionInv, TypeOK, GraphTypeOK, AgentState
    <3>2. /\ values'.qid = values.qid
          /\ values'.recIds = MoveToFront(values.recIds, i)
          /\ values'.primary = MoveToFront(values.recIds, i)[1]
      BY <1>11 DEF Select, Reselect, SessionInv, TypeOK, GraphTypeOK, AgentState
    <3>3. MoveToFront(values.recIds, i)[1] = values.recIds[i]
      BY <3>1, LenProperties, EmptySeq DEF MoveToFront
    <3>4. Range(values'.recIds) \subseteq Range(values.recIds)
      BY <3>1, <3>2, MoveToFrontPermutes
    <3>5. values'.primary \in Range(values.recIds)
      BY <3>1, <3>2, <3>3 DEF Range
    <3>6. values.qid # 0
      BY <1>11, AtHandoffKnown DEF Select
    <3> QED
      BY <3>2, <3>4, <3>5, <3>6
  <2>3. seg'.upd = "none" \/ values'.qid # 0
    BY <2>2
  <2> QED
    BY <1>1, <1>11, <2>1, <2>2, <2>3, StepKeeps DEF Select, sqlVars, countVars
<1>12. CASE RequestFallback
  <2>1. GraphTypeOK' /\ GraphSafe'
    BY <1>12, SteerTyped, SteerSafe DEF RequestFallback, SessionInv, TypeOK
  <2>2. /\ values'.qid = values.qid /\ values.qid # 0
        /\ values'.recIds = values.recIds /\ values'.primary = values.primary
    BY <1>12 DEF RequestFallback, Reopen, FallbackOffered, SessionInv, TypeOK, GraphTypeOK, AgentState
  <2> QED
    BY <1>1, <1>12, <2>1, <2>2, StepKeeps DEF RequestFallback, sqlVars, countVars
<1> QED
  BY <1>3, <1>4, <1>5, <1>6, <1>7, <1>8, <1>9, <1>10, <1>11, <1>12 DEF Handlers

\* So does the second store's write of refer, select and fallback.
LEMMA SecondStepsKeep == ASSUME SessionInv, SecondStep PROVE SessionInv'
<1>0. /\ rows \in Seq(Row) /\ quest \in Seq(Question) /\ Len(quest) \in Questions \cup {0}
      /\ Len(quest) \in Nat /\ answers \subseteq Nat /\ tab \in Nat
      /\ pending \in Pending /\ seg \in Segment /\ values \in AgentState
      /\ faults \in 0..MaxFaults /\ drops \in 0..MaxDrops /\ corrections \in 0..MaxCorrections
      /\ pending.kind = "fresh" => pending.q \in 1..Len(quest)
  BY LenProperties DEF SessionInv, TypeOK, Numbered, GraphTypeOK
<1> USE <1>0
<1>1. UNCHANGED rows => rows' \in Seq(Row) /\ \A q : RowsOf(q)' = RowsOf(q)
  BY DEF RowsOf
<1>2. NoSegment \in Segment /\ NoSegment.ids = <<>> /\ NoSegment.upd = "none"
  BY EmptySeq DEF NoSegment, Segment
<1>3. CASE ReferSeat
  <2>1. GraphTypeOK' /\ GraphSafe'
    <3>1. seg.referee \in People \cup {None}
      BY DEF Segment
    <3>2. values'.referred = seg.referee /\ values' = [values EXCEPT !.referred = seg.referee]
      BY <1>3 DEF ReferSeat, SeatReferral, AgentState
    <3>3. GraphSafe'
      BY <1>3, SteerSafe DEF ReferSeat, SessionInv, TypeOK
    <3> QED
      BY <1>3, <3>1, <3>2, <3>3 DEF ReferSeat, SeatReferral, SessionInv, TypeOK, GraphTypeOK, AgentState
  <2>2. /\ values'.qid = values.qid /\ values'.recIds = values.recIds
        /\ values'.primary = values.primary /\ node' = node
    BY <1>3 DEF ReferSeat, SeatReferral, AgentState
  <2>3. pending' \in Pending /\ pending'.kind # "fresh"
    BY <1>3 DEF ReferSeat, ResumeWith, Pending, Resumes, Closings
  <2>4. values'.qid = 0 => node' = Finished
    BY <2>2 DEF SessionInv, Numbered
  <2> QED
    BY <1>1, <1>2, <1>3, <2>1, <2>2, <2>3, <2>4, StepKeeps DEF ReferSeat, sqlVars, countVars
<1>4. CASE SelectRanks
  <2> DEFINE new(i) == IF i \in Range(values.recIds)
                         THEN [rows[i] EXCEPT !.rank =
                                 CHOOSE k \in DOMAIN values.recIds : values.recIds[k] = i]
                         ELSE rows[i]
  <2>1. Len(rows) \in Nat /\ DOMAIN rows = 1..Len(rows) /\ \A i \in DOMAIN rows : rows[i] \in Row
    BY LenProperties, ElementOfSeq
  <2>2. \A i \in DOMAIN rows : new(i) \in Row /\ new(i).q = rows[i].q
    <3> SUFFICES ASSUME NEW i \in DOMAIN rows, i \in Range(values.recIds)
                 PROVE  new(i) \in Row /\ new(i).q = rows[i].q
      BY <2>1
    <3>1. \E k \in DOMAIN values.recIds : values.recIds[k] = i
      BY DEF Range
    <3>2. DOMAIN values.recIds \subseteq Nat \ {0}
      BY LenProperties DEF AgentState
    <3> DEFINE r == CHOOSE k \in DOMAIN values.recIds : values.recIds[k] = i
    <3>3. r \in Nat \ {0}
      BY <3>1, <3>2
    <3> HIDE DEF r
    <3>4. [rows[i] EXCEPT !.rank = r] \in Row /\ [rows[i] EXCEPT !.rank = r].q = rows[i].q
      BY <2>1, <3>3 DEF Row
    <3> QED
      BY <3>4 DEF r
  <2>3. rows' = [i \in DOMAIN rows |-> new(i)]
    BY <1>4 DEF SelectRanks
  <2> HIDE DEF new
  <2>4. rows' \in [1..Len(rows) -> Row] /\ \A i \in DOMAIN rows : rows'[i].q = rows[i].q
    BY <2>1, <2>2, <2>3
  <2>5. rows' \in Seq(Row) /\ \A q : RowsOf(q)' = RowsOf(q)
    BY <2>1, <2>4, FunctionIsSeq DEF RowsOf
  <2> QED
    BY <1>4, <2>5, QuietStep DEF SelectRanks, countVars
<1>5. CASE FallbackReopensQuestion
  <2>1. [route |-> "person", resolved |-> FALSE, self |-> FALSE] \in Question
    BY DEF Question, Routes
  <2>2. values.qid \in 1..Len(quest)
    BY <1>5 DEF FallbackReopensQuestion, SessionInv, Numbered
  <2>3. quest' \in Seq(Question) /\ Len(quest') = Len(quest)
    BY <1>5, <2>1, <2>2, QuestionSet DEF FallbackReopensQuestion
  <2> QED
    BY <1>1, <1>5, <2>3, QuietStep DEF FallbackReopensQuestion, countVars
<1> QED
  BY <1>3, <1>4, <1>5 DEF SecondStep

\* So does every step of a streamed segment.
LEMMA StreamKeeps == ASSUME SessionInv, Stream PROVE SessionInv'
<1>0. /\ rows \in Seq(Row) /\ quest \in Seq(Question) /\ Len(quest) \in Questions \cup {0}
      /\ Len(quest) \in Nat /\ answers \subseteq Nat /\ tab \in Nat
      /\ pending \in Pending /\ seg \in Segment /\ values \in AgentState
      /\ faults \in 0..MaxFaults /\ drops \in 0..MaxDrops /\ corrections \in 0..MaxCorrections
      /\ pending.kind = "fresh" => pending.q \in 1..Len(quest)
      /\ GraphTypeOK /\ GraphSafe
  BY LenProperties DEF SessionInv, TypeOK, Numbered, GraphTypeOK
<1> USE <1>0
<1>1. UNCHANGED rows => rows' \in Seq(Row) /\ \A q : RowsOf(q)' = RowsOf(q)
  BY DEF RowsOf
<1>2. NoSegment \in Segment /\ NoSegment.ids = <<>> /\ NoSegment.upd = "none"
  BY EmptySeq DEF NoSegment, Segment
<1>3. Idle \in Pending /\ Idle.kind # "fresh"
  BY DEF Idle, Pending
<1>4. CASE Begin /\ BeginFresh
  <2>1. pending.q \in 1..Len(quest) /\ pending.q \in Questions
    BY <1>4 DEF BeginFresh, Pending
  <2>2. GraphTypeOK' /\ GraphSafe'
    BY <1>4, <2>1, DriveTyped, DriveSafe DEF BeginFresh
  <2>3. values'.qid = pending.q /\ values'.primary = 0 /\ values'.recIds = <<>>
    BY <1>4 DEF BeginFresh, Invoke, ResetValues, Unwritten
  <2> QED
    BY <1>1, <1>2, <1>3, <1>4, <2>1, <2>2, <2>3, StepKeeps
    DEF Begin, BeginFresh, sqlVars, countVars, Range
<1>5. CASE Begin /\ (BeginResume \/ BeginParked)
  <2>1. seg' \in Segment /\ seg'.ids = <<>> /\ seg'.upd = "none"
    <3>1. CASE BeginResume
      <4>1. pending.with \in Resumes \cup {"none"}
        BY DEF Pending
      <4> QED
        BY <3>1, <4>1, EmptySeq DEF BeginResume, NoSegment, Segment
    <3>2. CASE BeginParked
      BY <1>2, <3>2 DEF BeginParked
    <3> QED
      BY <1>5, <3>1, <3>2
  <2> QED
    BY <1>1, <1>3, <1>5, <2>1, QuietStep DEF Begin, BeginResume, BeginParked, sqlVars, countVars
<1>6. CASE RunNode
  <2>1. GraphTypeOK' /\ GraphSafe'
    BY <1>6, ComputeTyped, ComputeSafe, DriveTyped, DriveSafe DEF RunNode
  <2>2. /\ values'.qid = values.qid /\ values'.primary = values.primary
        /\ values'.recIds = values.recIds /\ node \in Nodes
    BY <1>6, NodeKeepsIds DEF RunNode
  <2>3. values.qid # 0
    BY <2>2 DEF SessionInv, Numbered, Nodes, Terminals, InterruptNodes, Finished
  <2>4. seg' \in Segment /\ seg'.ids = seg.ids
    BY <1>6, <2>2 DEF RunNode, Segment
  <2>5. hold' \in {"free", "stream", "select", "refer", "fallback"} /\ hold' # "fallback"
    BY <1>6 DEF RunNode, Streaming
  <2> QED
    BY <1>1, <1>6, <2>1, <2>2, <2>3, <2>4, <2>5, StepKeeps DEF RunNode, sqlVars, countVars
<1>7. CASE EndSegment
  <2>1. seg.ids \in Seq(Nat) /\ seg.terminal \in {"none", "done", "message"}
    BY DEF Segment
  <2>2. GraphTypeOK' /\ GraphSafe'
    BY <1>7, <2>1, SteerTyped, SteerSafe DEF EndSegment
  <2>3. /\ values'.qid = values.qid /\ node' = node
        /\ values'.recIds \in {values.recIds, seg.ids}
        /\ values'.primary = values.primary \/ (seg.ids # <<>> /\ values'.primary = Head(seg.ids))
    BY <1>7 DEF EndSegment, WriteBack, AgentState
  <2>4. seg.ids # <<>> => Head(seg.ids) \in Range(seg.ids)
    BY <2>1, TailForgetsHead
  <2>5. values'.qid = 0 => node' = Finished
    BY <2>3 DEF SessionInv, Numbered
  <2> QED
    BY <1>1, <1>2, <1>7, <2>2, <2>3, <2>4, <2>5, StepKeeps DEF EndSegment, sqlVars, countVars
<1> QED
  BY <1>4, <1>5, <1>6, <1>7, HandleUpdateKeeps DEF Stream, Begin

\* So do failures and restarts.
LEMMA FailuresKeep == ASSUME SessionInv, Fault \/ Crash PROVE SessionInv'
<1>1. /\ rows' \in Seq(Row) /\ quest' \in Seq(Question) /\ \A q : RowsOf(q)' = RowsOf(q)
      /\ Len(quest') = Len(quest) /\ Len(quest) \in Questions \cup {0} /\ Len(quest) \in Nat
      /\ answers' \subseteq Nat /\ tab' \in Nat /\ drops' \in 0..MaxDrops
      /\ corrections' \in 0..MaxCorrections /\ UNCHANGED graphVars /\ hold' = "free"
  BY LenProperties DEF SessionInv, TypeOK, Fault, Crash, sqlVars, RowsOf
<1>2. seg' \in Segment /\ seg'.ids = <<>> /\ seg'.upd = "none"
  <2>1. seg' = NoSegment
    BY DEF Fault, Crash
  <2> QED
    BY <2>1, EmptySeq DEF NoSegment, Segment
<1>3. pending' \in Pending /\ (pending'.kind = "fresh" => pending'.q \in 1..Len(quest'))
  BY <1>1 DEF Fault, Crash, SessionInv, TypeOK, Numbered, Idle, Pending
<1>4. faults' \in 0..MaxFaults
  BY SessionAssumption DEF Fault, Crash, SessionInv, TypeOK
<1> QED
  BY <1>1, <1>2, <1>3, <1>4, QuietStep

\* Every step of the session keeps the invariant.
LEMMA NextKeeps == SessionInv /\ [Next]_vars => SessionInv'
<1> SUFFICES ASSUME SessionInv, [Next]_vars PROVE SessionInv'
  OBVIOUS
<1>1. CASE UNCHANGED vars
  BY <1>1, GraphUnchanged
  DEF vars, sqlVars, countVars, graphVars, SessionInv, TypeOK, Numbered, IdsKnown, RowsOf
<1>2. CASE Next
  BY <1>2, StreamKeeps, SecondStepsKeep, HandlersKeep, FailuresKeep DEF Next
<1> QED
  BY <1>1, <1>2

\* The invariant holds in every reachable state.
LEMMA SessionInvariant == Spec => []SessionInv
<1>1. Init => SessionInv
  <2> SUFFICES ASSUME Init PROVE SessionInv
    OBVIOUS
  <2>1. GraphTypeOK /\ GraphSafe
    BY InitSafe DEF Init
  <2>2. TypeOK
    BY <2>1, SessionAssumption, EmptySeq DEF Init, TypeOK, Idle, Pending, NoSegment, Segment
  <2>3. Numbered /\ IdsKnown
    BY EmptySeq
    DEF Init, GraphInit, Unwritten, Numbered, IdsKnown, Idle, NoSegment, Range
  <2> QED
    BY <2>1, <2>2, <2>3 DEF SessionInv
<1> QED
  BY <1>1, NextKeeps, PTL DEF Spec

\* Every table, checkpoint, queue and local of the session keeps its type, whatever
\* fails and in whatever order requests come.
THEOREM SessionTyped == Spec => []TypeOK
  BY SessionInvariant, PTL DEF SessionInv

\* Embedded in the session, with its failures, restarts and reconnects, the graph still
\* shows nobody twice or after a decline, and always hands off to somebody.
THEOREM SessionGraphSafe ==
  Spec => [](ShownNotDeclined /\ HandoffHasCandidate /\ DocumentNeverWaits)
  BY SessionInvariant, PTL DEF SessionInv, GraphSafe

-----------------------------------------------------------------------------
(* Where outcomes land *)

\* Only the recording of an outcome closes rows: the other steps append open rows,
\* change ranks, or leave the table alone.
LEMMA RowSteps ==
  ASSUME SessionInv, Next
  PROVE  \/ UNCHANGED <<Entries, answers>>
         \/ rows' = rows \o NewRows(values.recs) /\ values.recs # <<>> /\ UNCHANGED answers
            /\ values.qid \in Questions /\ UNCHANGED values
         \/ \E o \in Closings :
              /\ AtHandoff /\ RecordOutcome(o)
              /\ \/ UNCHANGED answers
                 \/ o = "accepted" /\ Unanswered /\ answers' = answers \cup {ResolvedPrimary}
<1>0. rows \in Seq(Row) /\ values.recs \in Seq(People)
  BY DEF SessionInv, TypeOK, GraphTypeOK, AgentState
<1>1. UNCHANGED rows => UNCHANGED Entries
  BY DEF Entries
<1>2. CASE SecondStep
  <2>1. CASE SelectRanks
    <3>1. DOMAIN rows' = DOMAIN rows
      BY <2>1 DEF SelectRanks
    <3>2. \A i \in DOMAIN rows : rows[i] \in Row
      BY <1>0, LenProperties, ElementOfSeq
    <3>3. \A i \in DOMAIN rows : /\ rows'[i].q = rows[i].q
                                 /\ rows'[i].person = rows[i].person
                                 /\ rows'[i].outcome = rows[i].outcome
      BY <2>1, <3>2 DEF SelectRanks, Row
    <3> QED
      BY <2>1, <3>1, <3>3 DEF SelectRanks, Entries
  <2> QED
    BY <1>1, <1>2, <2>1 DEF SecondStep, ReferSeat, FallbackReopensQuestion, sqlVars
<1>3. CASE Fault \/ Crash
  BY <1>1, <1>3 DEF Fault, Crash, sqlVars
<1>4. CASE Handlers
  BY <1>1, <1>4 DEF Handlers, StartQuestion, SubmitReply, LoadHandoff, SubmitOutcome, Exclude,
     Redraft, Correct, RequestFallback, Refer, Select, sqlVars, Closings
<1>5. CASE Stream
  <2>1. CASE HandleUpdate
    <3>1. ASSUME InsertAndDeliver(values.recs), seg.upd # "none"
          PROVE  \/ UNCHANGED <<Entries, answers>>
                 \/ rows' = rows \o NewRows(values.recs) /\ values.recs # <<>>
                    /\ UNCHANGED answers /\ values.qid \in Questions
      <4>1. CASE values.recs = <<>>
        <5>1. NewRows(values.recs) = <<>>
          BY <4>1 DEF NewRows
        <5>2. rows' = rows /\ UNCHANGED answers
          BY <1>0, <3>1, <5>1, ConcatEmptySeq DEF InsertAndDeliver
        <5> QED
          BY <1>1, <5>2
      <4>2. CASE values.recs # <<>>
        BY <3>1, <4>2 DEF InsertAndDeliver, SessionInv, Numbered, TypeOK, GraphTypeOK, AgentState
      <4> QED
        BY <4>1, <4>2
    <3>2. UNCHANGED values
      BY <2>1 DEF HandleUpdate, graphVars
    <3>3. \/ UNCHANGED <<rows, answers>>
          \/ InsertAndDeliver(values.recs) /\ seg.upd # "none"
      BY <2>1 DEF HandleUpdate, HandleRoute, HandleKnowledge, HandleScore, HandleVerdict,
         HandleDraft, HandleTerminal, HandleQuietly, sqlVars
    <3> QED
      BY <1>1, <3>1, <3>2, <3>3
  <2> QED
    BY <1>1, <1>5, <2>1 DEF Stream, Begin, RunNode, EndSegment, sqlVars
<1> QED
  BY <1>2, <1>3, <1>4, <1>5 DEF Next

\* An outcome never lands on another person, another question, or a row the responder
\* was not shown, whatever the stored primary id has become.
THEOREM OutcomesLandRight == Spec => OutcomeOnShownPerson
<1>1. SessionInv /\ [Next]_vars
        => [ \A i \in DOMAIN rows : Closes(i) =>
               /\ rows[i].q = values.qid
               /\ values.recs # <<>> /\ rows[i].person = Head(values.recs) ]_vars
  <2> SUFFICES ASSUME SessionInv, Next, NEW i \in DOMAIN rows, Closes(i)
               PROVE  /\ rows[i].q = values.qid
                      /\ values.recs # <<>> /\ rows[i].person = Head(values.recs)
    OBVIOUS
  <2>0. rows \in Seq(Row) /\ TypeOK /\ IdsKnown /\ DOMAIN rows = 1..Len(rows)
    BY LenProperties DEF SessionInv, TypeOK
  <2>1. CASE UNCHANGED <<Entries, answers>>
    <3>1. Entries[i].outcome = rows[i].outcome
      BY DEF Entries
    <3>2. i \in DOMAIN Entries'
      BY <2>1 DEF Entries
    <3>3. Entries'[i].outcome = rows'[i].outcome
      BY <3>2 DEF Entries
    <3> QED
      BY <2>1, <3>1, <3>3 DEF Closes
  <2>2. CASE /\ rows' = rows \o NewRows(values.recs) /\ values.recs # <<>> /\ UNCHANGED answers
             /\ values.qid \in Questions /\ UNCHANGED values
    <3>1. values.recs \in Seq(People)
      BY <2>0 DEF TypeOK, GraphTypeOK, AgentState
    <3> QED
      BY <2>0, <2>2, <3>1, Inserted DEF Closes
  <2>3. ASSUME NEW o \in Closings, AtHandoff, RecordOutcome(o)
        PROVE  /\ rows[i].q = values.qid
               /\ values.recs # <<>> /\ rows[i].person = Head(values.recs)
    <3>1. values.recs # <<>> /\ (UNCHANGED rows \/ ClosesShown(o))
      BY <2>0, <2>3, AtHandoffKnown, Recorded
    <3>2. ClosesShown(o) => i = ResolvedPrimary
      BY DEF ClosesShown, Closes
    <3> QED
      BY <3>1, <3>2 DEF ClosesShown, Closes, RowsOf
  <2> QED
    BY <2>1, <2>2, <2>3, RowSteps
<1> QED
  BY <1>1, SessionInvariant, PTL DEF Spec, OutcomeOnShownPerson

-----------------------------------------------------------------------------
(* The session implements the ledger *)

\* The ledger entries a recommendations table t stands for.
EntriesIn(t) == [i \in DOMAIN t |->
  [q |-> t[i].q, person |-> t[i].person, outcome |-> t[i].outcome]]

\* A well-typed table stands for a sequence of ledger entries of the same length.
LEMMA EntriesInTyped ==
  ASSUME NEW t \in Seq(Row)
  PROVE  EntriesIn(t) \in Seq(Ledger!Entry) /\ Len(EntriesIn(t)) = Len(t)
<1>1. Len(t) \in Nat /\ DOMAIN t = 1..Len(t) /\ \A i \in DOMAIN t : t[i] \in Row
  BY LenProperties, ElementOfSeq
<1>2. \A i \in DOMAIN t :
        [q |-> t[i].q, person |-> t[i].person, outcome |-> t[i].outcome] \in Ledger!Entry
  BY <1>1 DEF Row, Ledger!Entry, Closings, Ledger!Closings
<1>3. EntriesIn(t) \in [1..Len(t) -> Ledger!Entry]
  BY <1>1, <1>2 DEF EntriesIn
<1> QED
  BY <1>1, <1>3, FunctionIsSeq

\* Showing candidates is an offer.
LEMMA ShowingOffers ==
  ASSUME rows \in Seq(Row), values.recs \in Seq(People), values.recs # <<>>,
         values.qid \in Questions, UNCHANGED <<values, answers>>,
         rows' = rows \o NewRows(values.recs)
  PROVE  Ledger!Offer
<1>1. /\ rows' \in Seq(Row) /\ Len(rows') = Len(rows) + Len(values.recs)
      /\ \A i \in DOMAIN rows : i \in DOMAIN rows' /\ rows'[i] = rows[i]
      /\ \A i \in DOMAIN rows' :
           i \notin DOMAIN rows => rows'[i].q = values.qid /\ rows'[i].outcome = "open"
  BY Inserted
<1>2. /\ Len(rows) \in Nat /\ DOMAIN rows = 1..Len(rows) /\ Len(rows') \in Nat
      /\ DOMAIN rows' = 1..Len(rows') /\ Len(values.recs) \in Nat \ {0}
  BY <1>1, LenProperties, EmptySeq
<1>3. Entries = EntriesIn(rows) /\ Entries' = EntriesIn(rows')
  BY DEF Entries, EntriesIn
<1>4. /\ Len(Entries) = Len(rows) /\ DOMAIN Entries = DOMAIN rows
      /\ \A i \in DOMAIN rows :
           Entries[i] = [q |-> rows[i].q, person |-> rows[i].person, outcome |-> rows[i].outcome]
  BY <1>3, EntriesInTyped DEF EntriesIn
<1>5. /\ Entries' \in Seq(Ledger!Entry) /\ Len(Entries') = Len(rows')
      /\ \A i \in DOMAIN rows' :
           Entries'[i] = [q |-> rows'[i].q, person |-> rows'[i].person, outcome |-> rows'[i].outcome]
  <2>1. rows' \in Seq(Row)
    BY <1>1
  <2> DEFINE t == rows'
  <2>2. EntriesIn(t) \in Seq(Ledger!Entry) /\ Len(EntriesIn(t)) = Len(t)
    <3> HIDE DEF t
    <3> QED  BY <2>1, EntriesInTyped DEF t
  <2> QED
    BY <1>3, <2>2 DEF EntriesIn
<1>6. Len(Entries') > Len(Entries)
  BY <1>1, <1>2, <1>4, <1>5
<1>7. \A i \in DOMAIN Entries : Entries'[i] = Entries[i]
  BY <1>1, <1>4, <1>5
<1>8. \A i \in (Len(Entries) + 1)..Len(Entries') :
        Entries'[i].q = values.qid /\ Entries'[i].outcome = "open"
  <2> SUFFICES ASSUME NEW i \in (Len(rows) + 1)..Len(rows')
               PROVE  Entries'[i].q = values.qid /\ Entries'[i].outcome = "open"
    BY <1>4, <1>5
  <2>1. i \in DOMAIN rows' /\ i \notin DOMAIN rows
    BY <1>2
  <2>2. rows'[i].q = values.qid /\ rows'[i].outcome = "open"
    BY <1>1, <2>1
  <2>3. Entries'[i] = [q |-> rows'[i].q, person |-> rows'[i].person, outcome |-> rows'[i].outcome]
    BY <1>5, <2>1
  <2> QED
    BY <2>2, <2>3
<1> QED
  BY <1>5, <1>6, <1>7, <1>8 DEF Ledger!Offer

\* Recording an outcome closes one entry, or none.
LEMMA RecordingCloses ==
  ASSUME rows \in Seq(Row), NEW o \in Closings, ClosesShown(o),
         \/ UNCHANGED answers
         \/ o = "accepted" /\ answers' = answers \cup {ResolvedPrimary}
  PROVE  Ledger!Close
<1> DEFINE r == ResolvedPrimary
<1>1. r \in DOMAIN rows /\ rows[r].outcome = "open" /\ rows' = [rows EXCEPT ![r].outcome = o]
  BY DEF ClosesShown, RowsOf
<1> HIDE DEF r
<1>2. /\ rows' \in Seq(Row) /\ Len(rows') = Len(rows)
      /\ \A i \in DOMAIN rows :
           rows'[i] = IF i = r THEN [rows[r] EXCEPT !.outcome = o] ELSE rows[i]
  BY <1>1, CloseRow
<1>3. /\ DOMAIN rows' = DOMAIN rows /\ \A i \in DOMAIN rows : rows[i] \in Row
  BY <1>2, LenProperties, ElementOfSeq
<1>4. /\ DOMAIN Entries = DOMAIN rows
      /\ \A i \in DOMAIN rows :
           Entries[i] = [q |-> rows[i].q, person |-> rows[i].person, outcome |-> rows[i].outcome]
  BY DEF Entries
<1>5. Entries' = [Entries EXCEPT ![r].outcome = o]
  <2>1. Entries' = [i \in DOMAIN rows |-> [q |-> rows'[i].q, person |-> rows'[i].person,
                                           outcome |-> rows'[i].outcome]]
    BY <1>3 DEF Entries
  <2>2. \A i \in DOMAIN rows : [q |-> rows'[i].q, person |-> rows'[i].person,
                                outcome |-> rows'[i].outcome]
          = IF i = r THEN [Entries[r] EXCEPT !.outcome = o] ELSE Entries[i]
    BY <1>1, <1>2, <1>3, <1>4 DEF Row
  <2>3. Entries = [i \in DOMAIN rows |-> Entries[i]]
    BY DEF Entries
  <2> QED
    BY <1>1, <2>1, <2>2, <2>3
<1>6. r \in DOMAIN Entries /\ Entries[r].outcome = "open" /\ o \in Ledger!Closings
  BY <1>1, <1>4 DEF Closings, Ledger!Closings
<1> QED
  BY <1>5, <1>6 DEF Ledger!Close, r

\* For every interleaving of handlers, dropped clients, failures and restarts, the rows
\* are a ledger: never removed or reassigned, one outcome each, answers of acceptances.
THEOREM SessionImplementsLedger == Spec => LedgerPromise
<1>1. Init => Ledger!LedgerInit
  BY DEF Init, Ledger!LedgerInit, Entries
<1>2. SessionInv /\ [Next]_vars => [Ledger!LedgerNext]_<<Entries, answers>>
  <2> SUFFICES ASSUME SessionInv, [Next]_vars
               PROVE  Ledger!LedgerNext \/ UNCHANGED <<Entries, answers>>
    OBVIOUS
  <2>0. rows \in Seq(Row) /\ values.recs \in Seq(People) /\ TypeOK /\ IdsKnown
    BY DEF SessionInv, TypeOK, GraphTypeOK, AgentState
  <2>1. CASE UNCHANGED vars
    BY <2>1 DEF vars, sqlVars, Entries
  <2>2. CASE /\ rows' = rows \o NewRows(values.recs) /\ values.recs # <<>> /\ UNCHANGED answers
             /\ values.qid \in Questions /\ UNCHANGED values
    BY <2>0, <2>2, ShowingOffers DEF Ledger!LedgerNext
  <2>3. ASSUME NEW o \in Closings, AtHandoff, RecordOutcome(o),
               \/ UNCHANGED answers
               \/ o = "accepted" /\ Unanswered /\ answers' = answers \cup {ResolvedPrimary}
        PROVE  Ledger!LedgerNext \/ UNCHANGED <<Entries, answers>>
    <3>1. (UNCHANGED rows \/ ClosesShown(o)) /\ (Unanswered => ClosesShown(o))
      BY <2>0, <2>3, AtHandoffKnown, Recorded
    <3>2. CASE ClosesShown(o)
      BY <2>0, <2>3, <3>2, RecordingCloses DEF Ledger!LedgerNext
    <3>3. CASE ~ClosesShown(o)
      BY <2>3, <3>1, <3>3 DEF Entries
    <3> QED
      BY <3>2, <3>3
  <2> QED
    BY <2>1, <2>2, <2>3, RowSteps
<1> QED
  BY <1>1, <1>2, SessionInvariant, PTL DEF Spec, LedgerPromise, Ledger!LedgerSpec

-----------------------------------------------------------------------------
(* What its readers get from the ledger *)

LedgerInv == Entries \in Seq(Ledger!Entry) /\ Ledger!AnswersAccepted

\* Offers and closings keep the ledger typed and its answers accepted.
LEMMA NextLedger ==
  LedgerInv /\ [Ledger!LedgerNext]_<<Entries, answers>> => LedgerInv'
<1> SUFFICES ASSUME LedgerInv, [Ledger!LedgerNext]_<<Entries, answers>> PROVE LedgerInv'
  OBVIOUS
<1> USE DEF LedgerInv, Ledger!AnswersAccepted
<1>1. CASE Ledger!Offer
  BY <1>1, LenProperties DEF Ledger!Offer
<1>2. CASE Ledger!Close
  <2>1. PICK i \in DOMAIN Entries, o \in Ledger!Closings :
          /\ Entries[i].outcome = "open"
          /\ Entries' = [Entries EXCEPT ![i].outcome = o]
          /\ UNCHANGED answers \/ (o = "accepted" /\ answers' = answers \cup {i})
    BY <1>2 DEF Ledger!Close
  <2>0. Entries[i] \in Ledger!Entry
    BY ElementOfSeq, LenProperties
  <2>2. [Entries[i] EXCEPT !.outcome = o] \in Ledger!Entry
    BY <2>0 DEF Ledger!Entry
  <2>3. Entries' \in Seq(Ledger!Entry) /\ DOMAIN Entries' = DOMAIN Entries
    BY <2>1, <2>2, ExceptSeq, LenProperties
  <2>4. \A j \in DOMAIN Entries : Entries'[j] =
          IF j = i THEN [Entries[i] EXCEPT !.outcome = o] ELSE Entries[j]
    BY <2>1
  <2>5. Entries'[i].outcome = o
    BY <2>0, <2>4 DEF Ledger!Entry
  <2> QED
    BY <2>1, <2>3, <2>4, <2>5
<1>3. CASE UNCHANGED <<Entries, answers>>
  BY <1>3
<1> QED
  BY <1>1, <1>2, <1>3 DEF Ledger!LedgerNext

\* A ledger is typed and its answers accepted in every state.
LEMMA LedgerInvariant == LedgerPromise => []LedgerInv
<1>1. Ledger!LedgerInit => LedgerInv
  BY EmptySeq DEF Ledger!LedgerInit, LedgerInv, Ledger!AnswersAccepted
<1> QED
  BY <1>1, NextLedger, PTL DEF LedgerPromise, Ledger!LedgerSpec

\* Captured answers belong to acceptances, for ever: neither a later outcome nor a
\* later batch takes the acceptance back, whatever the sessions go through.
THEOREM AnswersStayAccepted == Spec => []Ledger!AnswersAccepted
  BY SessionImplementsLedger, LedgerInvariant, PTL DEF LedgerInv

\* Rows are never removed, reassigned or given a second outcome.
THEOREM OutcomesStay == Spec => Ledger!FirstOutcomeWins
<1> DEFINE Kept == \A i \in DOMAIN Entries :
              /\ i \in DOMAIN Entries'
              /\ Entries'[i].q = Entries[i].q /\ Entries'[i].person = Entries[i].person
              /\ Entries[i].outcome # "open" => Entries'[i] = Entries[i]
<1>1. LedgerInv /\ [Ledger!LedgerNext]_<<Entries, answers>> => [Kept]_<<Entries, answers>>
  <2> SUFFICES ASSUME LedgerInv, Ledger!LedgerNext, NEW i \in DOMAIN Entries
               PROVE  /\ i \in DOMAIN Entries'
                      /\ Entries'[i].q = Entries[i].q /\ Entries'[i].person = Entries[i].person
                      /\ Entries[i].outcome # "open" => Entries'[i] = Entries[i]
    OBVIOUS
  <2>1. Entries[i] \in Ledger!Entry
    BY ElementOfSeq, LenProperties DEF LedgerInv
  <2>2. CASE Ledger!Offer
    BY <2>2, LenProperties DEF Ledger!Offer, LedgerInv
  <2>3. CASE Ledger!Close
    BY <2>1, <2>3 DEF Ledger!Close, Ledger!Entry
  <2> QED
    BY <2>2, <2>3 DEF Ledger!LedgerNext
<1>2. LedgerPromise => [][Kept]_<<Entries, answers>>
  BY <1>1, LedgerInvariant, PTL DEF LedgerPromise, Ledger!LedgerSpec
<1> QED
  BY <1>2, SessionImplementsLedger, PTL DEF Ledger!FirstOutcomeWins

-----------------------------------------------------------------------------
(* Answering from an outdated page *)

\* The generation token (#94): an outcome that closes a row closes the row that the
\* responder's page shows.
THEOREM StaleTabsRejected == Spec => StaleTabRejected
<1>1. SessionInv /\ [Next]_vars
        => [ (\E o \in {"accepted", "declined"} : SubmitOutcome(o)) =>
               \A i \in DOMAIN rows : Closes(i) => tab \in {0, i} ]_vars
  <2> SUFFICES ASSUME SessionInv, NEW o \in {"accepted", "declined"}, SubmitOutcome(o),
                      NEW i \in DOMAIN rows, Closes(i)
               PROVE  tab \in {0, i}
    OBVIOUS
  <2>1. TokenAccepted /\ (UNCHANGED rows \/ ClosesShown(o))
    BY AtHandoffKnown, Recorded DEF SubmitOutcome, SessionInv, Closings
  <2>2. ClosesShown(o) => i = ResolvedPrimary
    BY DEF ClosesShown, Closes
  <2>3. i # 0
    BY LenProperties DEF SessionInv, TypeOK
  <2> QED
    BY <2>1, <2>2, <2>3 DEF TokenAccepted, Closes
<1> QED
  BY <1>1, SessionInvariant, PTL DEF Spec, StaleTabRejected

-----------------------------------------------------------------------------
(* While nothing fails and no question is corrected, whoever drops *)

\* The person has a row in the question; has one that an outcome closed.
Listed(p) == \E i \in RowsOf(values.qid) : rows[i].person = p

ClosedFor(p) == \E i \in RowsOf(values.qid) : rows[i].person = p /\ rows[i].outcome # "open"

Covered == \A p \in Shown : Listed(p)

\* An outcome is queued, or taken and not yet consumed.
Taking(o) == pending.with = o \/ seg.resume = o

Taken == {"none", "accepted", "declined", "redraft"}

\* The lock, the queued input, the running segment and the graph fit together.
Paced ==
  /\ hold # "stream" => seg.upd = "none" /\ seg.resume = "none" /\ seg.route = "none"
  /\ seg.resume # "none" => seg.upd = "none" /\ node \in InterruptNodes
  /\ hold \in {"stream", "select", "refer"} => pending = Idle
  /\ hold \in {"select", "refer"} => node = "send"
  /\ pending.kind = "resume" => node \in InterruptNodes
  /\ pending.kind # "resume" => pending.with = "none"
  /\ node = "send" => pending.with \in Taken /\ seg.resume \in Taken

\* Where the graph is while the update of a node is handled.
Placed ==
  /\ seg.upd = "c6_score" =>
       /\ node \in {"document", "no_candidate", "answerability", "c7_draft"}
       /\ node = "c7_draft" => ~CriticWired
       /\ values.route = "document" => node = "document"
  /\ seg.upd = "answerability" => node \in {"c7_draft", "no_expert"}
  /\ seg.upd = "c7_draft" => node = "send"
  /\ seg.route = "document" => values.route = "document"

BeforeC5 == {"c1_intent", "ask", "c2_sufficiency", "c3_embed", "knowledge_answer",
             "c4_retrieve", "c5_route"}

BeforeC6 == BeforeC5 \cup {"self_answer", "additive_answer", "prior_answer"}

\* A question starts without rows, and the document route closes none.
Started ==
  /\ \A i \in DOMAIN rows : rows[i].q \in 1..Len(quest)
  /\ pending.kind = "fresh" => RowsOf(pending.q) = {}
  /\ node \in BeforeC6 => RowsOf(values.qid) = {} /\ values.declined = {}
  /\ node \in BeforeC5 => values.route = "person"
  /\ values.route = "document" =>
       /\ values.declined = {} /\ \A p : ~ClosedFor(p)
       /\ RowsOf(values.qid) = {} \/ (Covered /\ node \in {"document", Finished})

\* Whoever is handed to has a row, but for the fallback until its draft is handled.
Unshown == values.fallbackReq /\ RowsOf(values.qid) = {}

HandedCovered ==
  /\ node = "send" /\ seg.upd # "c7_draft" => Covered
  /\ node = "send" /\ seg.upd = "c7_draft" => Covered \/ Unshown
  /\ node = "c7_draft" /\ seg.upd \notin {"c6_score", "answerability"} => Covered \/ Unshown

\* Between an outcome on the row and the graph's step with it, and ever after.
Declining == node = "reroute" \/ hold = "refer" \/ (node = "send" /\ Taking("declined"))

Closing ==
  \/ Declining
  \/ node \in {"c8_update", Finished} \/ (node = "send" /\ Taking("accepted"))

\* Nobody who is still shown has been answered for, but the head whose outcome is
\* under way.
OthersOpen ==
  \A p : ClosedFor(p) =>
    p \in values.declined \/ (Closing /\ values.recs # <<>> /\ p = Head(values.recs))

DeclinesTraced ==
  /\ \A p \in values.declined : ClosedFor(p)
  /\ Declining => values.recs # <<>> /\ ClosedFor(Head(values.recs))

AcceptedEnds ==
  /\ Accepted(values.qid) # {} =>
       /\ hold # "fallback"
       /\ node \in {"c8_update", Finished} \/ (node = "send" /\ Taking("accepted"))
  /\ \A q \in DOMAIN quest : Accepted(q) # {} =>
       quest[q].resolved /\ \E i \in Accepted(q) : Accepted(q) = {i}

CalmInv ==
  /\ Paced /\ Placed /\ Started /\ HandedCovered /\ OthersOpen /\ DeclinesTraced
  /\ AcceptedEnds

\* What the invariant sees of the rows stays.
RowsQuiet ==
  /\ values'.qid = values.qid
  /\ \A p : (Listed(p)' <=> Listed(p)) /\ (ClosedFor(p)' <=> ClosedFor(p))
  /\ \A q : RowsOf(q)' = RowsOf(q) /\ Accepted(q)' = Accepted(q)

\* The ledger's view of the rows determines it.
LEMMA SameEntries ==
  ASSUME UNCHANGED Entries, values'.qid = values.qid
  PROVE  /\ RowsQuiet /\ DOMAIN rows' = DOMAIN rows
         /\ \A i \in DOMAIN rows : rows'[i].q = rows[i].q
<1>1. DOMAIN rows' = DOMAIN rows
  BY DEF Entries
<1>2. \A i \in DOMAIN rows : /\ Entries[i].q = rows[i].q /\ Entries[i].person = rows[i].person
                             /\ Entries[i].outcome = rows[i].outcome
  BY DEF Entries
<1>3. \A i \in DOMAIN rows' : /\ Entries'[i].q = rows'[i].q
                              /\ Entries'[i].person = rows'[i].person
                              /\ Entries'[i].outcome = rows'[i].outcome
  BY DEF Entries
<1>4. \A i \in DOMAIN rows : /\ rows'[i].q = rows[i].q /\ rows'[i].person = rows[i].person
                             /\ rows'[i].outcome = rows[i].outcome
  BY <1>1, <1>2, <1>3
<1>5. \A q : RowsOf(q)' = RowsOf(q)
  BY <1>1, <1>4 DEF RowsOf
<1>6. \A q : \A i \in RowsOf(q) : i \in DOMAIN rows
  BY DEF RowsOf
<1>7. \A q : Accepted(q)' = Accepted(q)
  BY <1>4, <1>5, <1>6 DEF Accepted
<1>8. \A p : (Listed(p)' <=> Listed(p)) /\ (ClosedFor(p)' <=> ClosedFor(p))
  BY <1>4, <1>5, <1>6 DEF Listed, ClosedFor
<1> QED
  BY <1>1, <1>4, <1>5, <1>7, <1>8 DEF RowsQuiet

\* Questions keep their resolution, or no row of theirs was accepted.
ResolutionsKept ==
  \A q \in DOMAIN quest' :
    \/ q \in DOMAIN quest /\ (quest[q].resolved => quest'[q].resolved)
    \/ Accepted(q) = {}

\* A step that moves neither the graph, what it shows nor an outcome.
LEMMA CalmKept ==
  ASSUME CalmInv, UNCHANGED Entries, Paced', Placed', HandedCovered',
         Len(quest) \in Nat, Len(quest') \in Nat, Len(quest') >= Len(quest),
         node' = node, values'.qid = values.qid, values'.route = values.route, values'.declined = values.declined,
         Shown' = Shown, values'.recs = values.recs \/ ~Closing,
         pending' = pending \/ pending'.kind # "fresh" \/ RowsOf(pending'.q) = {},
         Closing => Closing', Declining' => Declining,
         Taking("accepted") => Taking("accepted")',
         hold' = "fallback" => hold = "fallback",
         ResolutionsKept
  PROVE  CalmInv'
<1>0. RowsQuiet /\ DOMAIN rows' = DOMAIN rows /\ \A i \in DOMAIN rows : rows'[i].q = rows[i].q
  BY SameEntries
<1> USE <1>0 DEF RowsQuiet
<1>1. Covered' <=> Covered
  BY DEF Covered
<1>2. Started'
  <2>1. \A i \in DOMAIN rows' : rows'[i].q \in 1..Len(quest')
    BY DEF CalmInv, Started
  <2> QED
    BY <1>1, <2>1 DEF CalmInv, Started
<1>3. OthersOpen'
  BY DEF CalmInv, OthersOpen
<1>4. DeclinesTraced'
  BY DEF CalmInv, DeclinesTraced, Closing
<1>5. AcceptedEnds'
  BY DEF CalmInv, AcceptedEnds, ResolutionsKept
<1> QED
  BY <1>2, <1>3, <1>4, <1>5 DEF CalmInv

-----------------------------------------------------------------------------
(* The calm invariant under the HTTP handlers *)

\* Whoever is shown first and has a row is resolved to one of them.
LEMMA HeadResolved ==
  ASSUME TypeOK, IdsKnown, values.recs # <<>>, Listed(Head(values.recs))
  PROVE  ResolvedPrimary \in RowsOf(values.qid) /\ ResolvedPrimary # 0
<1> DEFINE mine == {i \in RowsOf(values.qid) : rows[i].person = Head(values.recs)}
<1>1. rows \in Seq(Row) /\ mine # {}
  BY DEF TypeOK, Listed
<1>2. RowsOf(values.qid) \subseteq 1..Len(rows) /\ Len(rows) \in Nat /\ DOMAIN rows = 1..Len(rows)
  BY <1>1, RowsOfQuestion
<1>3. CASE values.primary \in DOMAIN rows /\ rows[values.primary].person = Head(values.recs)
  BY <1>2, <1>3 DEF ResolvedPrimary, IdsKnown
<1>4. CASE ~(values.primary \in DOMAIN rows /\ rows[values.primary].person = Head(values.recs))
  <2>1. ResolvedPrimary = Newest(mine)
    BY <1>4 DEF ResolvedPrimary
  <2>2. Newest(mine) \in mine
    BY <1>1, <1>2, NewestIsOne
  <2> QED
    BY <1>2, <2>1, <2>2
<1> QED
  BY <1>3, <1>4

\* At a hand-off that nobody has answered yet, nothing is closing.
LEMMA NothingClosing ==
  ASSUME SessionInv, CalmInv, AtHandoff
  PROVE  /\ ~Closing /\ Covered /\ pending.with = "none" /\ seg.resume = "none"
         /\ seg.upd = "none" /\ Accepted(values.qid) = {}
BY DEF CalmInv, Paced, HandedCovered, AcceptedEnds, AtHandoff, Closing, Declining, Taking,
   Idle, Finished

\* An outcome submitted at a hand-off closes the open row of the person shown.
LEMMA OutcomeCloses ==
  ASSUME SessionInv, CalmInv, AtHandoff, NEW o \in Closings, RecordOutcome(o)
  PROVE  Unanswered /\ Effective(o) = o /\ ClosesShown(o)
<1>1. /\ values.recs # <<>> /\ values.recs \in Seq(People) /\ values.qid \in 1..Len(quest)
      /\ TypeOK /\ IdsKnown
  BY AtHandoffKnown DEF SessionInv
<1>2. Head(values.recs) \in Shown
  BY <1>1, TailForgetsHead DEF Shown
<1>3. ResolvedPrimary \in RowsOf(values.qid) /\ ResolvedPrimary # 0
  BY <1>1, <1>2, NothingClosing, HeadResolved DEF Covered
<1>4. rows[ResolvedPrimary].person = Head(values.recs)
  BY <1>1, <1>3, ResolvedKnown
<1>5. ~ClosedFor(Head(values.recs))
  BY <1>2, NothingClosing
  DEF CalmInv, OthersOpen, SessionInv, GraphSafe, ShownNotDeclined
<1>6. rows[ResolvedPrimary].outcome = "open"
  BY <1>3, <1>4, <1>5 DEF ClosedFor
<1>7. Unanswered
  BY <1>3, <1>6 DEF Unanswered
<1> QED
  BY <1>1, <1>7, Recorded DEF Effective

\* Closing a row, as the invariant sees it.
LEMMA ClosingSeen ==
  ASSUME rows \in Seq(Row), NEW o \in Closings, ClosesShown(o), values'.qid = values.qid
  PROVE  /\ DOMAIN rows' = DOMAIN rows /\ \A i \in DOMAIN rows : rows'[i].q = rows[i].q
         /\ \A q : RowsOf(q)' = RowsOf(q)
         /\ \A p : Listed(p)' <=> Listed(p)
         /\ \A p : ClosedFor(p)' <=> ClosedFor(p) \/ p = Head(values.recs)
         /\ \A q : q # values.qid \/ o # "accepted" => Accepted(q)' = Accepted(q)
         /\ o = "accepted" => Accepted(values.qid)' = Accepted(values.qid) \cup {ResolvedPrimary}
<1> DEFINE r == ResolvedPrimary
<1>1. /\ r \in RowsOf(values.qid) /\ r \in DOMAIN rows /\ rows[r].q = values.qid
      /\ rows[r].person = Head(values.recs) /\ rows[r].outcome = "open"
      /\ rows' = [rows EXCEPT ![r].outcome = o]
  BY DEF ClosesShown, RowsOf
<1> HIDE DEF r
<1>2. /\ rows' \in Seq(Row) /\ Len(rows') = Len(rows)
      /\ \A i \in DOMAIN rows : rows'[i] = IF i = r THEN [rows[r] EXCEPT !.outcome = o] ELSE rows[i]
      /\ \A q : RowsOf(q)' = RowsOf(q)
  BY <1>1, CloseRow
<1>3. DOMAIN rows' = DOMAIN rows /\ \A i \in DOMAIN rows : rows[i] \in Row
  BY <1>2, LenProperties, ElementOfSeq
<1>4. \A i \in DOMAIN rows :
        /\ rows'[i].q = rows[i].q /\ rows'[i].person = rows[i].person
        /\ rows'[i].outcome = IF i = r THEN o ELSE rows[i].outcome
  BY <1>1, <1>2, <1>3 DEF Row
<1>5. \A q : \A i \in RowsOf(q) : i \in DOMAIN rows /\ rows[i].q = q
  BY DEF RowsOf
<1>6. o # "open"
  BY DEF Closings
<1>7. \A p : Listed(p)' <=> Listed(p)
  BY <1>2, <1>4, <1>5 DEF Listed
<1>8. \A p : ClosedFor(p)' <=> ClosedFor(p) \/ p = Head(values.recs)
  BY <1>1, <1>2, <1>4, <1>5, <1>6 DEF ClosedFor
<1>9. \A q : q # values.qid \/ o # "accepted" => Accepted(q)' = Accepted(q)
  BY <1>1, <1>2, <1>4, <1>5 DEF Accepted
<1>10. o = "accepted" => Accepted(values.qid)' = Accepted(values.qid) \cup {r}
  BY <1>1, <1>2, <1>4, <1>5 DEF Accepted
<1> QED
  BY <1>2, <1>3, <1>4, <1>7, <1>8, <1>9, <1>10 DEF r

\* Recording what a responder did keeps the invariant, with the decline or the
\* acceptance it queues, or the referral it is in the middle of.
LEMMA OutcomeCalm ==
  ASSUME SessionInv, CalmInv, AtHandoff, NEW o \in Closings, RecordOutcome(o),
         UNCHANGED graphVars, seg'.upd = seg.upd, seg'.resume = seg.resume, seg'.route = seg.route,
         \/ o = "accepted" /\ pending' = ResumeWith("accepted") /\ hold' = "free"
         \/ o # "accepted" /\ pending' = ResumeWith("declined") /\ hold' = "free"
         \/ o # "accepted" /\ pending' = pending /\ hold' = "refer"
  PROVE  CalmInv'
<1>1. Unanswered /\ ClosesShown(o) /\ TypeOK /\ rows \in Seq(Row) /\ quest \in Seq(Question)
  BY OutcomeCloses DEF SessionInv, TypeOK
<1>2. /\ values' = values /\ node' = node /\ node = "send" /\ hold = "free" /\ pending = Idle
      /\ values.recs # <<>> /\ values.qid \in 1..Len(quest)
  BY AtHandoffKnown DEF graphVars, AtHandoff
<1>3. /\ DOMAIN rows' = DOMAIN rows /\ \A i \in DOMAIN rows : rows'[i].q = rows[i].q
      /\ \A q : RowsOf(q)' = RowsOf(q)
      /\ \A p : Listed(p)' <=> Listed(p)
      /\ \A p : ClosedFor(p)' <=> ClosedFor(p) \/ p = Head(values.recs)
      /\ \A q : q # values.qid \/ o # "accepted" => Accepted(q)' = Accepted(q)
      /\ o = "accepted" => Accepted(values.qid)' = Accepted(values.qid) \cup {ResolvedPrimary}
  BY <1>1, <1>2, ClosingSeen
<1>4. /\ Len(quest') = Len(quest) /\ DOMAIN quest' = DOMAIN quest
      /\ \A q \in DOMAIN quest : quest[q].resolved => quest'[q].resolved
      /\ o = "accepted" => quest'[values.qid].resolved
  <2>1. quest' \in Seq(Question) /\ Len(quest') = Len(quest)
    BY <1>2, AtHandoffKnown, Recorded DEF SessionInv
  <2>2. DOMAIN quest' = DOMAIN quest /\ DOMAIN quest = 1..Len(quest)
    BY <1>1, <2>1, LenProperties
  <2>3. quest' = IF o = "accepted"
                   THEN [quest EXCEPT ![values.qid].resolved = TRUE] ELSE quest
    BY <1>1 DEF RecordOutcome
  <2>4. \A q \in DOMAIN quest : quest[q] \in Question
    BY <1>1, ElementOfSeq, LenProperties
  <2> QED
    BY <1>2, <2>1, <2>2, <2>3, <2>4 DEF Question
<1>5. ~Closing /\ Covered /\ seg.resume = "none" /\ seg.upd = "none" /\ Accepted(values.qid) = {}
  BY NothingClosing
<1>6. Closing' /\ (o # "accepted" => Declining') /\ (o = "accepted" => ~Declining')
  BY <1>2, <1>5 DEF Closing, Declining, Taking, ResumeWith, Idle
<1>7. Covered'
  BY <1>2, <1>3, <1>5 DEF Covered, Shown
<1>8. Paced' /\ Placed'
  BY <1>2, <1>5 DEF CalmInv, Paced, Placed, ResumeWith, Idle, Taken, InterruptNodes
<1>9. Started'
  <2>1. values.route # "document" /\ node \notin BeforeC6 /\ pending'.kind # "fresh"
    BY <1>2 DEF SessionInv, GraphSafe, DocumentNeverWaits, BeforeC6, BeforeC5, ResumeWith, Idle
  <2>2. \A i \in DOMAIN rows' : rows'[i].q \in 1..Len(quest')
    BY <1>3, <1>4 DEF CalmInv, Started
  <2> QED
    BY <1>2, <2>1, <2>2 DEF Started, BeforeC6
<1>10. HandedCovered'
  BY <1>2, <1>7 DEF HandedCovered
<1>11. OthersOpen'
  BY <1>2, <1>3, <1>5, <1>6 DEF CalmInv, OthersOpen
<1>12. DeclinesTraced'
  BY <1>2, <1>3, <1>6 DEF CalmInv, DeclinesTraced
<1>13. AcceptedEnds'
  <2>1. CASE o # "accepted"
    BY <1>2, <1>3, <1>4, <1>5, <2>1 DEF CalmInv, AcceptedEnds
  <2>2. CASE o = "accepted"
    <3>1. Accepted(values.qid)' = {ResolvedPrimary}
      BY <1>3, <1>5, <2>2
    <3>2. hold' = "free" /\ Taking("accepted")'
      BY <2>2 DEF Taking, ResumeWith
    <3> QED
      BY <1>2, <1>3, <1>4, <2>2, <3>1, <3>2 DEF CalmInv, AcceptedEnds
  <2> QED
    BY <2>1, <2>2
<1> QED
  BY <1>8, <1>9, <1>10, <1>11, <1>12, <1>13 DEF CalmInv

\* Turning a finished document answer into a hand-off.
LEMMA FallbackCalm == ASSUME SessionInv, CalmInv, RequestFallback PROVE CalmInv'
<1>1. /\ hold = "free" /\ hold' = "fallback" /\ node = Finished /\ values.route = "document"
      /\ node' \in {"answerability", "c7_draft"} /\ UNCHANGED <<rows, quest, pending, seg>>
      /\ values \in AgentState /\ values.recs # <<>>
  BY DEF RequestFallback, Reopen, FallbackOffered, AfterC6, HandoffTarget, Goto, sqlVars,
     SessionInv, TypeOK, GraphTypeOK
<1>2. /\ values'.route = "person" /\ values'.fallbackReq = TRUE /\ values'.recs = values.recs
      /\ values'.declined = values.declined /\ values'.qid = values.qid
  BY <1>1 DEF RequestFallback, Reopen, AgentState
<1>3. RowsQuiet
  BY <1>1, <1>2, SameEntries DEF Entries
<1>4. /\ values.declined = {} /\ \A p : ~ClosedFor(p)
      /\ RowsOf(values.qid) = {} \/ Covered
  BY <1>1 DEF CalmInv, Started
<1>5. Accepted(values.qid) = {}
  <2>1. \A i \in Accepted(values.qid) : ClosedFor(rows[i].person)
    BY DEF Accepted, ClosedFor
  <2> QED
    BY <1>4, <2>1
<1>6. pending.with = "none" /\ seg.upd = "none" /\ seg.resume = "none"
  BY <1>1 DEF CalmInv, Paced, InterruptNodes, Finished
<1>7. Covered' <=> Covered
  BY <1>2, <1>3 DEF Covered, Shown, RowsQuiet
<1>8. Paced' /\ Placed'
  BY <1>1, <1>2, <1>6 DEF CalmInv, Paced, Placed, InterruptNodes, Finished
<1>9. Started'
  BY <1>1, <1>2, <1>3 DEF CalmInv, Started, RowsQuiet, BeforeC6, BeforeC5
<1>10. HandedCovered'
  BY <1>1, <1>2, <1>3, <1>4, <1>6, <1>7 DEF HandedCovered, Unshown, RowsQuiet
<1>11. OthersOpen'
  BY <1>3, <1>4 DEF OthersOpen, RowsQuiet
<1>12. DeclinesTraced'
  BY <1>1, <1>2, <1>4 DEF DeclinesTraced, Declining
<1>13. AcceptedEnds'
  BY <1>1, <1>2, <1>3, <1>5 DEF CalmInv, AcceptedEnds, RowsQuiet
<1> QED
  BY <1>8, <1>9, <1>10, <1>11, <1>12, <1>13 DEF CalmInv

\* Every HTTP handler but a correction keeps the invariant.
LEMMA HandlersCalm ==
  ASSUME SessionInv, CalmInv, MaxCorrections = 0, Handlers
  PROVE  CalmInv'
<1>0. /\ Len(quest) \in Nat /\ quest \in Seq(Question) /\ DOMAIN quest = 1..Len(quest)
      /\ values \in AgentState
  BY LenProperties DEF SessionInv, TypeOK, GraphTypeOK
<1>1. UNCHANGED rows => UNCHANGED Entries
  BY DEF Entries
<1>2. UNCHANGED quest => ResolutionsKept /\ Len(quest') = Len(quest)
  BY DEF ResolutionsKept
<1>3. UNCHANGED graphVars => /\ node' = node /\ values' = values /\ Shown' = Shown
                             /\ (UNCHANGED <<rows, seg>> => (HandedCovered' <=> HandedCovered))
  BY DEF graphVars, Shown, HandedCovered, Covered, Listed, Unshown, RowsOf
<1> USE <1>0
<1>4. CASE StartQuestion
  <2>1. /\ quest' = Append(quest, [route |-> "none", resolved |-> FALSE, self |-> FALSE])
        /\ pending = Idle /\ pending' = FreshRun(Len(quest) + 1) /\ hold = "free" /\ node = Finished
        /\ UNCHANGED <<graphVars, rows, hold, seg>>
    BY <1>4 DEF StartQuestion
  <2>2. /\ Len(quest') = Len(quest) + 1 /\ DOMAIN quest' = 1..(Len(quest) + 1)
        /\ \A q \in DOMAIN quest : quest'[q] = quest[q]
    <3>1. [route |-> "none", resolved |-> FALSE, self |-> FALSE] \in Question
      BY DEF Question
    <3>2. /\ quest' \in Seq(Question) /\ Len(quest') = Len(quest) + 1
          /\ \A q \in 1..Len(quest) : quest'[q] = quest[q]
      BY <2>1, <3>1, AppendProperties
    <3> QED
      BY <3>2, LenProperties
  <2>3. RowsOf(Len(quest) + 1) = {}
    BY DEF CalmInv, Started, RowsOf
  <2>4. ResolutionsKept
    BY <2>2, <2>3 DEF ResolutionsKept, Accepted
  <2>5. Paced' /\ Placed' /\ HandedCovered'
    BY <1>3, <2>1 DEF CalmInv, Paced, Placed, HandedCovered, FreshRun, Idle, graphVars
  <2>6. /\ Closing => Closing'
        /\ Declining' => Declining
        /\ Taking("accepted") => Taking("accepted")'
    BY <1>3, <2>1 DEF Closing, Declining, Taking, FreshRun, Idle
  <2>7. RowsOf(pending'.q) = {}
    BY <2>1, <2>3 DEF FreshRun
  <2> QED
    BY <1>1, <1>3, <2>1, <2>2, <2>4, <2>5, <2>6, <2>7, CalmKept
<1>5. CASE SubmitReply
  <2>1. Paced' /\ Placed'
    BY <1>3, <1>5 DEF SubmitReply, CalmInv, Paced, Placed, ResumeWith, InterruptNodes
  <2>2. /\ Closing => Closing'
        /\ Declining' => Declining
        /\ Taking("accepted") => Taking("accepted")'
        /\ pending'.kind # "fresh"
    BY <1>3, <1>5 DEF SubmitReply, Closing, Declining, Taking, ResumeWith, Idle
  <2> QED
    BY <1>1, <1>2, <1>3, <1>5, <2>1, <2>2, CalmKept DEF SubmitReply, sqlVars, CalmInv
<1>6. CASE LoadHandoff
  <2>1. Paced' /\ Placed' /\ (Closing' <=> Closing) /\ (Declining' <=> Declining)
        /\ (Taking("accepted")' <=> Taking("accepted"))
    BY <1>3, <1>6 DEF LoadHandoff, CalmInv, Paced, Placed, Closing, Declining, Taking
  <2> QED
    BY <1>1, <1>2, <1>3, <1>6, <2>1, CalmKept DEF LoadHandoff, sqlVars, CalmInv
<1>7. ASSUME NEW o \in {"accepted", "declined"}, SubmitOutcome(o) PROVE CalmInv'
  <2>1. AtHandoff /\ RecordOutcome(o) /\ o \in Closings
    BY <1>7 DEF SubmitOutcome, Closings
  <2>2. pending' = ResumeWith(o)
    BY <1>7, <2>1, OutcomeCloses DEF SubmitOutcome
  <2>3. hold' = "free" /\ seg' = seg /\ UNCHANGED graphVars
    BY <1>7 DEF SubmitOutcome, AtHandoff
  <2> QED
    BY <2>1, <2>2, <2>3, OutcomeCalm
<1>8. CASE Exclude
  BY <1>8, OutcomeCalm DEF Exclude, Closings, AtHandoff
<1>9. CASE Redraft
  <2>1. Paced' /\ Placed'
    BY <1>3, <1>9 DEF Redraft, AtHandoff, CalmInv, Paced, Placed, ResumeWith, InterruptNodes, Taken
  <2>2. /\ Closing => Closing'
        /\ Declining' => Declining
        /\ Taking("accepted") => Taking("accepted")'
        /\ pending'.kind # "fresh"
    BY <1>3, <1>9 DEF Redraft, AtHandoff, Closing, Declining, Taking, ResumeWith, Idle
  <2> QED
    BY <1>1, <1>2, <1>3, <1>9, <2>1, <2>2, CalmKept DEF Redraft, sqlVars, CalmInv
<1>10. ASSUME NEW p \in People, Refer(p) PROVE CalmInv'
  <2>1. /\ AtHandoff /\ RecordOutcome("referred") /\ hold' = "refer" /\ UNCHANGED graphVars
        /\ pending' = pending /\ seg' = [seg EXCEPT !.referee = p] /\ seg \in Segment
    BY <1>10 DEF Refer, SessionInv, TypeOK
  <2>2. seg'.upd = seg.upd /\ seg'.resume = seg.resume /\ seg'.route = seg.route
    BY <2>1 DEF Segment
  <2> QED
    BY <2>1, <2>2, OutcomeCalm DEF Closings
<1>11. ASSUME NEW i \in DOMAIN values.recs, Select(i) PROVE CalmInv'
  <2>1. AtHandoff /\ hold' = "select" /\ UNCHANGED <<rows, quest, pending, seg>> /\ node' = node
    BY <1>11 DEF Select, Reselect, sqlVars
  <2>2. /\ values'.recs = MoveToFront(values.recs, i) /\ values'.qid = values.qid
        /\ values'.route = values.route /\ values'.declined = values.declined
        /\ values'.fallbackReq = values.fallbackReq
    BY <1>11 DEF Select, Reselect, AgentState
  <2>3. Shown' = Shown
    BY <2>2, MoveToFrontShowsTheSame DEF Shown, AgentState
  <2>4. /\ ~Closing /\ Covered /\ pending.with = "none" /\ seg.resume = "none"
        /\ seg.upd = "none" /\ node = "send" /\ hold = "free" /\ pending = Idle
    BY <2>1, NothingClosing DEF AtHandoff
  <2>5. Covered'
    BY <2>1, <2>2, <2>3, <2>4 DEF Covered, Listed, RowsOf
  <2>6. Paced' /\ Placed' /\ HandedCovered'
    BY <2>1, <2>2, <2>4, <2>5 DEF CalmInv, Paced, Placed, HandedCovered
  <2>7. ~Declining' /\ ~Taking("accepted")
    BY <2>1, <2>4 DEF Declining, Taking
  <2> QED
    BY <1>1, <1>2, <2>1, <2>2, <2>3, <2>4, <2>6, <2>7, CalmKept
<1>12. ~Correct
  BY DEF Correct, SessionInv, TypeOK
<1> QED
  BY <1>4, <1>5, <1>6, <1>7, <1>8, <1>9, <1>10, <1>11, <1>12, FallbackCalm DEF Handlers

\* So do the second steps of refer, select and fallback.
LEMMA SecondStepsCalm == ASSUME SessionInv, CalmInv, SecondStep PROVE CalmInv'
<1>0. /\ Len(quest) \in Nat /\ quest \in Seq(Question) /\ DOMAIN quest = 1..Len(quest)
      /\ values \in AgentState /\ rows \in Seq(Row)
  BY LenProperties DEF SessionInv, TypeOK, GraphTypeOK
<1>1. UNCHANGED rows => UNCHANGED Entries
  BY DEF Entries
<1>2. UNCHANGED quest => ResolutionsKept /\ Len(quest') = Len(quest)
  BY DEF ResolutionsKept
<1> USE <1>0
<1>3. CASE ReferSeat
  <2>1. /\ hold = "refer" /\ hold' = "free" /\ pending' = ResumeWith("declined")
        /\ seg' = NoSegment /\ node' = node /\ UNCHANGED <<rows, quest>>
    BY <1>3 DEF ReferSeat, SeatReferral, sqlVars
  <2>2. /\ values'.recs = values.recs /\ values'.qid = values.qid
        /\ values'.route = values.route /\ values'.declined = values.declined
        /\ values'.fallbackReq = values.fallbackReq /\ Shown' = Shown
    BY <1>3 DEF ReferSeat, SeatReferral, AgentState, Shown
  <2>3. node = "send" /\ pending = Idle /\ seg.upd = "none" /\ seg.resume = "none"
    BY <2>1 DEF CalmInv, Paced
  <2>4. Covered'
    BY <2>1, <2>2, <2>3 DEF CalmInv, HandedCovered, Covered, Listed, RowsOf
  <2>5. Paced' /\ Placed' /\ HandedCovered'
    BY <2>1, <2>2, <2>3, <2>4
    DEF Paced, Placed, HandedCovered, NoSegment, ResumeWith, InterruptNodes, Taken
  <2>6. Closing' /\ Declining /\ ~Taking("accepted")
    BY <2>1, <2>3 DEF Closing, Declining, Taking, ResumeWith, Idle
  <2> QED
    BY <1>1, <1>2, <2>1, <2>2, <2>5, <2>6, CalmKept DEF ResumeWith
<1>4. CASE SelectRanks
  <2>1. UNCHANGED Entries /\ UNCHANGED <<graphVars, quest, pending, seg>>
        /\ hold = "select" /\ hold' = "free"
    <3>1. DOMAIN rows' = DOMAIN rows
      BY <1>4 DEF SelectRanks
    <3>2. \A i \in DOMAIN rows : rows[i] \in Row
      BY LenProperties, ElementOfSeq
    <3>3. \A i \in DOMAIN rows : /\ rows'[i].q = rows[i].q
                                 /\ rows'[i].person = rows[i].person
                                 /\ rows'[i].outcome = rows[i].outcome
      BY <1>4, <3>2 DEF SelectRanks, Row
    <3> QED
      BY <1>4, <3>1, <3>3 DEF SelectRanks, Entries
  <2>2. /\ values' = values /\ node' = node /\ Shown' = Shown
        /\ node = "send" /\ pending = Idle /\ seg.upd = "none" /\ seg.resume = "none"
        /\ seg.route = "none"
    BY <2>1 DEF CalmInv, Paced, graphVars, Shown
  <2>3. Covered'
    BY <2>1, <2>2, SameEntries DEF CalmInv, HandedCovered, Covered, RowsQuiet
  <2>4. Paced' /\ Placed' /\ HandedCovered'
    BY <2>1, <2>2, <2>3 DEF CalmInv, Paced, Placed, HandedCovered, Idle
  <2>5. ~Closing /\ ~Declining' /\ ~Taking("accepted")
    BY <2>1, <2>2 DEF Closing, Declining, Taking, Idle, Finished
  <2> QED
    BY <1>2, <2>1, <2>2, <2>4, <2>5, CalmKept
<1>5. CASE FallbackReopensQuestion
  <2>1. /\ hold = "fallback" /\ hold' = "free" /\ UNCHANGED <<graphVars, rows, pending, seg>>
        /\ quest' = [quest EXCEPT ![values.qid] =
                       [route |-> "person", resolved |-> FALSE, self |-> FALSE]]
    BY <1>5 DEF FallbackReopensQuestion
  <2>2. /\ values' = values /\ node' = node /\ Shown' = Shown
        /\ (HandedCovered' <=> HandedCovered)
    BY <2>1 DEF graphVars, Shown, HandedCovered, Covered, Listed, Unshown, RowsOf
  <2>3. DOMAIN quest' = DOMAIN quest /\ Len(quest') = Len(quest)
        /\ \A q \in DOMAIN quest : q # values.qid => quest'[q] = quest[q]
    <3>1. [route |-> "person", resolved |-> FALSE, self |-> FALSE] \in Question
      BY DEF Question, Routes
    <3>2. values.qid \in 1..Len(quest)
      BY <2>1 DEF SessionInv, Numbered
    <3> QED
      BY <2>1, <3>1, <3>2, QuestionSet, LenProperties
  <2>4. ResolutionsKept
    BY <2>1, <2>3 DEF ResolutionsKept, CalmInv, AcceptedEnds
  <2>5. Paced' /\ Placed'
    BY <2>1, <2>2 DEF CalmInv, Paced, Placed
  <2>6. (Closing' <=> Closing) /\ (Declining' <=> Declining)
        /\ (Taking("accepted")' <=> Taking("accepted"))
    BY <2>1, <2>2 DEF Closing, Declining, Taking
  <2> QED
    BY <1>1, <2>1, <2>2, <2>3, <2>4, <2>5, <2>6, CalmKept DEF CalmInv
<1> QED
  BY <1>3, <1>4, <1>5 DEF SecondStep

-----------------------------------------------------------------------------
(* The calm invariant under streamed segments *)

\* Taking up the queued input, or a parked run.
LEMMA BeginCalm == ASSUME SessionInv, CalmInv, Begin PROVE CalmInv'
<1>0. /\ Len(quest) \in Nat /\ hold = "free" /\ hold' = "stream" /\ pending' = Idle
      /\ UNCHANGED <<rows, quest>> /\ seg.upd = "none" /\ seg.resume = "none"
      /\ pending \in Pending
  BY LenProperties
  DEF Begin, BeginFresh, BeginResume, BeginParked, sqlVars, SessionInv, TypeOK, CalmInv, Paced
<1>1. UNCHANGED Entries /\ ResolutionsKept
  BY <1>0 DEF Entries, ResolutionsKept
<1>2. CASE BeginFresh
  <2>1. /\ pending.kind = "fresh" /\ pending.with = "none" /\ seg' = NoSegment
        /\ values'.qid = pending.q /\ values'.recs = <<>> /\ values'.declined = {}
        /\ values'.route = "person" /\ node' = "c1_intent"
    BY <1>2 DEF BeginFresh, Invoke, ResetValues, Unwritten, Goto, CalmInv, Paced
  <2>2. RowsOf(values'.qid) = {}
    BY <2>1 DEF CalmInv, Started
  <2>3. (\A p : ~ClosedFor(p)') /\ RowsOf(values.qid)' = {} /\ Accepted(values.qid)' = {}
    BY <1>0, <2>2 DEF ClosedFor, RowsOf, Accepted
  <2>4. Paced' /\ Placed'
    BY <1>0, <2>1 DEF Paced, Placed, NoSegment, Idle
  <2>5. Started'
    BY <1>0, <2>1, <2>3 DEF CalmInv, Started, Idle
  <2>6. HandedCovered' /\ OthersOpen' /\ DeclinesTraced'
    BY <1>0, <2>1, <2>3 DEF HandedCovered, OthersOpen, DeclinesTraced, Declining
  <2>7. AcceptedEnds'
    <3>1. \A q : Accepted(q)' = Accepted(q)
      BY <1>0 DEF Accepted, RowsOf
    <3> QED
      BY <1>0, <2>3, <3>1 DEF CalmInv, AcceptedEnds
  <2> QED
    BY <2>4, <2>5, <2>6, <2>7 DEF CalmInv
<1>3. CASE BeginResume \/ BeginParked
  <2>1. /\ values' = values /\ node' = node /\ Shown' = Shown
        /\ seg'.upd = "none" /\ seg'.route = "none" /\ seg'.resume = pending.with
        /\ seg'.resume # "none" => pending.kind = "resume"
    BY <1>3 DEF BeginResume, BeginParked, NoSegment, graphVars, Shown, Idle, CalmInv, Paced
  <2>2. Paced' /\ Placed'
    BY <1>0, <2>1 DEF CalmInv, Paced, Placed, Idle, Taken
  <2>3. HandedCovered'
    BY <1>0, <2>1 DEF CalmInv, HandedCovered, Covered, Unshown, Listed, RowsOf
  <2>4. /\ Closing => Closing'
        /\ Declining' => Declining
        /\ Taking("accepted") => Taking("accepted")'
    BY <1>0, <2>1 DEF Closing, Declining, Taking, Idle
  <2> QED
    BY <1>0, <1>1, <2>1, <2>2, <2>3, <2>4, CalmKept DEF Idle
<1> QED
  BY <1>2, <1>3 DEF Begin

\* The graph has come to rest, and what the segment did is written back.
LEMMA EndCalm == ASSUME SessionInv, CalmInv, EndSegment PROVE CalmInv'
<1>1. /\ hold = "stream" /\ hold' = "free" /\ seg' = NoSegment /\ pending' = pending
      /\ UNCHANGED <<rows, quest>> /\ seg.upd = "none" /\ seg.resume = "none" /\ node' = node
      /\ node \in InterruptNodes \cup {Finished} /\ Len(quest) \in Nat
      /\ values \in AgentState
  BY LenProperties
  DEF EndSegment, Streaming, WriteBack, sqlVars, SessionInv, TypeOK, GraphTypeOK
<1>2. /\ values'.recs = values.recs /\ values'.qid = values.qid
      /\ values'.route = values.route /\ values'.declined = values.declined /\ Shown' = Shown
  BY <1>1 DEF EndSegment, WriteBack, AgentState, Shown
<1>3. UNCHANGED Entries /\ ResolutionsKept
  BY <1>1 DEF Entries, ResolutionsKept
<1>4. Paced' /\ Placed'
  BY <1>1, <1>2 DEF CalmInv, Paced, Placed, NoSegment
<1>5. HandedCovered'
  BY <1>1, <1>2
  DEF CalmInv, HandedCovered, Covered, Listed, RowsOf, NoSegment, InterruptNodes, Finished
<1>6. /\ Closing => Closing'
      /\ Declining' => Declining
      /\ Taking("accepted") => Taking("accepted")'
  BY <1>1 DEF Closing, Declining, Taking, NoSegment
<1> QED
  BY <1>1, <1>2, <1>3, <1>4, <1>5, <1>6, CalmKept

\* The next node of the graph.
LEMMA RunCalm == ASSUME SessionInv, CalmInv, RunNode PROVE CalmInv'
<1>0. /\ hold = "stream" /\ hold' = "stream" /\ pending = Idle /\ pending' = pending
      /\ UNCHANGED <<rows, quest>> /\ seg.upd = "none" /\ seg \in Segment
      /\ values \in AgentState
  BY DEF RunNode, Streaming, sqlVars, CalmInv, Paced, SessionInv, TypeOK, GraphTypeOK
<1>1. seg'.upd = node /\ seg'.resume = "none" /\ seg'.route = seg.route
  BY <1>0 DEF RunNode, Segment
<1>2. values'.qid = values.qid
  BY NodeKeepsIds DEF RunNode, SessionInv, TypeOK
<1>3. RowsQuiet
  BY <1>0, <1>2, SameEntries DEF Entries
<1>4. Paced' /\ ~Taking("declined")' /\ ~Taking("accepted")'
  BY <1>0, <1>1 DEF Paced, Taken, Idle, Taking
<1> USE <1>0, <1>1, <1>2, <1>3, <1>4 DEF CalmInv
\* What is left to show of a step, by where it starts and where it leads.
<1>5. ASSUME Placed',
             /\ node' \in BeforeC6 => RowsOf(values.qid) = {} /\ values'.declined = {}
             /\ node' \in BeforeC5 => values'.route = "person",
             values'.route = "document" =>
               /\ values'.declined = {} /\ \A p : ~ClosedFor(p)
               /\ \/ RowsOf(values.qid) = {}
                  \/ Covered /\ Shown' = Shown /\ node' \in {"document", Finished},
             HandedCovered', OthersOpen', DeclinesTraced',
             Accepted(values.qid) # {} => node' \in {"c8_update", Finished}
      PROVE  CalmInv'
  <2>1. Shown' = Shown /\ Covered => Covered'
    BY DEF Covered, RowsQuiet
  <2>2. Started'
    BY <1>5, <2>1 DEF Started, RowsQuiet, Idle
  <2>3. AcceptedEnds'
    BY <1>5 DEF AcceptedEnds, RowsQuiet
  <2> QED
    BY <1>5, <2>2, <2>3
<1>6. CASE Compute /\ node \in BeforeC6
  <2>1. /\ seg.resume = "none" \/ node = "ask"
        /\ RowsOf(values.qid) = {} /\ values.declined = {} /\ values'.declined = {}
        /\ node' \in BeforeC6 \cup {"c6_score", "off_topic", "unresolved_intent", "self_answered"}
        /\ node' \in BeforeC5 => values'.route = "person"
        /\ node # "c5_route" => values'.route = values.route
        /\ node \in BeforeC5 => values.route = "person"
    BY <1>6 DEF Paced, Started, Compute, C1Intent, C2Sufficiency, C3Embed, KnowledgeAnswer,
      C4Retrieve, C5Route, RouteTarget, SelfAnswer, AdditiveAnswer, PriorAnswer, C6Score,
      Answerability, C7Draft, Reroute, Terminal, Goto, BeforeC6, BeforeC5, InterruptNodes,
      Terminals, AgentState, Routes
  <2>2. \A p : ~ClosedFor(p)
    BY <2>1 DEF ClosedFor
  <2>3. Accepted(values.qid) = {}
    BY <2>1 DEF Accepted
  <2>4. Placed'
    BY <1>6, <2>1 DEF Placed, BeforeC6, BeforeC5
  <2>5. HandedCovered' /\ OthersOpen' /\ DeclinesTraced'
    BY <2>1, <2>2 DEF HandedCovered, OthersOpen, DeclinesTraced, Declining, RowsQuiet, BeforeC6,
      BeforeC5
  <2> QED
    BY <1>5, <2>1, <2>2, <2>3, <2>4, <2>5
<1>7. CASE C6Score
  <2>1. /\ node = "c6_score" /\ values'.route = values.route
        /\ values'.declined = values.declined
        /\ node' \in {"document", "no_candidate", "answerability", "c7_draft"}
        /\ node' = "c7_draft" => ~CriticWired
        /\ values.route = "document" => node' = "document"
    BY <1>7, GraphAssumption DEF C6Score, AfterC6, HandoffTarget, Goto, AgentState
  <2>2. ~Closing
    BY <2>1 DEF Closing, Declining, Finished
  <2>3. values.route = "document" => RowsOf(values.qid) = {}
    BY <2>1 DEF Started, Finished
  <2>4. Placed'
    BY <2>1 DEF Placed
  <2>5. HandedCovered' /\ OthersOpen' /\ DeclinesTraced'
    BY <2>1, <2>2 DEF HandedCovered, OthersOpen, DeclinesTraced, Declining, RowsQuiet
  <2>6. Accepted(values.qid) = {}
    BY <2>1 DEF AcceptedEnds, Finished
  <2> QED
    BY <1>5, <2>1, <2>3, <2>4, <2>5, <2>6 DEF Started, BeforeC6, BeforeC5
<1>8. CASE Answerability \/ C7Draft
  <2>1. /\ node \in {"answerability", "c7_draft"} /\ values' = values
        /\ node = "answerability" => node' \in {"c7_draft", "no_expert"}
        /\ node = "c7_draft" => node' = "send"
    BY <1>8 DEF Answerability, C7Draft, Goto
  <2>2. ~Closing /\ Accepted(values.qid) = {}
    BY <2>1 DEF Closing, Declining, AcceptedEnds, Finished
  <2>3. values.route # "document"
    BY <2>1 DEF SessionInv, GraphSafe, DocumentNeverWaits
  <2>4. Placed'
    BY <2>1, <2>3 DEF Placed
  <2>5. node = "c7_draft" => Covered' \/ Unshown'
    BY <2>1 DEF HandedCovered, Covered, Unshown, Shown, RowsQuiet
  <2>6. HandedCovered'
    BY <2>1, <2>5 DEF HandedCovered
  <2>7. OthersOpen' /\ DeclinesTraced'
    BY <2>1, <2>2 DEF OthersOpen, DeclinesTraced, Declining, RowsQuiet
  <2> QED
    BY <1>5, <2>1, <2>2, <2>3, <2>4, <2>6, <2>7 DEF BeforeC6, BeforeC5
<1>9. CASE Reroute
  <2>1. /\ node = "reroute" /\ node' = "c6_score" /\ values'.route = values.route
        /\ values.recs # <<>> /\ ClosedFor(Head(values.recs))
        /\ values'.declined = values.declined \cup {Head(values.recs)}
    BY <1>9 DEF Reroute, Goto, AgentState, DeclinesTraced, Declining
  <2>2. Accepted(values.qid) = {}
    BY <2>1 DEF AcceptedEnds, Finished
  <2>3. values.route # "document"
    BY <2>1 DEF SessionInv, GraphSafe, DocumentNeverWaits
  <2>4. Placed' /\ HandedCovered'
    BY <2>1, <2>3 DEF Placed, HandedCovered
  <2>5. OthersOpen'
    BY <2>1 DEF OthersOpen, RowsQuiet
  <2>6. DeclinesTraced'
    BY <2>1 DEF DeclinesTraced, Declining, RowsQuiet
  <2> QED
    BY <1>5, <2>1, <2>2, <2>3, <2>4, <2>5, <2>6 DEF BeforeC6, BeforeC5
<1>10. CASE Terminal
  <2>1. /\ node \in Terminals /\ node' = Finished /\ values'.route = values.route
        /\ values'.declined = values.declined /\ values'.recs = values.recs /\ Shown' = Shown
    BY <1>10 DEF Terminal, Goto, AgentState, Shown
  <2>2. Placed' /\ HandedCovered'
    BY <2>1 DEF Placed, HandedCovered, Terminals, Finished
  <2>3. OthersOpen'
    BY <2>1 DEF OthersOpen, RowsQuiet, Closing
  <2>4. DeclinesTraced'
    BY <2>1 DEF DeclinesTraced, Declining, RowsQuiet, Finished
  <2> QED
    BY <1>5, <2>1, <2>2, <2>3, <2>4 DEF Started, BeforeC6, BeforeC5, Finished
<1>11. CASE Ask
  <2>1. /\ node = "ask" /\ node' = "c1_intent" /\ values'.route = values.route
        /\ values'.declined = values.declined
    BY <1>11 DEF Ask, Goto, AgentState
  <2>2. /\ RowsOf(values.qid) = {} /\ values.declined = {} /\ values.route = "person"
    BY <2>1 DEF Started, BeforeC6, BeforeC5
  <2>3. (\A p : ~ClosedFor(p)) /\ Accepted(values.qid) = {}
    BY <2>2 DEF ClosedFor, Accepted
  <2>4. Placed' /\ HandedCovered'
    BY <2>1, <2>2 DEF Placed, HandedCovered
  <2>5. OthersOpen' /\ DeclinesTraced'
    BY <2>1, <2>2, <2>3 DEF OthersOpen, DeclinesTraced, Declining, RowsQuiet
  <2> QED
    BY <1>5, <2>1, <2>2, <2>3, <2>4, <2>5
<1>12. CASE seg.resume # "none" /\ Send(seg.resume)
  <2>1. /\ node = "send" /\ values' = values
        /\ \/ seg.resume = "accepted" /\ node' = "c8_update"
           \/ seg.resume = "declined" /\ node' = "reroute"
           \/ seg.resume = "redraft" /\ node' = "c7_draft"
    BY <1>12 DEF Send, AfterSend, Goto, Paced, Taken
  <2>2. values.route # "document" /\ Covered /\ (Taking("declined") <=> seg.resume = "declined")
        /\ (Taking("accepted") <=> seg.resume = "accepted")
    BY <2>1 DEF SessionInv, GraphSafe, DocumentNeverWaits, HandedCovered, Taking, Idle
  <2>3. Covered'
    BY <2>1, <2>2 DEF Covered, Shown, RowsQuiet
  <2>4. Placed' /\ HandedCovered'
    BY <2>1, <2>2, <2>3 DEF Placed, HandedCovered
  <2>5. Closing => Closing'
    BY <2>1, <2>2 DEF Closing, Declining, Finished
  <2>6. Declining' => Declining
    BY <2>1, <2>2 DEF Declining
  <2>7. OthersOpen' /\ DeclinesTraced'
    BY <2>1, <2>5, <2>6 DEF OthersOpen, DeclinesTraced, RowsQuiet
  <2>8. Accepted(values.qid) # {} => node' = "c8_update"
    BY <2>1, <2>2 DEF AcceptedEnds, Finished
  <2> QED
    BY <1>5, <2>1, <2>2, <2>4, <2>7, <2>8 DEF BeforeC6, BeforeC5
<1>13. Compute => node \in BeforeC6 \/ C6Score \/ Answerability \/ C7Draft \/ Reroute \/ Terminal
  BY DEF Compute, C1Intent, C2Sufficiency, C3Embed, KnowledgeAnswer, C4Retrieve, C5Route,
    SelfAnswer, AdditiveAnswer, PriorAnswer, BeforeC6, BeforeC5
<1> QED
  BY <1>6, <1>7, <1>8, <1>9, <1>10, <1>11, <1>12, <1>13 DEF RunNode

\* Handing out an event of an update.
LEMMA DeliveredCalm ==
  ASSUME CalmInv, Streaming, seg.upd # "none", UNCHANGED <<graphVars, pending>>,
         NEW local \in Segment, local.resume = seg.resume,
         local.route = "document" => values.route = "document",
         NEW emits, Deliver(local, emits)
  PROVE  /\ Paced' /\ Placed' /\ seg'.upd = "none" /\ seg'.resume = "none"
         /\ pending = Idle /\ seg.resume = "none" /\ node' = node /\ values' = values
         /\ hold' \in {"stream", "free"} /\ hold = "stream"
         /\ Closing => Closing'
         /\ Declining' => Declining
         /\ Taking("accepted") => Taking("accepted")'
<1>1. /\ hold = "stream" /\ pending = Idle /\ seg.resume = "none" /\ pending' = pending
      /\ node' = node /\ values' = values
  BY DEF CalmInv, Paced, Streaming, graphVars
<1>2. \/ seg'.upd = "none" /\ seg'.resume = "none" /\ seg'.route = local.route /\ hold' = "stream"
      \/ seg' = NoSegment /\ hold' = "free"
  BY <1>1 DEF Deliver, Segment
<1>3. seg'.upd = "none" /\ seg'.resume = "none" /\ hold' \in {"stream", "free"}
      /\ (seg'.route = local.route \/ seg'.route = "none") /\ (hold' = "free" => seg'.route = "none")
  BY <1>2 DEF NoSegment
<1>4. Paced' /\ Placed'
  BY <1>1, <1>3 DEF Paced, Placed, Idle, Taken, CalmInv
<1>5. /\ Closing => Closing'
      /\ Declining' => Declining
      /\ Taking("accepted") => Taking("accepted")'
  BY <1>1, <1>3 DEF Closing, Declining, Taking, Idle
<1> QED
  BY <1>1, <1>3, <1>4, <1>5

\* An update that shows nobody new.
LEMMA ShownNobodyCalm ==
  ASSUME SessionInv, CalmInv, Streaming, seg.upd # "none", UNCHANGED <<graphVars, pending, rows>>,
         NEW local \in Segment, local.resume = seg.resume,
         local.route = "document" => values.route = "document",
         NEW emits, Deliver(local, emits), ResolutionsKept, Len(quest') = Len(quest),
         seg.upd \in {"c6_score", "answerability"} => node # "c7_draft",
         seg.upd = "c7_draft" => Covered
  PROVE  CalmInv'
<1>1. /\ Paced' /\ Placed' /\ seg'.upd = "none" /\ pending = Idle /\ node' = node
      /\ values' = values /\ hold' \in {"stream", "free"} /\ hold = "stream"
      /\ Closing => Closing'
      /\ Declining' => Declining
      /\ Taking("accepted") => Taking("accepted")'
  BY DeliveredCalm
<1>2. UNCHANGED Entries /\ Len(quest) \in Nat /\ Shown' = Shown
  BY <1>1, LenProperties DEF Entries, Shown, SessionInv, TypeOK
<1>3. (Covered' <=> Covered) /\ (Unshown' <=> Unshown)
  BY <1>1 DEF Covered, Unshown, Listed, Shown, RowsOf
<1>4. HandedCovered'
  BY <1>1, <1>3 DEF CalmInv, HandedCovered, Placed
<1> QED
  BY <1>1, <1>2, <1>4, CalmKept

\* Rows for everybody shown.
LEMMA ShownAllCalm ==
  ASSUME SessionInv, CalmInv, Streaming, seg.upd \in {"c6_score", "answerability", "c7_draft"},
         seg.upd = "answerability" => node = "c7_draft",
         UNCHANGED <<graphVars, pending>>, InsertAndDeliver(values.recs)
  PROVE  CalmInv'
<1>0. /\ rows \in Seq(Row) /\ values.recs \in Seq(People) /\ values.qid \in Questions
      /\ values.qid \in 1..Len(quest) /\ seg \in Segment /\ UNCHANGED quest
      /\ rows' = rows \o NewRows(values.recs) /\ values' = values
  BY LenProperties DEF SessionInv, TypeOK, GraphTypeOK, AgentState, Numbered, InsertAndDeliver,
     graphVars
<1>1. /\ rows' \in Seq(Row) /\ Len(rows') = Len(rows) + Len(values.recs)
      /\ \A i \in DOMAIN rows : i \in DOMAIN rows' /\ rows'[i] = rows[i]
      /\ \A i \in DOMAIN rows' :
           i \notin DOMAIN rows => rows'[i].q = values.qid /\ rows'[i].outcome = "open"
      /\ \A q : RowsOf(q) \subseteq RowsOf(q)'
      /\ NewIds(values.recs) \in Seq(Nat)
      /\ Range(NewIds(values.recs)) \subseteq RowsOf(values.qid)'
  BY <1>0, Inserted
<1>2. PICK local \in Segment : /\ local.resume = seg.resume /\ local.route = seg.route
                               /\ Deliver(local, TRUE)
  <2>1. /\ [seg EXCEPT !.ids = NewIds(values.recs)] \in Segment
        /\ [seg EXCEPT !.ids = NewIds(values.recs)].resume = seg.resume
        /\ [seg EXCEPT !.ids = NewIds(values.recs)].route = seg.route
    BY <1>0, <1>1 DEF Segment
  <2> QED
    BY <2>1 DEF InsertAndDeliver
<1>3. /\ Paced' /\ Placed' /\ seg'.upd = "none" /\ pending = Idle /\ pending' = pending
      /\ node' = node /\ hold' \in {"stream", "free"}
      /\ Closing => Closing'
      /\ Declining' => Declining
      /\ Taking("accepted") => Taking("accepted")'
  BY <1>2, DeliveredCalm DEF CalmInv, Placed
<1>4. Covered'
  <2>1. \A k \in DOMAIN values.recs :
          /\ NewIds(values.recs)[k] \in RowsOf(values.qid)'
          /\ rows'[NewIds(values.recs)[k]].person = values.recs[k]
    BY <1>0, InsertedAs
  <2>2. \A p \in Shown : \E k \in DOMAIN values.recs : values.recs[k] = p
    BY DEF Shown, Range
  <2>3. \A p \in Shown : Listed(p)'
    BY <1>0, <2>1, <2>2 DEF Listed
  <2> QED
    BY <1>0, <2>3 DEF Covered, Shown
<1>5. \A p : ClosedFor(p)' <=> ClosedFor(p)
  BY <1>0, <1>1 DEF ClosedFor, RowsOf
<1>6. \A q : Accepted(q)' = Accepted(q)
  BY <1>0, <1>1 DEF Accepted, RowsOf
<1>7. Started'
  <2>1. \A i \in DOMAIN rows' : rows'[i].q \in 1..Len(quest')
    BY <1>0, <1>1 DEF CalmInv, Started
  <2>2. node \notin BeforeC6
    BY DEF CalmInv, Placed, BeforeC6, BeforeC5
  <2>3. values.route = "document" => node = "document"
    BY DEF CalmInv, Placed, SessionInv, GraphSafe, DocumentNeverWaits, Started
  <2>4. values.route = "document" => values'.declined = {} /\ \A p : ~ClosedFor(p)'
    BY <1>0, <1>5 DEF CalmInv, Started
  <2> QED
    BY <1>0, <1>3, <1>4, <2>1, <2>2, <2>3, <2>4 DEF Started, BeforeC6, Idle
<1>8. HandedCovered'
  BY <1>4 DEF HandedCovered
<1>9. OthersOpen' /\ DeclinesTraced'
  BY <1>0, <1>3, <1>5 DEF CalmInv, OthersOpen, DeclinesTraced
<1>10. AcceptedEnds'
  BY <1>0, <1>3, <1>6 DEF CalmInv, AcceptedEnds
<1> QED
  BY <1>3, <1>7, <1>8, <1>9, <1>10 DEF CalmInv

\* What _run does on a node's update.
LEMMA UpdateCalm == ASSUME SessionInv, CalmInv, HandleUpdate PROVE CalmInv'
<1>1. /\ Streaming /\ UNCHANGED <<graphVars, pending>> /\ seg \in Segment
      /\ quest \in Seq(Question) /\ values \in AgentState
  BY DEF HandleUpdate, SessionInv, TypeOK, GraphTypeOK
<1>2. seg.upd # "none"
  BY DEF HandleUpdate, HandleRoute, HandleKnowledge, HandleScore, HandleVerdict, HandleDraft,
         HandleTerminal, HandleQuietly, Terminals, Nodes, InterruptNodes
<1>3. values.qid \in 1..Len(quest) /\ quest[values.qid] \in Question
  <2>1. values.qid \in 1..Len(quest)
    BY <1>1, <1>2, LenProperties DEF SessionInv, Numbered, AgentState
  <2> QED
    BY <1>1, <2>1, ElementOfSeq
<1>4. seg.route = "document" => values.route = "document"
  BY DEF CalmInv, Placed
<1>5. UNCHANGED quest => ResolutionsKept /\ Len(quest') = Len(quest)
  BY DEF ResolutionsKept
<1>6. ASSUME NEW r \in Question, quest[values.qid].resolved => r.resolved,
             quest' = [quest EXCEPT ![values.qid] = r]
      PROVE  ResolutionsKept /\ Len(quest') = Len(quest)
  <2>1. quest' \in Seq(Question) /\ Len(quest') = Len(quest)
    BY <1>1, <1>3, <1>6, QuestionSet
  <2>2. DOMAIN quest' = DOMAIN quest
    BY <1>1, <2>1, LenProperties
  <2> QED
    BY <1>6, <2>1, <2>2 DEF ResolutionsKept
<1> USE <1>1, <1>2
<1>7. CASE HandleRoute
  <2> DEFINE r == [quest[values.qid] EXCEPT !.route = values.route,
                     !.resolved = quest[values.qid].resolved \/ values.route = "document"]
  <2>1. r \in Question /\ (quest[values.qid].resolved => r.resolved)
    BY <1>3 DEF Question, AgentState
  <2>2. quest' = [quest EXCEPT ![values.qid] = r]
    BY <1>3, <1>7, LenProperties DEF HandleRoute
  <2>3. PICK local \in Segment : /\ local.resume = seg.resume /\ local.route = values.route
                                 /\ Deliver(local, TRUE)
    <3>1. /\ [seg EXCEPT !.route = values.route] \in Segment
          /\ [seg EXCEPT !.route = values.route].resume = seg.resume
          /\ [seg EXCEPT !.route = values.route].route = values.route
      BY DEF Segment, AgentState
    <3> QED
      BY <1>7, <3>1 DEF HandleRoute
  <2> HIDE DEF r
  <2>4. ResolutionsKept /\ Len(quest') = Len(quest)
    BY <1>6, <2>1, <2>2
  <2> QED
    BY <1>7, <2>3, <2>4, ShownNobodyCalm DEF HandleRoute
<1>8. CASE HandleKnowledge
  <2> DEFINE r == [quest[values.qid] EXCEPT !.route = "knowledge"]
  <2>1. r \in Question /\ (quest[values.qid].resolved => r.resolved)
    BY <1>3 DEF Question
  <2>2. quest' = quest \/ quest' = [quest EXCEPT ![values.qid] = r]
    BY <1>1, <1>3, <1>8, LenProperties DEF HandleKnowledge
  <2>3. PICK local \in Segment : /\ local.resume = seg.resume
                                 /\ local.route \in {seg.route, "knowledge"}
                                 /\ Deliver(local, FALSE)
    <3> DEFINE l == [seg EXCEPT !.route = IF values.grounded THEN "knowledge" ELSE @]
    <3>1. l \in Segment /\ l.resume = seg.resume /\ l.route \in {seg.route, "knowledge"}
      BY DEF Segment
    <3>2. Deliver(l, FALSE)
      BY <1>8 DEF HandleKnowledge
    <3> QED
      BY <3>1, <3>2
  <2> HIDE DEF r
  <2>4. ResolutionsKept /\ Len(quest') = Len(quest)
    BY <1>5, <1>6, <2>1, <2>2
  <2> QED
    BY <1>4, <1>8, <2>3, <2>4, ShownNobodyCalm DEF HandleKnowledge
<1>9. CASE HandleTerminal
  <2> DEFINE r == [quest[values.qid] EXCEPT !.resolved = TRUE, !.self = TRUE]
  <2>1. r \in Question /\ (quest[values.qid].resolved => r.resolved)
    BY <1>3 DEF Question
  <2>2. quest' = quest \/ quest' = [quest EXCEPT ![values.qid] = r]
    BY <1>3, <1>9, LenProperties DEF HandleTerminal
  <2>3. PICK local \in Segment : /\ local.resume = seg.resume /\ local.route = seg.route
                                 /\ Deliver(local, TRUE)
    <3> DEFINE l == [seg EXCEPT !.terminal = IF seg.upd = "c8_update" THEN "done" ELSE "message"]
    <3>1. l \in Segment /\ l.resume = seg.resume /\ l.route = seg.route
      BY DEF Segment
    <3>2. Deliver(l, TRUE)
      BY <1>9 DEF HandleTerminal
    <3> QED
      BY <3>1, <3>2
  <2> HIDE DEF r
  <2>4. ResolutionsKept /\ Len(quest') = Len(quest)
    BY <1>5, <1>6, <2>1, <2>2
  <2> QED
    BY <1>4, <1>9, <2>3, <2>4, ShownNobodyCalm DEF HandleTerminal, Terminals
<1>10. ASSUME NEW emits, Deliver(seg, emits), UNCHANGED sqlVars,
              seg.upd \in {"c6_score", "answerability"} => node # "c7_draft",
              seg.upd = "c7_draft" => Covered
       PROVE  CalmInv'
  BY <1>4, <1>5, <1>10, ShownNobodyCalm DEF sqlVars
<1>11. CASE HandleScore
  <2>1. ASSUME seg.route = "document" \/ Deferred, node = "c7_draft" PROVE FALSE
    BY <1>4, <1>11, <2>1
    DEF HandleScore, Deferred, CalmInv, Placed, SessionInv, GraphSafe, DocumentNeverWaits
  <2>2. CASE Deliver(seg, FALSE) /\ UNCHANGED sqlVars /\ (seg.route = "document" \/ Deferred)
    BY <1>10, <1>11, <2>1, <2>2 DEF HandleScore
  <2> QED
    BY <1>11, <2>2, ShownAllCalm DEF HandleScore
<1>12. CASE HandleVerdict
  <2>1. CASE node = "c7_draft"
    BY <1>12, <2>1, ShownAllCalm DEF HandleVerdict
  <2>2. CASE node # "c7_draft"
    <3>1. Deliver(seg, FALSE) /\ UNCHANGED sqlVars
      BY <1>12, <2>2 DEF HandleVerdict
    <3>2. seg.upd = "answerability"
      BY <1>12 DEF HandleVerdict
    <3> QED
      BY <1>10, <2>2, <3>1, <3>2
  <2> QED
    BY <2>1, <2>2
<1>13. CASE HandleDraft
  <2>1. node = "send" /\ (Covered \/ Unshown)
    <3>1. seg.upd = "c7_draft"
      BY <1>13 DEF HandleDraft
    <3>2. node = "send"
      BY <3>1 DEF CalmInv, Placed
    <3> QED
      BY <3>1, <3>2 DEF CalmInv, HandedCovered
  <2>2. RowsOf(values.qid) # {} => Covered
    BY <2>1 DEF Unshown
  <2>3. ~(values.fallbackReq /\ values.recIds = <<>>) => Covered
    <3>1. RowsOf(values.qid) = {} => values.recIds = <<>>
      <4>1. ASSUME values.recIds # <<>> PROVE Head(values.recIds) \in Range(values.recIds)
        BY <4>1, TailForgetsHead DEF AgentState
      <4> QED
        BY <4>1 DEF SessionInv, IdsKnown
    <3> QED
      BY <2>1, <3>1 DEF Unshown
  <2>4. ASSUME NEW ids \in DisplayOrders(values.qid), RowsOf(values.qid) # {},
               Deliver([seg EXCEPT !.ids = ids], TRUE), UNCHANGED sqlVars
        PROVE  CalmInv'
    <3>1. ids \in Seq(Nat)
      <4>1. RowsOf(values.qid) \subseteq 1..Len(rows) /\ Len(rows) \in Nat
        BY RowsOfQuestion DEF SessionInv, TypeOK
      <4>2. IsFiniteSet(RowsOf(values.qid)) /\ Cardinality(RowsOf(values.qid)) \in Nat
        <5>1. IsFiniteSet(1..Len(rows))
          BY <4>1, FS_Interval
        <5>2. IsFiniteSet(RowsOf(values.qid))
          BY <4>1, <5>1, FS_Subset
        <5> QED
          BY <5>2, FS_CardinalityType
      <4>3. ids \in [1..Cardinality(RowsOf(values.qid)) -> Nat]
        BY <2>4, <4>1 DEF DisplayOrders
      <4> QED
        BY <4>2, <4>3, FunctionIsSeq
    <3>2. /\ [seg EXCEPT !.ids = ids] \in Segment
          /\ [seg EXCEPT !.ids = ids].resume = seg.resume
          /\ [seg EXCEPT !.ids = ids].route = seg.route
      BY <3>1 DEF Segment
    <3> QED
      BY <1>4, <1>5, <1>13, <2>2, <2>4, <3>2, ShownNobodyCalm DEF HandleDraft, sqlVars
  <2> QED
    BY <1>10, <1>13, <2>3, <2>4, ShownAllCalm DEF HandleDraft
<1>14. CASE HandleQuietly
  BY <1>10, <1>14 DEF HandleQuietly
<1> QED
  BY <1>7, <1>8, <1>9, <1>11, <1>12, <1>13, <1>14 DEF HandleUpdate

-----------------------------------------------------------------------------
(* What the calm invariant gives *)

\* Dropped clients, parked runs, reselections, referrals, redrafts and fallbacks keep
\* the invariant; so does everything else while nothing fails and nobody corrects.
LEMMA NextCalm ==
  ASSUME MaxFaults = 0, MaxCorrections = 0
  PROVE  SessionInv /\ CalmInv /\ [Next]_vars => CalmInv'
<1> SUFFICES ASSUME SessionInv, CalmInv, [Next]_vars PROVE CalmInv'
  OBVIOUS
<1>1. CASE UNCHANGED vars
  BY <1>1
  DEF vars, sqlVars, graphVars, CalmInv, Paced, Placed, Started, HandedCovered, Covered, Unshown,
    Listed, ClosedFor, RowsOf, Shown, OthersOpen, Closing, Declining, Taking, DeclinesTraced,
    AcceptedEnds, Accepted
<1>2. CASE Stream
  BY <1>2, BeginCalm, RunCalm, UpdateCalm, EndCalm DEF Stream
<1>3. ~Fault /\ ~Crash
  BY DEF Fault, Crash, SessionInv, TypeOK
<1> QED
  BY <1>1, <1>2, <1>3, SecondStepsCalm, HandlersCalm DEF Next

LEMMA CalmInvariant ==
  ASSUME MaxFaults = 0, MaxCorrections = 0
  PROVE  Spec => [](SessionInv /\ CalmInv)
<1>1. Init => CalmInv
  BY DEF Init, GraphInit, Unwritten, Idle, NoSegment, CalmInv, Paced, Placed, Started,
    HandedCovered, ClosedFor, RowsOf, OthersOpen, Declining, Taking, DeclinesTraced,
    AcceptedEnds, Accepted, BeforeC6, BeforeC5, Finished, InterruptNodes
<1> QED
  BY <1>1, NextCalm, SessionInvariant, PTL DEF Spec

\* Whoever was passed over has a closed row to show for it, and nobody answers for
\* somebody else from an outdated page, however clients drop and runs are continued,
\* as long as no node, transaction or process fails and the question is not corrected.
THEOREM PassedOverIsTraced ==
  ASSUME MaxFaults = 0, MaxCorrections = 0
  PROVE  Spec => OutcomesTraced
<1>1. CalmInv => DeclinedIsRecorded
  BY DEF CalmInv, DeclinesTraced, DeclinedIsRecorded, ClosedFor
<1> QED
  BY <1>1, CalmInvariant, StaleTabsRejected, PTL DEF OutcomesTraced

\* An acceptance ends its question, alone and for good, and no outcome leaves the session
\* where it was, under the same conditions.
THEOREM AcceptancesEnd ==
  ASSUME MaxFaults = 0, MaxCorrections = 0
  PROVE  Spec => OutcomesAdvance
<1>1. SessionInv /\ CalmInv => AcceptanceIsFinal
  <2> SUFFICES ASSUME SessionInv, CalmInv, NEW q \in DOMAIN quest, Accepted(q) # {}
               PROVE  /\ Cardinality(Accepted(q)) = 1
                      /\ quest[q].resolved
                      /\ Settled /\ q = values.qid => node = Finished
    BY DEF AcceptanceIsFinal
  <2>1. quest[q].resolved /\ \E i \in Accepted(q) : Accepted(q) = {i}
    BY DEF CalmInv, AcceptedEnds
  <2>2. Cardinality(Accepted(q)) = 1
    BY <2>1, FS_Singleton
  <2>3. ASSUME Settled, q = values.qid PROVE node = Finished
    <3>1. ~Taking("accepted") /\ node # "c8_update"
      BY <2>3 DEF Settled, CalmInv, Paced, Taking, Idle, InterruptNodes, Finished
    <3> QED
      BY <2>3, <3>1 DEF CalmInv, AcceptedEnds
  <2> QED
    BY <2>1, <2>2, <2>3
<1>2. SessionInv /\ CalmInv /\ [Next]_vars =>
        [ Streaming /\ node = "send" /\ seg.resume # "none" /\ seg'.resume = "none"
            /\ hold' = "stream" => node' # "send" ]_vars
  <2> SUFFICES ASSUME SessionInv, CalmInv, Next, Streaming, node = "send", seg.resume # "none",
                      seg'.resume = "none", hold' = "stream"
               PROVE  node' # "send"
    OBVIOUS
  <2>1. seg.resume \in {"accepted", "declined", "redraft"} /\ seg.upd = "none" /\ hold = "stream"
    BY DEF CalmInv, Paced, Taken, Streaming
  <2>2. ~HandleUpdate
    BY <2>1
    DEF HandleUpdate, HandleRoute, HandleKnowledge, HandleScore, HandleVerdict, HandleDraft,
      HandleTerminal, HandleQuietly, Terminals, Nodes, InterruptNodes
  <2>3. RunNode
    BY <2>1, <2>2
    DEF Next, Stream, Begin, BeginFresh, BeginResume, BeginParked, EndSegment, SecondStep,
      ReferSeat, SelectRanks, FallbackReopensQuestion, Handlers, StartQuestion, SubmitReply,
      LoadHandoff, SubmitOutcome, Exclude, Redraft, Correct, RequestFallback, Refer, Select,
      AtHandoff, Fault, Crash
  <2> QED
    BY <2>1, <2>3 DEF RunNode, Ask, Send, AfterSend, Goto
<1> QED
  BY <1>1, <1>2, CalmInvariant, PTL DEF Spec, OutcomesAdvance, ResumeAdvances

-----------------------------------------------------------------------------
(* While clients stay as well: what the rows say of the hand-off at rest *)

\* Rows that an inbox shows, of the current question.
Firsts == {i \in RowsOf(values.qid) : rows[i].rank = 1 /\ rows[i].outcome = "open"}

\* Questions that are over left no request in an inbox.
OthersQuiet ==
  \A i \in DOMAIN rows :
    rows[i].q # values.qid => rows[i].rank # 1 \/ rows[i].outcome # "open"

\* The ids are rows of the question for the people shown, one each in their order.
Batch(ids) ==
  /\ DOMAIN ids = DOMAIN values.recs
  /\ \A k \in DOMAIN ids :
       ids[k] \in RowsOf(values.qid) /\ rows[ids[k]].person = values.recs[k]

RankedInOrder(ids) == \A k \in DOMAIN ids : rows[ids[k]].rank = k

\* Those rows are what an inbox may show; their ranks lag behind a reselection.
InHand(ids) ==
  Batch(ids) /\ Firsts \subseteq Range(ids) /\ (hold # "select" => RankedInOrder(ids))

\* The rows of the running segment.
SegmentRows ==
  seg.ids # <<>> =>
    /\ hold = "stream" /\ node \in {"c7_draft", "send"} /\ seg.resume = "none"
    /\ seg.upd \notin {"c6_score", "answerability"}
    /\ InHand(seg.ids)

\* From the rows of the candidates to an outcome for the first of them.
Handed ==
  /\ node = "send" \/ (node = "c7_draft" /\ seg.upd \notin {"c6_score", "answerability"})
  /\ ~(Taking("accepted") \/ Taking("declined") \/ hold = "refer")

\* A fallback whose candidates never were rows.
FallbackDue == values.fallbackReq /\ values.recIds = <<>> /\ RowsOf(values.qid) = {}

HandedRows ==
  Handed /\ seg.ids = <<>> =>
    \/ InHand(values.recIds) /\ values.primary = Head(values.recIds)
    \/ FallbackDue /\ (node = "c7_draft" \/ seg.upd = "c7_draft")

\* A checkpoint that is not being worked on waits for somebody, is at its end, or
\* is a fallback's; only at a hand-off no new question is queued.
AtRest ==
  /\ hold # "stream" =>
       \/ node \in InterruptNodes \cup {Finished}
       \/ node \in {"answerability", "c7_draft"} /\ FallbackDue
  /\ pending.kind = "fresh" => node \in {Finished, "answerability", "c7_draft"}

\* Between the router and C6.
Routed == {"self_answer", "additive_answer", "prior_answer", "c6_score"}

\* The segment knows the document route, whose candidates are nobody's request.
DocumentRouted ==
  /\ values.route = "document" => RowsOf(values.qid) = {}
  /\ values.route = "document" /\ seg.upd # "c5_route"
       /\ (node \in Routed \/ seg.upd = "c6_score")
     => seg.route = "document"
  /\ seg.upd = "c6_score" =>
       /\ node = "document" => values.route = "document"
       /\ node = "answerability" => CriticWired
       /\ node = "no_candidate" => values.recs = <<>>
  /\ seg.upd = "knowledge_answer" => node \notin Routed

\* The first rows of a question are those of its first segment that has any.
FirstRows == values.recIds = <<>> => RowsOf(values.qid) = Range(seg.ids)

\* A question that ended has its terminal event, or is about to.
EndTold ==
  node = Finished /\ values.qid # 0 =>
    IF hold = "stream" THEN seg.upd \in Terminals \/ seg.terminal # "none"
    ELSE values.lastEvent # "none"

RestInv ==
  /\ OthersQuiet /\ SegmentRows /\ HandedRows /\ AtRest /\ DocumentRouted
  /\ FirstRows /\ EndTold
  /\ ~Handed => Firsts = {}

\* An increasing numbering of 1..n by 1..n is the identity.
LEMMA IncreasingIsIdentity ==
  ASSUME NEW n \in Nat, NEW f \in [1..n -> 1..n], \A k, l \in 1..n : k < l => f[k] < f[l]
  PROVE  \A k \in 1..n : f[k] = k
<1>0. \A k \in 1..n : f[k] \in 1..n
  OBVIOUS
<1>1. \A k \in 1..n : f[k] >= k
  <2> DEFINE low == {k \in 1..n : f[k] < k}
  <2> SUFFICES low = {}
    BY <1>0
  <2>1. ASSUME low # {} PROVE FALSE
    <3>1. low \subseteq Nat
      OBVIOUS
    <3>2. PICK k \in low : \A j \in low : k <= j
      <4> HIDE DEF low
      <4> QED  BY <2>1, <3>1, HasLeast
    <3>3. k \in 1..n /\ f[k] \in 1..n /\ f[k] < k /\ k - 1 \in 1..n
      BY <1>0
    <3>4. f[k - 1] \in 1..n /\ f[k - 1] < f[k]
      BY <1>0, <3>3
    <3>5. k - 1 \in low
      BY <3>3, <3>4
    <3> HIDE DEF low
    <3> QED
      BY <3>2, <3>3, <3>5
  <2> QED
    BY <2>1
<1>2. \A k \in 1..n : f[k] <= k
  <2> DEFINE high == {k \in 1..n : f[k] > k}
             T == {n - k : k \in high}
  <2> SUFFICES high = {}
    BY <1>0
  <2>1. ASSUME high # {} PROVE FALSE
    <3>1. \A k \in high : k \in 1..n /\ n - k \in Nat
      OBVIOUS
    <3> HIDE DEF high
    <3>2. T \subseteq Nat /\ T # {}
      BY <2>1, <3>1
    <3>3. PICK x \in T : \A y \in T : x <= y
      <4> HIDE DEF T
      <4> QED  BY <3>2, HasLeast
    <3>4. PICK k \in high : x = n - k
      OBVIOUS
    <3>5. k \in 1..n /\ f[k] \in 1..n /\ f[k] > k
      BY <1>0 DEF high
    <3>6. k + 1 \in 1..n
      BY <3>5
    <3>7. f[k + 1] \in 1..n /\ f[k] < f[k + 1]
      BY <1>0, <3>5, <3>6
    <3>8. k + 1 \in high
      BY <3>5, <3>6, <3>7 DEF high
    <3>9. n - (k + 1) \in T
      BY <3>8
    <3>10. n - k <= n - (k + 1)
      BY <3>3, <3>4, <3>9
    <3> QED
      BY <3>5, <3>10
  <2> QED
    BY <2>1
<1>3. \A k \in 1..n : f[k] >= k /\ f[k] <= k /\ f[k] \in Nat
  BY <1>0, <1>1, <1>2
<1> QED
  BY <1>3

\* Rows ranked by their position have one display order, that of their ranks.
LEMMA OneDisplayOrder ==
  ASSUME rows \in Seq(Row), NEW q, NEW s \in Seq(Nat), Range(s) = RowsOf(q), RankedInOrder(s),
         NEW t \in DisplayOrders(q)
  PROVE  t = s
<1> DEFINE n == Len(s)
<1>1. n \in Nat /\ DOMAIN s = 1..n
  BY LenProperties
<1>2. \A k \in 1..n : s[k] \in RowsOf(q) /\ rows[s[k]].rank = k
  BY <1>1 DEF Range, RankedInOrder
<1>3. \A i \in RowsOf(q) : \E k \in 1..n : i = s[k]
  BY <1>1 DEF Range
<1> HIDE DEF n
<1>4. Cardinality(RowsOf(q)) = n
  <2>1. \A k, l \in 1..n : s[k] = s[l] => k = l
    BY <1>2
  <2>2. s \in [1..n -> RowsOf(q)]
    <3>1. s = [k \in 1..n |-> s[k]]
      BY <1>1
    <3> QED
      BY <1>2, <3>1
  <2>3. s \in Bijection(1..n, RowsOf(q))
    BY <1>3, <2>1, <2>2 DEF Bijection, Injection, Surjection, IsInjective
  <2> QED
    BY <1>1, <2>3, FS_CountingElements DEF ExistsBijection
<1>5. /\ t \in [1..n -> RowsOf(q)]
      /\ \A k, l \in 1..n : k < l => ShownFirst(t[k], t[l])
  BY <1>4 DEF DisplayOrders
<1> DEFINE f == [k \in 1..n |-> rows[t[k]].rank]
<1>6. \A k \in 1..n : f[k] \in 1..n /\ s[f[k]] = t[k]
  <2> SUFFICES ASSUME NEW k \in 1..n PROVE f[k] \in 1..n /\ s[f[k]] = t[k]
    OBVIOUS
  <2>1. PICK j \in 1..n : t[k] = s[j]
    BY <1>3, <1>5
  <2>2. f[k] = j
    BY <1>2, <2>1
  <2> QED
    BY <2>1, <2>2
<1>7. \A k, l \in 1..n : k < l => f[k] < f[l]
  <2> SUFFICES ASSUME NEW k \in 1..n, NEW l \in 1..n, k < l PROVE f[k] < f[l]
    OBVIOUS
  <2>1. f[k] < f[l] \/ (f[k] = f[l] /\ t[k] < t[l])
    BY <1>5 DEF ShownFirst
  <2>2. f[k] = f[l] => t[k] = t[l]
    BY <1>6
  <2>3. t[k] \in Nat
    <3>1. RowsOf(q) \subseteq 1..Len(rows) /\ Len(rows) \in Nat
      BY RowsOfQuestion
    <3> QED
      BY <1>5, <3>1
  <2> HIDE DEF f
  <2> QED
    BY <2>1, <2>2, <2>3
<1>8. f \in [1..n -> 1..n]
  BY <1>6
<1>9. \A k \in 1..n : f[k] = k
  <2> HIDE DEF f
  <2> QED
    BY <1>1, <1>7, <1>8, IncreasingIsIdentity
<1>10. \A k \in 1..n : t[k] = s[k]
  <2> HIDE DEF f
  <2> QED
    BY <1>6, <1>9
<1>11. s = [k \in 1..n |-> s[k]] /\ t = [k \in 1..n |-> t[k]]
  BY <1>1, <1>5
<1> QED
  BY <1>10, <1>11

\* What the invariant sees of rows and checkpoint that stay.
LEMMA SameRows ==
  ASSUME UNCHANGED <<rows, values>>
  PROVE  /\ Firsts' = Firsts /\ (OthersQuiet' <=> OthersQuiet) /\ (FallbackDue' <=> FallbackDue)
         /\ RowsOf(values.qid)' = RowsOf(values.qid)
         /\ \A ids : (Batch(ids)' <=> Batch(ids))
         /\ \A ids : (RankedInOrder(ids)' <=> RankedInOrder(ids))
<1>1. \A q : RowsOf(q)' = RowsOf(q)
  BY DEF RowsOf
<1>2. Firsts' = Firsts
  BY <1>1 DEF Firsts
<1>3. \A ids : (Batch(ids)' <=> Batch(ids)) /\ (RankedInOrder(ids)' <=> RankedInOrder(ids))
  BY <1>1 DEF Batch, RankedInOrder
<1> QED
  BY <1>1, <1>2, <1>3 DEF OthersQuiet, FallbackDue

\* A step that leaves the graph, its rows and the ids of the segment.
LEMMA RestKept ==
  ASSUME RestInv, UNCHANGED <<rows, values, node>>, seg'.ids = seg.ids,
         hold' # "select" => hold # "select",
         seg.ids # <<>> => /\ hold' = "stream" /\ seg'.resume = "none"
                           /\ seg'.upd \notin {"c6_score", "answerability"},
         Handed' <=> Handed,
         FallbackDue /\ seg.upd = "c7_draft" => seg'.upd = "c7_draft" \/ node = "c7_draft",
         AtRest', DocumentRouted', EndTold'
  PROVE  RestInv'
<1>1. /\ Firsts' = Firsts /\ (OthersQuiet' <=> OthersQuiet) /\ (FallbackDue' <=> FallbackDue)
      /\ RowsOf(values.qid)' = RowsOf(values.qid)
      /\ \A ids : (Batch(ids)' <=> Batch(ids)) /\ (RankedInOrder(ids)' <=> RankedInOrder(ids))
  BY SameRows
<1>2. \A ids : InHand(ids) => InHand(ids)'
  BY <1>1 DEF InHand
<1>3. SegmentRows'
  BY <1>2 DEF RestInv, SegmentRows
<1>4. HandedRows'
  BY <1>1, <1>2 DEF RestInv, HandedRows
<1>5. FirstRows'
  BY <1>1 DEF RestInv, FirstRows
<1> QED
  BY <1>1, <1>3, <1>4, <1>5 DEF RestInv

\* At a hand-off that nobody has answered yet, the ids of the checkpoint are in hand.
LEMMA HandoffInHand ==
  ASSUME SessionInv, CalmInv, RestInv, AtHandoff
  PROVE  /\ Handed /\ seg.ids = <<>> /\ node = "send" /\ hold = "free" /\ values.recs # <<>>
         /\ InHand(values.recIds) /\ RankedInOrder(values.recIds)
         /\ values.primary = Head(values.recIds)
         /\ DOMAIN values.recIds = DOMAIN values.recs /\ 1 \in DOMAIN values.recs
         /\ values.primary = values.recIds[1] /\ Head(values.recs) = values.recs[1]
<1>1. /\ node = "send" /\ hold = "free" /\ values.recs # <<>> /\ values.recs \in Seq(People)
      /\ pending.with = "none" /\ seg.resume = "none" /\ seg.upd = "none"
  BY AtHandoffKnown, NothingClosing DEF AtHandoff
<1>2. Handed /\ seg.ids = <<>>
  BY <1>1 DEF Handed, Taking, RestInv, SegmentRows
<1>3. InHand(values.recIds) /\ values.primary = Head(values.recIds)
  BY <1>1, <1>2 DEF RestInv, HandedRows
<1>4. RankedInOrder(values.recIds) /\ DOMAIN values.recIds = DOMAIN values.recs
  BY <1>1, <1>3 DEF InHand, Batch
<1>5. 1 \in DOMAIN values.recs
  BY <1>1, LenProperties, EmptySeq
<1>6. values.primary = values.recIds[1] /\ Head(values.recs) = values.recs[1]
  BY <1>1, <1>3
<1> QED
  BY <1>1, <1>2, <1>3, <1>4, <1>5, <1>6

\* An outcome closes the row that the inbox of the person shown first has.
LEMMA OutcomeRest ==
  ASSUME SessionInv, CalmInv, RestInv, AtHandoff, NEW o \in Closings, RecordOutcome(o),
         UNCHANGED graphVars, seg'.ids = seg.ids, seg'.upd = seg.upd,
         \/ pending' = ResumeWith("accepted") /\ hold' = "free"
         \/ pending' = ResumeWith("declined") /\ hold' = "free"
         \/ pending' = pending /\ hold' = "refer"
  PROVE  RestInv'
<1> DEFINE r == ResolvedPrimary
<1>1. ClosesShown(o) /\ rows \in Seq(Row) /\ o # "open"
  BY OutcomeCloses DEF SessionInv, TypeOK, Closings
<1>2. /\ Handed /\ seg.ids = <<>> /\ node = "send" /\ hold = "free"
      /\ InHand(values.recIds) /\ RankedInOrder(values.recIds)
      /\ values.primary = values.recIds[1] /\ Head(values.recs) = values.recs[1]
      /\ 1 \in DOMAIN values.recIds /\ values.recs # <<>>
  BY HandoffInHand
<1>3. values' = values /\ node' = node
  BY DEF graphVars
<1>4. values.primary \in RowsOf(values.qid) /\ rows[values.primary].person = Head(values.recs)
  BY <1>2 DEF InHand, Batch
<1>5. r = values.primary
  BY <1>2, <1>4 DEF ResolvedPrimary, RowsOf
<1>6. r \in DOMAIN rows /\ rows' = [rows EXCEPT ![r].outcome = o]
  BY <1>1 DEF ClosesShown, RowsOf
<1> HIDE DEF r
<1>7. /\ \A i \in DOMAIN rows : rows'[i] = IF i = r THEN [rows[r] EXCEPT !.outcome = o] ELSE rows[i]
      /\ \A q : RowsOf(q)' = RowsOf(q)
      /\ rows' \in Seq(Row) /\ Len(rows') = Len(rows)
  BY <1>1, <1>6, CloseRow
<1>8. DOMAIN rows' = DOMAIN rows /\ \A i \in DOMAIN rows : rows[i] \in Row
  BY <1>1, <1>7, LenProperties, ElementOfSeq
<1>9. \A i \in DOMAIN rows :
        /\ rows'[i].q = rows[i].q /\ rows'[i].rank = rows[i].rank
        /\ rows'[i].outcome = IF i = r THEN o ELSE rows[i].outcome
  BY <1>7, <1>8 DEF Row
<1>10. OthersQuiet'
  BY <1>1, <1>3, <1>8, <1>9 DEF RestInv, OthersQuiet
<1>11. Firsts' = {}
  <2>1. \A i \in Firsts : i = r
    <3> SUFFICES ASSUME NEW i \in Firsts PROVE i = r
      OBVIOUS
    <3>1. PICK k \in DOMAIN values.recIds : values.recIds[k] = i
      BY <1>2 DEF InHand, Range
    <3>2. rows[i].rank = k /\ rows[i].rank = 1
      BY <1>2, <3>1 DEF RankedInOrder, Firsts
    <3> QED
      BY <1>2, <1>5, <3>1, <3>2
  <2>2. \A i \in RowsOf(values.qid) : i \in DOMAIN rows
    BY DEF RowsOf
  <2>3. \A i \in Firsts' : i \in Firsts /\ i # r
    BY <1>1, <1>3, <1>7, <1>9, <2>2 DEF Firsts
  <2> QED
    BY <2>1, <2>3
<1>12. ~Handed'
  BY DEF Handed, Taking, ResumeWith
<1>13. SegmentRows' /\ HandedRows' /\ FirstRows'
  <2>1. RowsOf(values.qid)' = RowsOf(values.qid)
    BY <1>3, <1>7
  <2> QED
    BY <1>2, <1>3, <1>12, <2>1 DEF RestInv, SegmentRows, HandedRows, FirstRows
<1>14. AtRest'
  BY <1>2, <1>3 DEF RestInv, AtRest, AtHandoff, ResumeWith, Idle, InterruptNodes
<1>15. DocumentRouted' /\ EndTold'
  <2>1. values.route # "document" /\ seg.upd = "none"
    BY <1>2, NothingClosing DEF SessionInv, GraphSafe, DocumentNeverWaits
  <2> QED
    BY <1>2, <1>3, <2>1 DEF DocumentRouted, EndTold, Finished
<1> QED
  BY <1>10, <1>11, <1>13, <1>14, <1>15 DEF RestInv

\* The asker reselects: ids and people move together, the ranks follow.
LEMMA SelectRest ==
  ASSUME SessionInv, CalmInv, RestInv, NEW i \in DOMAIN values.recs, Select(i)
  PROVE  RestInv'
<1>1. /\ AtHandoff /\ hold' = "select" /\ UNCHANGED <<rows, quest, pending, seg>> /\ node' = node
      /\ values \in AgentState
  BY DEF Select, Reselect, sqlVars, SessionInv, TypeOK, GraphTypeOK
<1>2. /\ values'.recs = MoveToFront(values.recs, i) /\ values'.qid = values.qid
      /\ values'.recIds = MoveToFront(values.recIds, i)
      /\ values'.primary = MoveToFront(values.recIds, i)[1]
      /\ values'.route = values.route
  BY <1>1 DEF Select, Reselect, AgentState
<1>3. /\ Handed /\ seg.ids = <<>> /\ node = "send" /\ hold = "free"
      /\ InHand(values.recIds) /\ DOMAIN values.recIds = DOMAIN values.recs
      /\ 1 \in DOMAIN values.recs /\ pending = Idle
  BY <1>1, HandoffInHand DEF AtHandoff
<1>4. /\ DOMAIN values'.recs = DOMAIN values.recs /\ DOMAIN values'.recIds = DOMAIN values.recs
      /\ \A k \in DOMAIN values.recs : \E j \in DOMAIN values.recs :
           values'.recs[k] = values.recs[j] /\ values'.recIds[k] = values.recIds[j]
  <2>1. DOMAIN values.recs = 1..Len(values.recs) /\ Len(values.recs) \in Nat
    BY <1>1, LenProperties DEF AgentState
  <2>2. ASSUME NEW k \in DOMAIN values.recs
        PROVE  \E j \in DOMAIN values.recs :
                 values'.recs[k] = values.recs[j] /\ values'.recIds[k] = values.recIds[j]
    <3>1. CASE k = 1
      BY <1>2, <1>3, <3>1 DEF MoveToFront
    <3>2. CASE k # 1 /\ k <= i
      <4>1. k - 1 \in DOMAIN values.recs
        BY <2>1, <3>2
      <4> QED
        BY <1>2, <1>3, <3>2, <4>1 DEF MoveToFront
    <3>3. CASE k # 1 /\ ~(k <= i)
      BY <1>2, <1>3, <3>3 DEF MoveToFront
    <3> QED
      BY <3>1, <3>2, <3>3
  <2> QED
    BY <1>2, <1>3, <2>2 DEF MoveToFront
<1>5. RowsOf(values.qid)' = RowsOf(values.qid) /\ Firsts' = Firsts
  BY <1>1, <1>2 DEF RowsOf, Firsts
<1>6. InHand(values.recIds)'
  <2>1. Batch(values.recIds)'
    BY <1>1, <1>3, <1>4, <1>5 DEF InHand, Batch
  <2>2. Range(values.recIds)' = Range(values.recIds)
    BY <1>1, <1>2, <1>3, MoveToFrontShowsTheSame DEF AgentState
  <2> QED
    BY <1>1, <1>3, <1>5, <2>1, <2>2 DEF InHand
<1>7. values'.primary = Head(values'.recIds)
  BY <1>2, <1>3, <1>4
<1>8. Handed'
  BY <1>1, <1>3 DEF Handed, Taking
<1>9. SegmentRows' /\ HandedRows'
  BY <1>1, <1>3, <1>6, <1>7 DEF SegmentRows, HandedRows
<1>10. values'.recIds # <<>>
  BY <1>3, <1>4, EmptySeq
<1>11. FirstRows' /\ OthersQuiet'
  BY <1>1, <1>2, <1>10 DEF RestInv, FirstRows, OthersQuiet
<1>12. AtRest' /\ EndTold'
  BY <1>1, <1>3 DEF AtRest, EndTold, Idle, InterruptNodes, Finished
<1>13. DocumentRouted'
  BY <1>1, <1>2, <1>3, NothingClosing DEF SessionInv, GraphSafe, DocumentNeverWaits, DocumentRouted
<1> QED
  BY <1>8, <1>9, <1>11, <1>12, <1>13 DEF RestInv

\* The document's runners-up become a hand-off's candidates, of whom none has a row.
LEMMA FallbackRest ==
  ASSUME SessionInv, CalmInv, RestInv, RequestFallback
  PROVE  RestInv'
<1>1. /\ hold = "free" /\ hold' = "fallback" /\ node = Finished /\ values.route = "document"
      /\ node' \in {"answerability", "c7_draft"} /\ UNCHANGED <<rows, quest, pending, seg>>
      /\ values \in AgentState
  BY DEF RequestFallback, Reopen, FallbackOffered, AfterC6, HandoffTarget, Goto, sqlVars,
     SessionInv, TypeOK, GraphTypeOK
<1>2. /\ values'.route = "person" /\ values'.fallbackReq = TRUE
      /\ values'.recIds = values.recIds /\ values'.qid = values.qid
  BY <1>1 DEF RequestFallback, Reopen, AgentState
<1>3. RowsOf(values.qid) = {} /\ RowsOf(values.qid)' = {}
  BY <1>1, <1>2 DEF RestInv, DocumentRouted, RowsOf
<1>4. values.recIds = <<>>
  <2>1. values.recIds # <<>> => Head(values.recIds) \in Range(values.recIds)
    BY <1>1, TailForgetsHead DEF AgentState
  <2> QED
    BY <1>3, <2>1 DEF SessionInv, IdsKnown
<1>5. FallbackDue'
  BY <1>2, <1>3, <1>4 DEF FallbackDue
<1>6. seg.ids = <<>> /\ seg.upd = "none"
  BY <1>1 DEF RestInv, SegmentRows, CalmInv, Paced
<1>7. Firsts' = {} /\ OthersQuiet'
  BY <1>1, <1>2, <1>3 DEF RestInv, Firsts, OthersQuiet
<1>8. SegmentRows' /\ HandedRows' /\ FirstRows'
  BY <1>1, <1>3, <1>5, <1>6 DEF SegmentRows, HandedRows, FirstRows, Handed, Range
<1>9. AtRest' /\ EndTold'
  BY <1>1, <1>5 DEF RestInv, AtRest, EndTold, Finished
<1>10. DocumentRouted'
  BY <1>1, <1>2, <1>6 DEF DocumentRouted
<1> QED
  BY <1>7, <1>8, <1>9, <1>10 DEF RestInv

\* Every HTTP handler but a correction keeps the invariant.
LEMMA HandlersRest ==
  ASSUME SessionInv, CalmInv, RestInv, MaxCorrections = 0, Handlers
  PROVE  RestInv'
<1>1. CASE StartQuestion
  <2>1. /\ hold = "free" /\ hold' = "free" /\ node = Finished /\ pending = Idle
        /\ pending' = FreshRun(Len(quest) + 1)
        /\ UNCHANGED <<rows, values, node, seg>>
    BY <1>1 DEF StartQuestion, graphVars
  <2>2. seg.ids = <<>> /\ ~Handed /\ ~Handed'
    BY <2>1 DEF RestInv, SegmentRows, Handed, Finished
  <2>3. AtRest' /\ DocumentRouted' /\ EndTold'
    <3>1. RowsOf(values.qid)' = RowsOf(values.qid)
      BY <2>1 DEF RowsOf
    <3> QED
      BY <2>1, <3>1 DEF RestInv, AtRest, DocumentRouted, EndTold
  <2> QED
    BY <2>1, <2>2, <2>3, RestKept
<1>2. CASE SubmitReply \/ LoadHandoff \/ Redraft
  <2>1. /\ hold = "free" /\ hold' = "free" /\ node \in InterruptNodes
        /\ UNCHANGED <<rows, values, node, seg>>
        /\ \/ pending' = ResumeWith("reply") \/ pending' = ResumeWith("redraft")
           \/ pending' = pending
        /\ pending = Idle
    BY <1>2
    DEF SubmitReply, LoadHandoff, Redraft, AtHandoff, graphVars, sqlVars, InterruptNodes
  <2>2. seg.ids = <<>> /\ (Handed' <=> Handed)
    BY <2>1 DEF RestInv, SegmentRows, Handed, Taking, Idle, ResumeWith
  <2>3. AtRest' /\ DocumentRouted' /\ EndTold'
    <3>1. RowsOf(values.qid)' = RowsOf(values.qid)
      BY <2>1 DEF RowsOf
    <3> QED
      BY <2>1, <3>1 DEF RestInv, AtRest, DocumentRouted, EndTold, Idle, ResumeWith
  <2> QED
    BY <2>1, <2>2, <2>3, RestKept
<1>3. ASSUME NEW o \in {"accepted", "declined"}, SubmitOutcome(o) PROVE RestInv'
  <2>1. AtHandoff /\ RecordOutcome(o) /\ o \in Closings
    BY <1>3 DEF SubmitOutcome, Closings
  <2>2. pending' = ResumeWith(o)
    BY <1>3, <2>1, OutcomeCloses DEF SubmitOutcome
  <2>3. hold' = "free" /\ seg' = seg /\ UNCHANGED graphVars
    BY <1>3 DEF SubmitOutcome, AtHandoff
  <2> QED
    BY <2>1, <2>2, <2>3, OutcomeRest
<1>4. CASE Exclude
  BY <1>4, OutcomeRest DEF Exclude, Closings, AtHandoff
<1>5. ASSUME NEW p \in People, Refer(p) PROVE RestInv'
  <2>1. /\ AtHandoff /\ RecordOutcome("referred") /\ hold' = "refer" /\ UNCHANGED graphVars
        /\ pending' = pending /\ seg' = [seg EXCEPT !.referee = p] /\ seg \in Segment
    BY <1>5 DEF Refer, SessionInv, TypeOK
  <2>2. seg'.ids = seg.ids /\ seg'.upd = seg.upd
    BY <2>1 DEF Segment
  <2> QED
    BY <2>1, <2>2, OutcomeRest DEF Closings
<1>6. ~Correct
  BY DEF Correct, SessionInv, TypeOK
<1> QED
  BY <1>1, <1>2, <1>3, <1>4, <1>5, <1>6, SelectRest, FallbackRest DEF Handlers

\* So do the second steps of refer, select and fallback.
LEMMA SecondStepsRest ==
  ASSUME SessionInv, CalmInv, RestInv, SecondStep
  PROVE  RestInv'
<1>0. values \in AgentState /\ rows \in Seq(Row)
  BY DEF SessionInv, TypeOK, GraphTypeOK
<1>1. CASE ReferSeat
  <2>1. /\ hold = "refer" /\ hold' = "free" /\ pending' = ResumeWith("declined")
        /\ seg' = NoSegment /\ node' = node /\ UNCHANGED rows /\ node = "send"
    BY <1>1 DEF ReferSeat, SeatReferral, sqlVars, CalmInv, Paced
  <2>2. values'.qid = values.qid /\ values'.recIds = values.recIds /\ values'.route = values.route
    BY <1>0, <1>1 DEF ReferSeat, SeatReferral, AgentState
  <2>3. RowsOf(values.qid)' = RowsOf(values.qid) /\ Firsts' = Firsts /\ (OthersQuiet' <=> OthersQuiet)
    BY <2>1, <2>2 DEF RowsOf, Firsts, OthersQuiet
  <2>4. ~Handed /\ ~Handed' /\ seg.ids = <<>> /\ seg'.ids = <<>> /\ seg'.upd = "none"
    BY <2>1 DEF Handed, Taking, ResumeWith, RestInv, SegmentRows, NoSegment
  <2>5. SegmentRows' /\ HandedRows' /\ FirstRows'
    BY <2>2, <2>3, <2>4 DEF RestInv, SegmentRows, HandedRows, FirstRows
  <2>6. AtRest' /\ EndTold'
    BY <2>1 DEF AtRest, EndTold, ResumeWith, InterruptNodes, Finished
  <2>7. DocumentRouted'
    BY <2>1, <2>2, <2>4 DEF SessionInv, GraphSafe, DocumentNeverWaits, DocumentRouted
  <2> QED
    BY <2>3, <2>4, <2>5, <2>6, <2>7 DEF RestInv
<1>2. CASE SelectRanks
  <2> DEFINE ids == values.recIds
  <2>1. /\ hold = "select" /\ hold' = "free" /\ UNCHANGED <<node, values, pending, seg>>
        /\ node = "send" /\ pending = Idle /\ seg.upd = "none" /\ seg.resume = "none"
    BY <1>2 DEF SelectRanks, graphVars, CalmInv, Paced
  <2>2. Handed /\ Handed' /\ seg.ids = <<>>
    BY <2>1 DEF Handed, Taking, Idle, RestInv, SegmentRows
  <2>3. Batch(ids) /\ Firsts \subseteq Range(ids) /\ values.primary = Head(ids)
    BY <2>1, <2>2 DEF RestInv, HandedRows, InHand
  <2>4. /\ DOMAIN rows' = DOMAIN rows
        /\ \A i \in DOMAIN rows : rows[i] \in Row
        /\ \A i \in DOMAIN rows :
             rows'[i].q = rows[i].q /\ rows'[i].person = rows[i].person
             /\ rows'[i].outcome = rows[i].outcome
             /\ (i \notin Range(ids) => rows'[i] = rows[i])
    <3>1. DOMAIN rows' = DOMAIN rows /\ \A i \in DOMAIN rows : rows[i] \in Row
      BY <1>0, <1>2, LenProperties, ElementOfSeq DEF SelectRanks
    <3> QED
      BY <1>2, <3>1 DEF SelectRanks, Row
  <2>5. \A q : RowsOf(q)' = RowsOf(q)
    BY <2>4 DEF RowsOf
  <2>6. \A k \in DOMAIN ids : ids[k] \in DOMAIN rows /\ ids[k] \in RowsOf(values.qid)
                              /\ rows[ids[k]].person = values.recs[k] /\ k \in DOMAIN values.recs
    BY <2>3 DEF Batch, RowsOf
  <2>7. \A k, j \in DOMAIN ids : ids[k] = ids[j] => k = j
    BY <2>6 DEF SessionInv, GraphSafe, ShownNotDeclined, IsInjective
  <2>8. \A k \in DOMAIN ids : rows'[ids[k]].rank = k
    <3> SUFFICES ASSUME NEW k \in DOMAIN ids PROVE rows'[ids[k]].rank = k
      OBVIOUS
    <3>1. ids[k] \in Range(ids)
      BY DEF Range
    <3>2. rows'[ids[k]] = [rows[ids[k]] EXCEPT !.rank = CHOOSE j \in DOMAIN ids : ids[j] = ids[k]]
      BY <1>2, <2>6, <3>1 DEF SelectRanks
    <3>3. (CHOOSE j \in DOMAIN ids : ids[j] = ids[k]) = k
      BY <2>7
    <3>4. rows[ids[k]] \in Row
      BY <2>4, <2>6
    <3> QED
      BY <3>2, <3>3, <3>4 DEF Row
  <2>9. Batch(ids)' /\ RankedInOrder(ids)'
    BY <2>1, <2>3, <2>4, <2>5, <2>6, <2>8 DEF Batch, RankedInOrder
  <2>10. Firsts' \subseteq Range(ids)
    <3> SUFFICES ASSUME NEW i \in Firsts', i \notin Range(ids) PROVE FALSE
      OBVIOUS
    <3>1. i \in RowsOf(values.qid) /\ rows'[i].rank = 1 /\ rows'[i].outcome = "open"
      BY <2>1, <2>5 DEF Firsts
    <3>2. i \in DOMAIN rows
      BY <3>1 DEF RowsOf
    <3>3. rows'[i] = rows[i]
      BY <2>4, <3>2
    <3> QED
      BY <2>3, <3>1, <3>3 DEF Firsts
  <2>11. InHand(ids)'
    BY <2>1, <2>9, <2>10 DEF InHand
  <2>12. OthersQuiet'
    <3>1. \A i \in DOMAIN rows : rows[i].q # values.qid => i \notin Range(ids)
      BY DEF SessionInv, IdsKnown, RowsOf
    <3> QED
      BY <2>1, <2>4, <3>1 DEF RestInv, OthersQuiet
  <2>13. SegmentRows' /\ HandedRows' /\ FirstRows'
    BY <2>1, <2>2, <2>3, <2>5, <2>11 DEF RestInv, SegmentRows, HandedRows, FirstRows
  <2>14. AtRest' /\ EndTold'
    BY <2>1 DEF AtRest, EndTold, Idle, InterruptNodes, Finished
  <2>15. DocumentRouted'
    BY <2>1 DEF SessionInv, GraphSafe, DocumentNeverWaits, DocumentRouted
  <2> QED
    BY <2>2, <2>12, <2>13, <2>14, <2>15 DEF RestInv
<1>3. CASE FallbackReopensQuestion
  <2>1. /\ hold = "fallback" /\ hold' = "free" /\ UNCHANGED <<rows, values, node, pending, seg>>
    BY <1>3 DEF FallbackReopensQuestion, graphVars
  <2>2. seg.ids = <<>> /\ (Handed' <=> Handed)
    BY <2>1 DEF RestInv, SegmentRows, Handed, Taking
  <2>3. AtRest' /\ DocumentRouted' /\ EndTold'
    <3>1. RowsOf(values.qid)' = RowsOf(values.qid) /\ (FallbackDue' <=> FallbackDue)
      BY <2>1 DEF RowsOf, FallbackDue
    <3> QED
      BY <2>1, <3>1 DEF RestInv, AtRest, DocumentRouted, EndTold
  <2> QED
    BY <2>1, <2>2, <2>3, RestKept
<1> QED
  BY <1>1, <1>2, <1>3 DEF SecondStep

\* Taking up the queued input, or a parked run: no request is left behind.
LEMMA BeginRest == ASSUME SessionInv, CalmInv, RestInv, Begin PROVE RestInv'
<1>0. /\ hold = "free" /\ hold' = "stream" /\ pending' = Idle /\ UNCHANGED rows
      /\ seg.ids = <<>> /\ seg.upd = "none" /\ seg.resume = "none" /\ pending \in Pending
  BY DEF Begin, BeginFresh, BeginResume, BeginParked, sqlVars, CalmInv, Paced, RestInv, SegmentRows,
     SessionInv, TypeOK
<1>1. CASE BeginFresh
  <2>1. /\ pending.kind = "fresh" /\ pending.with = "none" /\ seg' = NoSegment
        /\ values'.qid = pending.q /\ values'.recIds = <<>> /\ values'.route = "person"
        /\ node' = "c1_intent"
    BY <1>1 DEF BeginFresh, Invoke, ResetValues, Unwritten, Goto, CalmInv, Paced
  <2>2. RowsOf(pending.q) = {} /\ RowsOf(values.qid)' = {}
    BY <1>0, <2>1 DEF CalmInv, Started, RowsOf
  <2>3. Firsts = {}
    <3>0. AtRest
      BY DEF RestInv
    <3>1. node # "send"
      BY <2>1, <3>0 DEF AtRest, Finished
    <3>2. node = "c7_draft" => RowsOf(values.qid) = {}
      BY <1>0 DEF RestInv, AtRest, FallbackDue, InterruptNodes, Finished
    <3> QED
      BY <3>1, <3>2 DEF RestInv, Handed, Firsts
  <2>4. OthersQuiet'
    <3>1. \A i \in DOMAIN rows : rows[i].rank # 1 \/ rows[i].outcome # "open"
      BY <2>3 DEF RestInv, OthersQuiet, Firsts, RowsOf
    <3> QED
      BY <1>0, <3>1 DEF OthersQuiet
  <2>5. Firsts' = {} /\ ~Handed'
    BY <2>1, <2>2 DEF Firsts, Handed
  <2>6. SegmentRows' /\ HandedRows' /\ FirstRows'
    BY <2>1, <2>2, <2>5 DEF SegmentRows, HandedRows, FirstRows, NoSegment, Range
  <2>7. AtRest' /\ EndTold' /\ DocumentRouted'
    BY <1>0, <2>1 DEF AtRest, EndTold, DocumentRouted, NoSegment, Idle, Finished
  <2> QED
    BY <2>4, <2>5, <2>6, <2>7 DEF RestInv
<1>2. CASE BeginResume \/ BeginParked
  <2>1. /\ values' = values /\ node' = node /\ seg'.ids = <<>> /\ seg'.upd = "none"
        /\ seg'.resume = pending.with
    BY <1>2 DEF BeginResume, BeginParked, NoSegment, graphVars, Idle, CalmInv, Paced
  <2>2. node \in InterruptNodes \/ (node \in {"answerability", "c7_draft"} /\ FallbackDue)
    <3>1. CASE BeginResume
      BY <3>1 DEF BeginResume, CalmInv, Paced
    <3>2. CASE BeginParked
      BY <1>0, <3>2 DEF BeginParked, RestInv, AtRest
    <3> QED
      BY <1>2, <3>1, <3>2
  <2>3. Handed' <=> Handed
    BY <1>0, <2>1 DEF Handed, Taking, Idle
  <2>4. AtRest' /\ EndTold'
    BY <1>0, <2>1, <2>2 DEF AtRest, EndTold, Idle, InterruptNodes, Finished
  <2>5. DocumentRouted'
    BY <1>0, <2>1, <2>2 DEF RestInv, DocumentRouted, RowsOf, Routed, InterruptNodes
  <2> QED
    BY <1>0, <2>1, <2>3, <2>4, <2>5, RestKept
<1> QED
  BY <1>1, <1>2 DEF Begin

\* The rows the segment brought become those of the checkpoint.
LEMMA EndRest == ASSUME SessionInv, CalmInv, RestInv, EndSegment PROVE RestInv'
<1>1. /\ hold = "stream" /\ hold' = "free" /\ seg' = NoSegment /\ pending = Idle /\ pending' = Idle
      /\ UNCHANGED rows /\ seg.upd = "none" /\ seg.resume = "none" /\ node' = node
      /\ node \in InterruptNodes \cup {Finished} /\ values \in AgentState /\ seg \in Segment
  BY DEF EndSegment, Streaming, WriteBack, sqlVars, SessionInv, TypeOK, GraphTypeOK, CalmInv, Paced
<1>2. /\ values'.recs = values.recs /\ values'.qid = values.qid /\ values'.route = values.route
      /\ values'.recIds = IF seg.ids = <<>> THEN values.recIds ELSE seg.ids
      /\ values'.primary = IF seg.ids = <<>> THEN values.primary ELSE Head(seg.ids)
      /\ values'.lastEvent = IF seg.terminal = "none" THEN values.lastEvent ELSE seg.terminal
  BY <1>1 DEF EndSegment, WriteBack, AgentState
<1>3. RowsOf(values.qid)' = RowsOf(values.qid) /\ Firsts' = Firsts /\ (OthersQuiet' <=> OthersQuiet)
  BY <1>1, <1>2 DEF RowsOf, Firsts, OthersQuiet
<1>4. Handed' <=> Handed
  BY <1>1 DEF Handed, Taking, Idle, NoSegment, InterruptNodes, Finished
<1>5. \A ids : InHand(ids) => InHand(ids)'
  <2>1. \A ids : Batch(ids) => Batch(ids)'
    BY <1>1, <1>2, <1>3 DEF Batch
  <2>2. \A ids : RankedInOrder(ids) => RankedInOrder(ids)'
    BY <1>1 DEF RankedInOrder
  <2> QED
    BY <1>1, <1>3, <2>1, <2>2 DEF InHand
<1>6. SegmentRows' /\ HandedRows'
  <2>1. CASE seg.ids # <<>>
    <3>1. InHand(values.recIds)' /\ values'.primary = Head(values'.recIds)
      BY <1>2, <1>5, <2>1 DEF RestInv, SegmentRows
    <3> QED
      BY <1>1, <3>1 DEF SegmentRows, HandedRows, NoSegment
  <2>2. CASE seg.ids = <<>>
    <3>1. Handed => InHand(values.recIds) /\ values.primary = Head(values.recIds)
      BY <1>1, <2>2 DEF RestInv, HandedRows, Handed, InterruptNodes, Finished
    <3>2. Handed => InHand(values.recIds)' /\ values'.primary = Head(values'.recIds)
      BY <1>2, <1>5, <2>2, <3>1
    <3> QED
      BY <1>1, <1>4, <3>2 DEF SegmentRows, HandedRows, NoSegment
  <2> QED
    BY <2>1, <2>2
<1>7. FirstRows'
  <2>1. values'.recIds = <<>> => values.recIds = <<>> /\ seg.ids = <<>>
    BY <1>2
  <2> QED
    BY <1>1, <1>3, <2>1 DEF RestInv, FirstRows, NoSegment
<1>8. AtRest' /\ DocumentRouted'
  BY <1>1, <1>2, <1>3
  DEF RestInv, AtRest, DocumentRouted, Routed, Idle, NoSegment, InterruptNodes, Finished
<1>9. EndTold'
  BY <1>1, <1>2 DEF RestInv, EndTold, Terminals
<1> QED
  BY <1>3, <1>4, <1>6, <1>7, <1>8, <1>9 DEF RestInv

\* The next node of the graph.
LEMMA RunRest == ASSUME SessionInv, CalmInv, CalmInv', RestInv, RunNode PROVE RestInv'
<1>0. /\ hold = "stream" /\ hold' = "stream" /\ pending = Idle /\ pending' = Idle
      /\ UNCHANGED rows /\ seg.upd = "none" /\ seg \in Segment /\ values \in AgentState
  BY DEF RunNode, Streaming, sqlVars, CalmInv, Paced, SessionInv, TypeOK, GraphTypeOK
<1>1. seg'.upd = node /\ seg'.resume = "none" /\ seg'.route = seg.route /\ seg'.ids = seg.ids
  BY <1>0 DEF RunNode, Segment
<1>2. values'.qid = values.qid /\ values'.recIds = values.recIds /\ values'.primary = values.primary
  BY NodeKeepsIds DEF RunNode, SessionInv, TypeOK
<1>3. RowsOf(values.qid)' = RowsOf(values.qid) /\ Firsts' = Firsts /\ (OthersQuiet' <=> OthersQuiet)
  BY <1>0, <1>2 DEF RowsOf, Firsts, OthersQuiet
<1>4. AtRest' /\ FirstRows'
  BY <1>0, <1>1, <1>2, <1>3 DEF RestInv, AtRest, FirstRows, Idle
<1> USE <1>0, <1>1, <1>2, <1>3, <1>4
\* What is left to show, for the nodes before and after the hand-off.
<1>5. ASSUME seg.ids = <<>>, ~Handed, ~Handed', DocumentRouted', EndTold' PROVE RestInv'
  BY <1>5 DEF RestInv, SegmentRows, HandedRows
<1>6. seg.ids # <<>> => node \in {"c7_draft", "send"} /\ seg.resume = "none"
  BY DEF RestInv, SegmentRows
<1>7. CASE Compute /\ node \in BeforeC6
  <2>1. /\ RowsOf(values.qid) = {}
        /\ node' \in BeforeC6 \cup {"c6_score", "off_topic", "unresolved_intent", "self_answered"}
        /\ node' \in BeforeC5 => values'.route = "person"
        /\ node # "c5_route" => values'.route = values.route
        /\ node' \in Routed => node \in Routed \cup {"c5_route"} \/ values'.route = "person"
        /\ node = "knowledge_answer" => node' \in {"self_answered", "c4_retrieve"}
    BY <1>7 DEF CalmInv, Started, Compute, C1Intent, C2Sufficiency, C3Embed, KnowledgeAnswer,
      C4Retrieve, C5Route, RouteTarget, SelfAnswer, AdditiveAnswer, PriorAnswer, C6Score,
      Answerability, C7Draft, Reroute, Terminal, Goto, BeforeC6, BeforeC5, Routed,
      Terminals, AgentState, Routes
  <2>2. seg.ids = <<>> /\ ~Handed /\ ~Handed'
    BY <1>6, <1>7, <2>1 DEF Handed, BeforeC6, BeforeC5
  <2>3. EndTold'
    BY <2>1 DEF EndTold, BeforeC6, BeforeC5, Finished
  <2>4. DocumentRouted'
    BY <1>7, <2>1 DEF RestInv, DocumentRouted, BeforeC6, BeforeC5, Routed
  <2> QED
    BY <1>5, <2>2, <2>3, <2>4
<1>8. CASE C6Score
  <2>1. /\ node = "c6_score" /\ values'.route = values.route
        /\ node' \in {"document", "no_candidate", "answerability", "c7_draft"}
        /\ node' = "answerability" => CriticWired
        /\ node' = "document" => values.route = "document"
        /\ node' = "no_candidate" => values'.recs = <<>>
    BY <1>8, GraphAssumption DEF C6Score, AfterC6, HandoffTarget, Goto, AgentState
  <2>2. seg.ids = <<>> /\ ~Handed /\ ~Handed'
    BY <1>6, <2>1 DEF Handed
  <2>3. EndTold'
    BY <2>1 DEF EndTold, Finished
  <2>4. DocumentRouted'
    BY <2>1 DEF RestInv, DocumentRouted, Routed
  <2> QED
    BY <1>5, <2>2, <2>3, <2>4
<1>9. CASE Answerability
  <2>1. node = "answerability" /\ values' = values /\ node' \in {"c7_draft", "no_expert"}
    BY <1>9 DEF Answerability, Goto
  <2>2. seg.ids = <<>> /\ ~Handed /\ ~Handed'
    BY <1>6, <2>1 DEF Handed
  <2>3. EndTold' /\ DocumentRouted'
    BY <2>1 DEF RestInv, EndTold, DocumentRouted, Routed, Finished
  <2> QED
    BY <1>5, <2>2, <2>3
<1>10. CASE (C7Draft /\ seg.resume = "none") \/ (node = "send" /\ seg.resume = "redraft" /\ Send(seg.resume))
  <2>1. /\ values' = values
        /\ \/ node = "c7_draft" /\ node' = "send" /\ seg.resume = "none"
           \/ node = "send" /\ node' = "c7_draft" /\ seg.resume = "redraft"
    BY <1>10 DEF C7Draft, Send, AfterSend, Goto
  <2>2. Handed /\ Handed'
    BY <2>1 DEF Handed, Taking, Idle
  <2>3. FallbackDue' <=> FallbackDue
    BY <2>1, SameRows
  <2>4. \A ids : InHand(ids) => InHand(ids)'
    BY <2>1, SameRows DEF InHand
  <2>5. SegmentRows'
    BY <2>1, <2>4 DEF RestInv, SegmentRows
  <2>6. HandedRows'
    BY <2>1, <2>2, <2>3, <2>4 DEF RestInv, HandedRows
  <2>7. EndTold' /\ DocumentRouted'
    BY <2>1 DEF RestInv, EndTold, DocumentRouted, Routed, Finished
  <2> QED
    BY <2>2, <2>5, <2>6, <2>7 DEF RestInv
<1>11. CASE Reroute
  <2>1. node = "reroute" /\ node' = "c6_score" /\ values'.route = values.route
    BY <1>11 DEF Reroute, Goto, AgentState
  <2>2. seg.ids = <<>> /\ ~Handed /\ ~Handed'
    BY <1>6, <2>1 DEF Handed
  <2>3. EndTold' /\ DocumentRouted'
    BY <2>1 DEF EndTold, SessionInv, GraphSafe, DocumentNeverWaits, DocumentRouted, Finished
  <2> QED
    BY <1>5, <2>2, <2>3
<1>12. CASE Terminal
  <2>1. node \in Terminals /\ node' = Finished /\ values'.route = values.route
    BY <1>12 DEF Terminal, Goto, AgentState
  <2>2. seg.ids = <<>> /\ ~Handed /\ ~Handed'
    BY <1>6, <2>1 DEF Handed, Terminals, Finished
  <2>3. EndTold' /\ DocumentRouted'
    BY <2>1 DEF RestInv, EndTold, DocumentRouted, Routed, Terminals, Finished
  <2> QED
    BY <1>5, <2>2, <2>3
<1>13. CASE Ask
  <2>1. node = "ask" /\ node' = "c1_intent" /\ values'.route = values.route
    BY <1>13 DEF Ask, Goto, AgentState
  <2>2. seg.ids = <<>> /\ ~Handed /\ ~Handed'
    BY <1>6, <2>1 DEF Handed
  <2>3. EndTold' /\ DocumentRouted'
    BY <2>1 DEF RestInv, EndTold, DocumentRouted, Routed, Finished
  <2> QED
    BY <1>5, <2>2, <2>3
<1>14. CASE seg.resume \in {"accepted", "declined"} /\ Send(seg.resume)
  <2>1. /\ node = "send" /\ values' = values /\ node' \in {"c8_update", "reroute"}
    BY <1>14 DEF Send, AfterSend, Goto
  <2>2. seg.ids = <<>> /\ ~Handed /\ ~Handed'
    BY <1>6, <1>14, <2>1 DEF Handed, Taking
  <2>3. EndTold' /\ DocumentRouted'
    BY <2>1 DEF RestInv, EndTold, DocumentRouted, Routed, Finished
  <2> QED
    BY <1>5, <2>2, <2>3
<1>15. seg.resume # "none" /\ Send(seg.resume) => node = "send" /\ seg.resume \in {"accepted", "declined", "redraft"}
  BY DEF CalmInv, Paced, Taken, Send
<1>16. Compute => \/ node \in BeforeC6
                  \/ C6Score \/ Answerability \/ C7Draft \/ Reroute \/ Terminal
  BY DEF Compute, C1Intent, C2Sufficiency, C3Embed, KnowledgeAnswer, C4Retrieve, C5Route,
    SelfAnswer, AdditiveAnswer, PriorAnswer, BeforeC6, BeforeC5
<1> QED
  BY <1>7, <1>8, <1>9, <1>10, <1>11, <1>12, <1>13, <1>14, <1>15, <1>16 DEF RunNode

\* With clients that stay, the segment goes on after an event.
LEMMA Stays ==
  ASSUME TypeOK, MaxDrops = 0, NEW local \in Segment, NEW emits, Deliver(local, emits)
  PROVE  /\ hold' = hold /\ seg'.upd = "none" /\ seg'.ids = local.ids
         /\ seg'.resume = local.resume /\ seg'.route = local.route
         /\ seg'.terminal = local.terminal
<1>1. ~(drops < MaxDrops)
  BY DEF TypeOK
<1> QED
  BY <1>1 DEF Deliver, Segment

\* An update that shows nobody new.
LEMMA ShownNobodyRest ==
  ASSUME SessionInv, CalmInv, RestInv, MaxDrops = 0, Streaming, seg.upd # "none",
         UNCHANGED <<graphVars, pending, rows>>,
         NEW local \in Segment, local.resume = seg.resume, local.ids = seg.ids,
         \/ seg.upd # "c5_route" /\ local.route = seg.route
         \/ seg.upd = "c5_route" /\ local.route = values.route
         \/ seg.upd = "knowledge_answer",
         IF seg.upd \in Terminals THEN local.terminal # "none" ELSE local.terminal = seg.terminal,
         NEW emits, Deliver(local, emits),
         seg.upd \in {"c6_score", "answerability"} => node # "c7_draft",
         seg.upd = "c7_draft" => ~FallbackDue
  PROVE  RestInv'
<1>1. /\ hold = "stream" /\ hold' = "stream" /\ seg'.upd = "none" /\ seg'.ids = seg.ids
      /\ seg'.resume = seg.resume /\ seg'.route = local.route /\ seg'.terminal = local.terminal
      /\ node' = node /\ values' = values /\ pending = Idle /\ pending' = Idle
      /\ seg.resume = "none"
  BY Stays DEF SessionInv, Streaming, graphVars, CalmInv, Paced
<1>2. Handed' <=> Handed
  BY <1>1 DEF Handed, Taking
<1>3. AtRest'
  BY <1>1 DEF AtRest, Idle
<1>4. EndTold'
  BY <1>1 DEF RestInv, EndTold
<1>5. DocumentRouted'
  <2>1. values.route = "document" => RowsOf(values.qid)' = {}
    BY <1>1 DEF RestInv, DocumentRouted, RowsOf
  <2>2. values.route = "document" /\ node \in Routed => local.route = "document"
    BY DEF RestInv, DocumentRouted
  <2> QED
    BY <1>1, <2>1, <2>2 DEF DocumentRouted
<1> QED
  BY <1>1, <1>2, <1>3, <1>4, <1>5, RestKept

\* Rows for everybody shown, when the question has none in an inbox.
LEMMA ShownAllRest ==
  ASSUME SessionInv, CalmInv, RestInv, MaxDrops = 0, Streaming,
         node \in {"c7_draft", "send"}, seg.upd \in {"c6_score", "answerability", "c7_draft"},
         seg.upd = "c7_draft" => RowsOf(values.qid) = {},
         UNCHANGED <<graphVars, pending>>, InsertAndDeliver(values.recs)
  PROVE  RestInv'
<1> DEFINE ids == NewIds(values.recs)
<1>0. /\ rows \in Seq(Row) /\ values.recs \in Seq(People) /\ values.qid \in Questions
      /\ seg \in Segment /\ rows' = rows \o NewRows(values.recs) /\ values' = values /\ node' = node
      /\ hold = "stream" /\ pending = Idle /\ pending' = Idle /\ seg.resume = "none"
      /\ values.recs # <<>> /\ values.route # "document"
  BY DEF SessionInv, TypeOK, GraphTypeOK, GraphSafe, HandoffHasCandidate, DocumentNeverWaits,
     AgentState, Numbered, Finished, InsertAndDeliver, graphVars, Streaming, CalmInv, Paced
<1>1. /\ rows' \in Seq(Row)
      /\ \A i \in DOMAIN rows : i \in DOMAIN rows' /\ rows'[i] = rows[i]
      /\ \A i \in DOMAIN rows' :
           i \notin DOMAIN rows => rows'[i].q = values.qid /\ rows'[i].outcome = "open"
      /\ RowsOf(values.qid) \subseteq RowsOf(values.qid)'
      /\ ids \in Seq(Nat) /\ Range(ids) \subseteq RowsOf(values.qid)'
  BY <1>0, Inserted
<1>2. /\ DOMAIN ids = DOMAIN values.recs
      /\ \A k \in DOMAIN values.recs :
           /\ ids[k] \in RowsOf(values.qid)'
           /\ rows'[ids[k]].person = values.recs[k] /\ rows'[ids[k]].rank = k
      /\ \A i \in DOMAIN rows' : i \in DOMAIN rows \/ i \in Range(ids)
  BY <1>0, InsertedAs
<1>3. /\ hold' = "stream" /\ seg'.upd = "none" /\ seg'.ids = ids /\ seg'.resume = "none"
  <2>1. /\ [seg EXCEPT !.ids = ids] \in Segment
        /\ [seg EXCEPT !.ids = ids].ids = ids /\ [seg EXCEPT !.ids = ids].resume = "none"
    BY <1>0, <1>1 DEF Segment
  <2> QED
    BY <1>0, <2>1, Stays DEF InsertAndDeliver, SessionInv
<1> HIDE DEF ids
<1>4. ids # <<>>
  BY <1>0, <1>2, EmptySeq, LenProperties
<1>5. Firsts = {} /\ (values.recIds = <<>> => RowsOf(values.qid) = {})
  <2>1. CASE seg.upd = "c7_draft"
    BY <2>1 DEF Firsts
  <2>2. CASE seg.upd # "c7_draft"
    <3>1. seg.ids = <<>>
      BY <2>2 DEF RestInv, SegmentRows
    <3>2. ~Handed
      BY <2>2 DEF CalmInv, Placed, Handed
    <3> QED
      BY <3>1, <3>2 DEF RestInv, FirstRows, Range
  <2> QED
    BY <2>1, <2>2
<1>6. OthersQuiet'
  BY <1>0, <1>1 DEF RestInv, OthersQuiet
<1>7. \A i \in RowsOf(values.qid)' : i \in RowsOf(values.qid) \/ i \in Range(ids)
  <2>1. \A i \in RowsOf(values.qid)' : i \in DOMAIN rows' /\ rows'[i].q = values.qid
    BY <1>0 DEF RowsOf
  <2> QED
    BY <1>1, <1>2, <2>1 DEF RowsOf
<1>8. Firsts' \subseteq Range(ids)
  <2> SUFFICES ASSUME NEW i \in Firsts', i \notin Range(ids) PROVE FALSE
    OBVIOUS
  <2>1. i \in RowsOf(values.qid) /\ rows'[i].rank = 1 /\ rows'[i].outcome = "open"
    BY <1>0, <1>7 DEF Firsts
  <2>2. rows'[i] = rows[i]
    BY <1>1, <2>1 DEF RowsOf
  <2> QED
    BY <1>5, <2>1, <2>2 DEF Firsts
<1>9. InHand(seg.ids)'
  BY <1>0, <1>2, <1>3, <1>8 DEF InHand, Batch, RankedInOrder
<1>10. Handed'
  BY <1>0, <1>3 DEF Handed, Taking, Idle
<1>11. SegmentRows' /\ HandedRows'
  BY <1>0, <1>3, <1>4, <1>9 DEF SegmentRows, HandedRows
<1>12. FirstRows'
  BY <1>0, <1>1, <1>3, <1>5, <1>7 DEF FirstRows
<1>13. AtRest' /\ EndTold' /\ DocumentRouted'
  BY <1>0, <1>3 DEF AtRest, EndTold, DocumentRouted, Idle, Finished
<1> QED
  BY <1>6, <1>10, <1>11, <1>12, <1>13 DEF RestInv

\* What _run does on a node's update.
LEMMA UpdateRest ==
  ASSUME SessionInv, CalmInv, RestInv, MaxDrops = 0, HandleUpdate
  PROVE  RestInv'
<1>1. /\ Streaming /\ UNCHANGED <<graphVars, pending>> /\ seg \in Segment /\ rows \in Seq(Row)
      /\ values \in AgentState
  BY DEF HandleUpdate, SessionInv, TypeOK, GraphTypeOK
<1>2. seg.upd # "none"
  BY DEF HandleUpdate, HandleRoute, HandleKnowledge, HandleScore, HandleVerdict, HandleDraft,
         HandleTerminal, HandleQuietly, Terminals, Nodes, InterruptNodes
<1> USE <1>1, <1>2
<1>3. ASSUME NEW emits, Deliver(seg, emits), UNCHANGED rows,
             seg.upd \notin Terminals \cup {"c5_route"},
             seg.upd \in {"c6_score", "answerability"} => node # "c7_draft",
             seg.upd = "c7_draft" => ~FallbackDue
      PROVE  RestInv'
  BY <1>3, ShownNobodyRest
<1>4. CASE HandleRoute
  <2> DEFINE l == [seg EXCEPT !.route = values.route]
  <2>1. /\ l \in Segment /\ l.resume = seg.resume /\ l.ids = seg.ids
        /\ l.route = values.route /\ l.terminal = seg.terminal
    BY DEF Segment, AgentState
  <2>2. Deliver(l, TRUE) /\ UNCHANGED rows /\ seg.upd = "c5_route"
    BY <1>4 DEF HandleRoute
  <2> HIDE DEF l
  <2> QED
    BY <2>1, <2>2, ShownNobodyRest DEF Terminals
<1>5. CASE HandleKnowledge
  <2> DEFINE l == [seg EXCEPT !.route = IF values.grounded THEN "knowledge" ELSE @]
  <2>1. l \in Segment /\ l.resume = seg.resume /\ l.ids = seg.ids /\ l.terminal = seg.terminal
    BY DEF Segment
  <2>2. Deliver(l, FALSE) /\ UNCHANGED rows /\ seg.upd = "knowledge_answer"
    BY <1>5 DEF HandleKnowledge
  <2> HIDE DEF l
  <2> QED
    BY <2>1, <2>2, ShownNobodyRest DEF Terminals
<1>6. CASE HandleTerminal
  <2> DEFINE l == [seg EXCEPT !.terminal = IF seg.upd = "c8_update" THEN "done" ELSE "message"]
  <2>1. /\ l \in Segment /\ l.resume = seg.resume /\ l.ids = seg.ids
        /\ l.route = seg.route /\ l.terminal # "none"
    BY DEF Segment
  <2>2. Deliver(l, TRUE) /\ UNCHANGED rows /\ seg.upd \in Terminals
    BY <1>6 DEF HandleTerminal
  <2> HIDE DEF l
  <2> QED
    BY <2>1, <2>2, ShownNobodyRest DEF Terminals
<1>7. CASE HandleQuietly
  <2>1. /\ UNCHANGED rows /\ Deliver(seg, seg.upd \in {"c1_intent", "additive_answer"})
        /\ seg.upd \notin Terminals \cup {"c5_route", "c6_score", "answerability", "c7_draft"}
    BY <1>7 DEF HandleQuietly, sqlVars
  <2> QED
    BY <1>3, <2>1
<1>8. CASE HandleScore
  <2>1. /\ seg.upd = "c6_score"
        /\ node \in {"document", "no_candidate", "answerability", "c7_draft"}
        /\ node = "c7_draft" => ~CriticWired
        /\ node = "document" => values.route = "document"
        /\ values.route = "document" => seg.route = "document"
        /\ node = "answerability" => CriticWired /\ values.recs # <<>>
        /\ node = "no_candidate" => values.recs = <<>>
        /\ node = "c7_draft" => seg.route # "document"
    BY <1>8
    DEF HandleScore, CalmInv, Placed, RestInv, DocumentRouted, SessionInv, GraphSafe,
      HandoffHasCandidate, DocumentNeverWaits
  <2>2. CASE seg.route = "document" \/ Deferred
    <3>1. Deliver(seg, FALSE) /\ UNCHANGED rows /\ node # "c7_draft"
      BY <1>8, <2>1, <2>2 DEF HandleScore, sqlVars, Deferred
    <3> QED
      BY <1>3, <2>1, <3>1 DEF Terminals
  <2>3. CASE ~(seg.route = "document" \/ Deferred)
    <3>1. InsertAndDeliver(values.recs) /\ node \in {"c7_draft", "no_candidate"}
      BY <1>8, <2>1, <2>3 DEF HandleScore, Deferred
    <3>2. CASE node = "c7_draft"
      BY <2>1, <3>1, <3>2, ShownAllRest
    <3>3. CASE node = "no_candidate"
      <4> DEFINE l == [seg EXCEPT !.ids = NewIds(values.recs)]
      <4>1. values.recs = <<>> /\ seg.ids = <<>>
        BY <2>1, <3>3 DEF RestInv, SegmentRows
      <4>2. NewRows(values.recs) = <<>> /\ NewIds(values.recs) = <<>>
        BY <4>1 DEF NewRows, NewIds
      <4>3. rows \o <<>> = rows
        OBVIOUS
      <4>4. UNCHANGED rows /\ Deliver(l, TRUE)
        BY <3>1, <4>2, <4>3 DEF InsertAndDeliver
      <4>5. /\ l \in Segment /\ l.resume = seg.resume /\ l.ids = seg.ids
            /\ l.route = seg.route /\ l.terminal = seg.terminal
        BY <4>1, <4>2 DEF Segment
      <4> HIDE DEF l
      <4> QED
        BY <2>1, <3>3, <4>4, <4>5, ShownNobodyRest DEF Terminals
    <3> QED
      BY <3>1, <3>2, <3>3
  <2> QED
    BY <2>2, <2>3
<1>9. CASE HandleVerdict
  <2>1. seg.upd = "answerability"
    BY <1>9 DEF HandleVerdict
  <2>2. CASE node = "c7_draft"
    BY <1>9, <2>1, <2>2, ShownAllRest DEF HandleVerdict
  <2>3. CASE node # "c7_draft"
    BY <1>3, <1>9, <2>1, <2>3 DEF HandleVerdict, sqlVars, Terminals
  <2> QED
    BY <2>2, <2>3
<1>10. CASE HandleDraft
  <2>1. seg.upd = "c7_draft" /\ node = "send" /\ hold = "stream"
    BY <1>10 DEF HandleDraft, CalmInv, Placed, Streaming
  <2>2. CASE ~(values.fallbackReq /\ values.recIds = <<>>)
    BY <1>3, <1>10, <2>1, <2>2 DEF HandleDraft, FallbackDue, sqlVars, Terminals
  <2>3. CASE values.fallbackReq /\ values.recIds = <<>> /\ RowsOf(values.qid) # {}
    <3>1. PICK ids \in DisplayOrders(values.qid) : Deliver([seg EXCEPT !.ids = ids], TRUE)
      BY <1>10, <2>3 DEF HandleDraft
    <3>2. RowsOf(values.qid) = Range(seg.ids)
      BY <2>3 DEF RestInv, FirstRows
    <3>3. seg.ids # <<>>
      BY <2>3, <3>2 DEF Range
    <3>4. RankedInOrder(seg.ids)
      BY <2>1, <3>3 DEF RestInv, SegmentRows, InHand
    <3>5. ids = seg.ids
      BY <3>2, <3>4, OneDisplayOrder DEF Segment
    <3>6. [seg EXCEPT !.ids = ids] = seg
      BY <3>5 DEF Segment
    <3>7. Deliver(seg, TRUE) /\ UNCHANGED rows /\ ~FallbackDue
      BY <1>10, <2>3, <3>1, <3>6 DEF HandleDraft, sqlVars, FallbackDue
    <3> QED
      BY <1>3, <2>1, <3>7 DEF Terminals
  <2>4. CASE values.fallbackReq /\ values.recIds = <<>> /\ RowsOf(values.qid) = {}
    <3>1. InsertAndDeliver(values.recs)
      BY <1>10, <2>4 DEF HandleDraft
    <3> QED
      BY <2>1, <2>4, <3>1, ShownAllRest
  <2> QED
    BY <2>2, <2>3, <2>4
<1> QED
  BY <1>4, <1>5, <1>6, <1>7, <1>8, <1>9, <1>10 DEF HandleUpdate

\* The invariant holds while nothing fails, nobody corrects and clients stay.
LEMMA NextRest ==
  ASSUME MaxFaults = 0, MaxCorrections = 0, MaxDrops = 0
  PROVE  SessionInv /\ CalmInv /\ RestInv /\ [Next]_vars => RestInv'
<1> SUFFICES ASSUME SessionInv, CalmInv, RestInv, [Next]_vars PROVE RestInv'
  OBVIOUS
<1>1. CASE UNCHANGED vars
  <2>1. /\ UNCHANGED <<rows, values, node, pending, hold, seg>>
    BY <1>1 DEF vars, sqlVars, graphVars
  <2>2. (Handed' <=> Handed) /\ (FallbackDue' <=> FallbackDue)
        /\ RowsOf(values.qid)' = RowsOf(values.qid)
    BY <2>1, SameRows DEF Handed, Taking
  <2>3. AtRest' /\ DocumentRouted' /\ EndTold'
    BY <2>1, <2>2 DEF RestInv, AtRest, DocumentRouted, EndTold
  <2>4. seg.ids # <<>> => hold = "stream" /\ seg.resume = "none"
                          /\ seg.upd \notin {"c6_score", "answerability"}
    BY DEF RestInv, SegmentRows
  <2> QED
    BY <2>1, <2>2, <2>3, <2>4, RestKept
<1>2. CASE RunNode
  <2>1. CalmInv'
    BY <1>2, RunCalm
  <2> QED
    BY <1>2, <2>1, RunRest
<1>3. ~Fault /\ ~Crash
  BY DEF Fault, Crash, SessionInv, TypeOK
<1> QED
  BY <1>1, <1>2, <1>3, HandlersRest, SecondStepsRest, BeginRest, UpdateRest, EndRest
  DEF Next, Stream

\* While no node, transaction or process fails, the question is not corrected and every
\* client reads its stream to the end, the inboxes show the hand-off the session waits on
\* and only it, and a question that ended can be streamed again: whatever reselections,
\* referrals, exclusions, redrafts and document fallbacks its rows went through.
THEOREM RestingAgrees ==
  ASSUME MaxFaults = 0, MaxCorrections = 0, MaxDrops = 0
  PROVE  Spec => []RestAgrees
<1>1. Init => RestInv
  BY DEF Init, GraphInit, Unwritten, Idle, NoSegment, RestInv, OthersQuiet, SegmentRows, HandedRows,
    AtRest, DocumentRouted, FirstRows, EndTold, Handed, Firsts, RowsOf, Range, Routed, Finished,
    InterruptNodes
<1>2. SessionInv /\ CalmInv /\ RestInv => RestAgrees
  <2> SUFFICES ASSUME SessionInv, CalmInv, RestInv, Settled PROVE RestAgrees
    BY DEF RestAgrees, InboxAgrees, TerminalReplayable
  <2>1. hold = "free" /\ pending = Idle /\ seg.resume = "none"
    BY DEF Settled, CalmInv, Paced
  <2>2. TerminalReplayable
    BY <2>1 DEF RestInv, EndTold, TerminalReplayable
  <2>3. ASSUME NEW q \in DOMAIN quest
        PROVE  Inbox(q) = IF node = "send" /\ q = values.qid THEN {Head(values.recs)} ELSE {}
    <3>1. CASE q # values.qid
      BY <3>1 DEF RestInv, OthersQuiet, Inbox, RowsOf
    <3>2. Inbox(values.qid) = {rows[i].person : i \in Firsts}
      BY DEF Inbox, Firsts
    <3>3. CASE q = values.qid /\ node # "send"
      <4>1. ~Handed
        BY <3>3 DEF Settled, Handed, InterruptNodes, Finished
      <4> QED
        BY <3>2, <3>3, <4>1 DEF RestInv
    <3>4. CASE q = values.qid /\ node = "send"
      <4>1. AtHandoff
        BY <2>1, <3>4 DEF AtHandoff
      <4>2. /\ InHand(values.recIds) /\ RankedInOrder(values.recIds) /\ values.recs # <<>>
            /\ DOMAIN values.recIds = DOMAIN values.recs /\ 1 \in DOMAIN values.recs
            /\ Head(values.recs) = values.recs[1]
        BY <4>1, HandoffInHand
      <4> DEFINE r == values.recIds[1]
      <4>3. r \in RowsOf(values.qid) /\ rows[r].person = Head(values.recs) /\ rows[r].rank = 1
        BY <4>2 DEF InHand, Batch, RankedInOrder
      <4>4. rows[r].outcome = "open"
        <5>1. Head(values.recs) \in Shown
          BY <4>2 DEF Shown, Range
        <5>2. ~ClosedFor(Head(values.recs))
          BY <4>1, <5>1, NothingClosing
          DEF CalmInv, OthersOpen, SessionInv, GraphSafe, ShownNotDeclined
        <5> QED
          BY <4>3, <5>2 DEF ClosedFor
      <4>5. \A i \in Firsts : i = r
        <5> SUFFICES ASSUME NEW i \in Firsts PROVE i = r
          OBVIOUS
        <5>1. PICK k \in DOMAIN values.recIds : values.recIds[k] = i
          BY <4>2 DEF InHand, Range
        <5>2. rows[i].rank = k /\ rows[i].rank = 1
          BY <4>2, <5>1 DEF RankedInOrder, Firsts
        <5> QED
          BY <5>1, <5>2
      <4> HIDE DEF r
      <4>6. Firsts = {r}
        BY <4>3, <4>4, <4>5 DEF Firsts
      <4> QED
        BY <3>2, <3>4, <4>3, <4>6
    <3> QED
      BY <3>1, <3>3, <3>4
  <2> QED
    BY <2>2, <2>3 DEF RestAgrees, InboxAgrees
<1> QED
  BY <1>1, <1>2, NextRest, CalmInvariant, PTL DEF Spec

=============================================================================
