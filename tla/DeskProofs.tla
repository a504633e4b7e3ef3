------------------------------ MODULE DeskProofs ------------------------------
(***************************************************************************)
(* Proofs about Desk and Reports.                                          *)
(*                                                                         *)
(* The desk, for any number of colleagues, rows, write-ups and crashes: no *)
(* notice is lost, a conversation stays with its two parties, a question   *)
(* has one write-up at most, of the colleague consulted, and keeps its     *)
(* first resolution; a delete goes through unless a row came behind it.    *)
(* What the bells show is decided by rank and outcome of the rows; what    *)
(* makes them complete is where the session can be while a row is open.    *)
(*                                                                         *)
(* The reports, for any questions, colleagues, months and entries, and     *)
(* whether or not the company stays within the bounds of the instance: the *)
(* dashboard, the history and the library agree, and a month that is over  *)
(* keeps its figure.  They agree because the rows they are computed from   *)
(* refer to each other as CompanyInv says: an answer and a write-up to an  *)
(* acceptance, an acceptance to a resolved question for a person.          *)
(***************************************************************************)
EXTENDS MCDesk, ListProofs

\* The candidates shown are rows, each with a rank of its own.
BatchRanked ==
  /\ batch \subseteq DOMAIN rows
  /\ \A i, j \in batch : rows[i].rank = rows[j].rank => i = j

\* An undecided first candidate is one of the hand-off that is open.
PrimariesClosed ==
  \A i \in DOMAIN rows :
    rows[i].rank = 1 /\ rows[i].outcome = "open" => i \in batch /\ OpenHandoff

QueuedWaits == queued # "none" => stage = "waiting"

\* Messages are in threads of acceptances.
ThreadRows == messages \subseteq AcceptedIds

\* Without a crash nobody can select past a decision or change the method after one.
Undisturbed ==
  crashes = 0 =>
    /\ OpenHandoff => \A i \in batch : rows[i].outcome = "open"
    /\ AcceptedIds # {} => stage = "finished" \/ queued = "accepted"
    /\ messages # {} => quest.method # "direct"
    /\ \A i \in DOMAIN rows : rows[i].outcome = "declined" => rows[i].rank = 1

DeskInv ==
  TypeOK /\ BatchRanked /\ PrimariesClosed /\ QueuedWaits /\ ThreadRows /\ Undisturbed

\* A retrospective past its checks, or stored, credits somebody who accepted.
AsksAccepted ==
  quest.exists => \A w \in WriteUps : asks[w] # None => \E i \in AcceptedIds : asks[w] = rows[i].who

WriteUpInv == AsksAccepted /\ WriteUpOfTheConsulted

\* Before anybody was asked a document may answer; afterwards none does, and an
\* acceptance resolves.
ResolvedInv ==
  /\ rows # <<>> => quest.route = "person" /\ stage \notin {"document", "reopening"}
  /\ quest.exists /\ AcceptedIds # {} => quest.resolved

\* What a delete has behind it came late or is gone: once the rows are, a message
\* can only come to a row that came late itself.
DeleteInv ==
  /\ late \subseteq Passed
  /\ deleting # 0 => quest.exists
  /\ "rows" \in Passed /\ "rows" \notin late =>
       DOMAIN rows \subseteq doomed /\ "messages" \notin late

-----------------------------------------------------------------------------
(* Rows *)

\* A function from an initial segment is a sequence.
LEMMA FunctionIsSeq ==
  ASSUME NEW S, NEW n \in Nat, NEW f \in [1..n -> S]
  PROVE  f \in Seq(S) /\ Len(f) = n
<1>1. f \in Seq(S)
  BY SeqDef
<1> QED
  BY <1>1, LenProperties

\* Ids are positions.
LEMMA RowIds ==
  ASSUME TypeOK
  PROVE  /\ Len(rows) \in Nat /\ DOMAIN rows = 1..Len(rows) /\ DOMAIN rows \subseteq Ids
         /\ \A i \in DOMAIN rows : rows[i] \in Row
         /\ MaxRows \in Nat
  BY LenProperties, ElementOfSeq, DeskAssumption DEF TypeOK, Ids

\* The first candidate shown, if there is one.
LEMMA PrimaryIs ==
  ASSUME TypeOK, BatchRanked
  PROVE  /\ Primary # 0 => Primary \in batch /\ rows[Primary].rank = 1
         /\ Primary = 0 => \A i \in batch : rows[i].rank # 1
<1>1. 0 \notin DOMAIN rows
  BY RowIds
<1> QED
  BY <1>1 DEF Primary, BatchRanked

\* Showing candidates appends open rows, ranked from one.
LEMMA Showing ==
  ASSUME TypeOK, Show
  PROVE  \E n \in Nat :
           /\ rows' \in Seq(Row) /\ Len(rows') = Len(rows) + n /\ Len(rows') <= MaxRows
           /\ \A i \in 1..Len(rows) : rows'[i] = rows[i]
           /\ \A k \in 1..n : rows'[Len(rows) + k].rank = k /\ rows'[Len(rows) + k].outcome = "open"
           /\ batch' = {Len(rows) + k : k \in 1..n}
<1>0. PICK S \in SUBSET (People \ Declined) : \E order \in Orders(S) :
        /\ Len(rows) + Len(order) <= MaxRows
        /\ rows' = rows \o [k \in DOMAIN order |->
                              [who |-> order[k], rank |-> k, outcome |-> "open"]]
        /\ batch' = {Len(rows) + k : k \in DOMAIN order}
  BY DEF Show
<1>1. PICK order \in Orders(S) :
        /\ Len(rows) + Len(order) <= MaxRows
        /\ rows' = rows \o [k \in DOMAIN order |->
                              [who |-> order[k], rank |-> k, outcome |-> "open"]]
        /\ batch' = {Len(rows) + k : k \in DOMAIN order}
  BY <1>0
<1>2. IsFiniteSet(S)
  BY DeskAssumption, FS_Subset
<1>3. PICK n \in Nat : n = Cardinality(S)
  BY <1>2, FS_CardinalityType
<1>4. order \in [1..n -> S]
  BY <1>3 DEF Orders
<1>5. DOMAIN order = 1..n /\ Len(order) = n /\ \A k \in 1..n : order[k] \in People
  BY <1>4, FunctionIsSeq
<1> DEFINE new == [k \in 1..n |-> [who |-> order[k], rank |-> k, outcome |-> "open"]]
<1>6. /\ Len(rows) \in Nat /\ rows \in Seq(Row) /\ MaxRows \in Nat
      /\ Len(rows) + n <= MaxRows
  BY <1>1, <1>5, RowIds DEF TypeOK
<1>7. new \in [1..n -> Row]
  <2>1. \A k \in 1..n : k \in Ids
    BY <1>6 DEF Ids
  <2> QED
    BY <1>5, <2>1 DEF Row
<1>8. \A k \in 1..n : new[k].rank = k /\ new[k].outcome = "open"
  OBVIOUS
<1>9. rows' = rows \o new /\ batch' = {Len(rows) + k : k \in 1..n}
  BY <1>1, <1>5
<1> HIDE DEF new
<1>10. new \in Seq(Row) /\ Len(new) = n
  BY <1>7, FunctionIsSeq
<1>11. /\ rows' \in Seq(Row) /\ Len(rows') = Len(rows) + n
       /\ \A i \in 1..(Len(rows) + n) :
            rows'[i] = IF i <= Len(rows) THEN rows[i] ELSE new[i - Len(rows)]
  BY <1>6, <1>9, <1>10, ConcatProperties
<1>12. \A i \in 1..Len(rows) : rows'[i] = rows[i]
  BY <1>6, <1>11
<1>13. ASSUME NEW k \in 1..n
       PROVE  rows'[Len(rows) + k].rank = k /\ rows'[Len(rows) + k].outcome = "open"
  <2>1. /\ Len(rows) + k \in 1..(Len(rows) + n) /\ ~(Len(rows) + k <= Len(rows))
        /\ (Len(rows) + k) - Len(rows) = k
    BY <1>6
  <2> QED
    BY <2>1, <1>8, <1>11
<1> QED
  BY <1>6, <1>9, <1>11, <1>12, <1>13

\* Reselecting permutes the ranks of the candidates shown and touches nothing else.
LEMMA Selecting ==
  ASSUME TypeOK, BatchRanked, NEW i \in batch, Select(i)
  PROVE  /\ rows' \in Seq(Row) /\ DOMAIN rows' = DOMAIN rows /\ Len(rows') = Len(rows)
         /\ \A j \in DOMAIN rows : rows'[j].who = rows[j].who /\ rows'[j].outcome = rows[j].outcome
         /\ \A j \in DOMAIN rows \ batch : rows'[j] = rows[j]
         /\ \A j \in batch : rows'[j].rank = RankAfter(i, j)
         /\ \A j, k \in batch : RankAfter(i, j) = RankAfter(i, k) => j = k
<1>1. /\ i \in DOMAIN rows /\ rows[i].rank # 1
      /\ rows' = [j \in DOMAIN rows |->
           IF j \in batch THEN [rows[j] EXCEPT !.rank = RankAfter(i, j)] ELSE rows[j]]
  BY DEF Select
<1>2. /\ \A j \in DOMAIN rows : rows[j] \in Row
      /\ Len(rows) \in Nat /\ DOMAIN rows = 1..Len(rows) /\ MaxRows \in Nat
  BY RowIds
<1>3. \A j \in DOMAIN rows : rows[j].rank \in Nat /\ 1 <= rows[j].rank /\ rows[j].rank <= MaxRows
  BY <1>2 DEF Row, Ids
<1>4. \A j \in batch : RankAfter(i, j) \in Ids
  <2> SUFFICES ASSUME NEW j \in batch PROVE RankAfter(i, j) \in Ids
    OBVIOUS
  <2>1. j \in DOMAIN rows
    BY DEF BatchRanked
  <2>2. CASE j = i
    BY <1>1, <1>2, <1>3, <2>2 DEF RankAfter, Ids
  <2>3. CASE j # i
    BY <1>1, <1>2, <1>3, <2>1, <2>3 DEF RankAfter, Ids
  <2> QED
    BY <2>2, <2>3
<1>5. \A j \in DOMAIN rows : rows'[j] \in Row /\ rows'[j].who = rows[j].who
                               /\ rows'[j].outcome = rows[j].outcome
  BY <1>1, <1>2, <1>4 DEF Row
<1>6. rows' \in Seq(Row) /\ Len(rows') = Len(rows)
  <2>1. rows' \in [1..Len(rows) -> Row]
    BY <1>1, <1>2, <1>5
  <2> QED
    BY <1>2, <2>1, FunctionIsSeq
<1>7. \A j \in batch : rows'[j].rank = RankAfter(i, j)
  BY <1>1, <1>2 DEF BatchRanked, Row
<1>8. \A j, k \in batch : RankAfter(i, j) = RankAfter(i, k) => j = k
  <2> SUFFICES ASSUME NEW j \in batch, NEW k \in batch, RankAfter(i, j) = RankAfter(i, k)
               PROVE  j = k
    OBVIOUS
  <2>1. j \in DOMAIN rows /\ k \in DOMAIN rows
    BY DEF BatchRanked
  <2>2. /\ j # i => rows[j].rank # rows[i].rank
        /\ k # i => rows[k].rank # rows[i].rank
        /\ j # k => rows[j].rank # rows[k].rank
    BY DEF BatchRanked
  <2> QED
    BY <1>1, <1>3, <2>1, <2>2 DEF RankAfter
<1> QED
  BY <1>1, <1>5, <1>6, <1>7, <1>8

\* An outcome is written on the first candidate, or was there before.
LEMMA Submitting ==
  ASSUME TypeOK, BatchRanked, NEW o \in {"accepted", "declined"}, SubmitOutcome(o)
  PROVE  /\ rows' \in Seq(Row) /\ DOMAIN rows' = DOMAIN rows /\ Len(rows') = Len(rows)
         /\ \A j \in DOMAIN rows : rows'[j].who = rows[j].who /\ rows'[j].rank = rows[j].rank
         /\ \A j \in DOMAIN rows : j # Primary => rows'[j] = rows[j]
         /\ Primary # 0 => rows'[Primary].outcome = queued'
         /\ Primary # 0 /\ rows[Primary].outcome # "open" => rows' = rows
         /\ Primary = 0 => queued' = o /\ rows' = rows
         /\ queued' \in {"accepted", "declined"}
<1>1. /\ Primary # 0 => Primary \in DOMAIN rows
      /\ rows \in Seq(Row) /\ \A j \in DOMAIN rows : rows[j] \in Row
      /\ DOMAIN rows = 1..Len(rows) /\ Len(rows) \in Nat
  BY PrimaryIs, RowIds DEF BatchRanked, TypeOK
<1>2. CASE Primary # 0 /\ rows[Primary].outcome = "open"
  <2> DEFINE p == Primary
  <2>1. /\ rows' = [rows EXCEPT ![p].outcome = o] /\ queued' = o
        /\ p \in 1..Len(rows) /\ rows[p] \in Row
    BY <1>1, <1>2 DEF SubmitOutcome
  <2> HIDE DEF p
  <2>2. [rows[p] EXCEPT !.outcome = o] \in Row
    BY <2>1 DEF Row
  <2>3. rows' = [rows EXCEPT ![p] = [rows[p] EXCEPT !.outcome = o]]
    BY <2>1
  <2>4. rows' \in Seq(Row) /\ Len(rows') = Len(rows)
    BY <1>1, <2>1, <2>2, <2>3, ExceptSeq
  <2>5. \A j \in DOMAIN rows :
          rows'[j] = IF j = p THEN [rows[p] EXCEPT !.outcome = o] ELSE rows[j]
    BY <2>3
  <2>6. /\ rows'[p].outcome = o /\ rows'[p].who = rows[p].who /\ rows'[p].rank = rows[p].rank
        /\ \A j \in DOMAIN rows : j # p => rows'[j] = rows[j]
    BY <1>1, <2>1, <2>5 DEF Row
  <2>7. DOMAIN rows' = DOMAIN rows
    BY <2>3
  <2> QED
    BY <1>2, <2>1, <2>4, <2>6, <2>7 DEF p
<1>3. CASE ~(Primary # 0 /\ rows[Primary].outcome = "open")
  <2>1. /\ rows' = rows
        /\ queued' = IF Primary = 0 THEN o ELSE rows[Primary].outcome
    BY <1>3 DEF SubmitOutcome
  <2>2. Primary # 0 => rows[Primary].outcome \in {"accepted", "declined"}
    BY <1>1, <1>3 DEF Row
  <2> QED
    BY <1>1, <2>1, <2>2
<1> QED
  BY <1>2, <1>3

-----------------------------------------------------------------------------
(* Types *)

\* The statements of a delete.
LEMMA StatementsAre ==
  /\ Len(Statements) = 7
  /\ Statements[1] = "messages" /\ Statements[2] = "feedback" /\ Statements[3] = "writeups"
  /\ Statements[4] = "answers" /\ Statements[5] = "rows" /\ Statements[6] = "events"
  /\ Statements[7] = "quest"
  BY DEF Statements

\* What is committed beside a delete leaves it well typed.
LEMMA InsertTyped ==
  ASSUME TypeOK, NEW into \in SUBSET Tables, Inserted(into)
  PROVE  late' \subseteq Tables
  BY DEF TypeOK, Inserted

\* The steps that write neither the rows nor the shown notices.
LEMMA OthersTyped ==
  ASSUME TypeOK,
         \/ Exhaust \/ AnswerByDocument \/ RequestFallback \/ ReopenQuestion \/ Resume
         \/ RecordEvents
         \/ \E method \in {"chat", "direct"} : SaveDraft(method)
         \/ \E t \in DOMAIN rows : SendMessage(t)
         \/ ResolveMyself \/ SendFeedback \/ BeginDelete
         \/ \E w \in WriteUps : CheckWriteUp(w) \/ InsertWriteUp(w)
         \/ Crash \/ UNCHANGED vars
  PROVE  TypeOK' /\ UNCHANGED <<rows, batch>>
<1>t. /\ quest \in Quest /\ asks \in [WriteUps -> People \cup {None}]
      /\ writeups \in Seq(People) /\ crashes \in 0..MaxCrashes /\ MaxCrashes \in Nat
      /\ \A i \in DOMAIN rows : rows[i].who \in People
      /\ {"feedback"} \subseteq Tables /\ {"messages"} \subseteq Tables
      /\ {"writeups"} \subseteq Tables /\ {"events"} \subseteq Tables
  BY RowIds, DeskAssumption DEF TypeOK, Row, Tables
<1>1. CASE Exhaust \/ RequestFallback \/ Resume
  BY <1>1 DEF Exhaust, RequestFallback, Resume, TypeOK, childVars, deleteVars, requestVars,
    bellVars
<1>2. CASE AnswerByDocument \/ ReopenQuestion \/ ResolveMyself
  <2>1. quest' \in Quest
    BY <1>2, <1>t DEF AnswerByDocument, ReopenQuestion, ResolveMyself, Quest
  <2> QED
    BY <1>2, <2>1 DEF AnswerByDocument, ReopenQuestion, ResolveMyself, TypeOK, sessionVars,
      childVars, deleteVars, requestVars, bellVars
<1>3. ASSUME NEW method \in {"chat", "direct"}, SaveDraft(method)
      PROVE  TypeOK' /\ UNCHANGED <<rows, batch>>
  <2>1. quest' \in Quest
    BY <1>3, <1>t DEF SaveDraft, Quest
  <2>2. feedback' \in BOOLEAN
    BY <1>3 DEF SaveDraft, TypeOK
  <2>3. late' \subseteq Tables
    <3>1. late' = late \/ Inserted({"feedback"})
      BY <1>3 DEF SaveDraft
    <3> QED
      BY <3>1, <1>t, InsertTyped DEF TypeOK
  <2> QED
    BY <1>3, <2>1, <2>2, <2>3 DEF SaveDraft, TypeOK, sessionVars, bellVars
<1>4. ASSUME NEW t \in DOMAIN rows, SendMessage(t) PROVE TypeOK' /\ UNCHANGED <<rows, batch>>
  <2>1. messages' \subseteq Ids
    BY <1>4, <1>t, RowIds DEF SendMessage, TypeOK
  <2>2. late' \subseteq Tables
    BY <1>4, <1>t, InsertTyped DEF SendMessage
  <2> QED
    BY <1>4, <2>1, <2>2 DEF SendMessage, TypeOK, sessionVars, bellVars
<1>5. CASE SendFeedback
  <2>1. late' \subseteq Tables
    BY <1>5, <1>t, InsertTyped DEF SendFeedback
  <2> QED
    BY <1>5, <2>1 DEF SendFeedback, TypeOK, sessionVars, bellVars
<1>6. CASE BeginDelete
  <2>1. deleting' \in 0..Len(Statements)
    BY <1>6, StatementsAre DEF BeginDelete
  <2> QED
    BY <1>6, <2>1 DEF BeginDelete, TypeOK, sessionVars, childVars, bellVars
<1>7. ASSUME NEW w \in WriteUps, CheckWriteUp(w) PROVE TypeOK' /\ UNCHANGED <<rows, batch>>
  <2>1. asks' \in [WriteUps -> People \cup {None}]
    BY <1>7, <1>t DEF CheckWriteUp, AcceptedIds
  <2> QED
    BY <1>7, <2>1 DEF CheckWriteUp, TypeOK, sessionVars, childVars, deleteVars, bellVars
<1>8. ASSUME NEW w \in WriteUps, InsertWriteUp(w) PROVE TypeOK' /\ UNCHANGED <<rows, batch>>
  <2>1. asks' \in [WriteUps -> People \cup {None}]
    BY <1>8, <1>t DEF InsertWriteUp
  <2>2. asks[w] \in People
    BY <1>8, <1>t DEF InsertWriteUp
  <2>3. Append(writeups, asks[w]) \in Seq(People)
    BY <2>2, <1>t, AppendProperties
  <2>4. writeups' \in Seq(People)
    BY <1>8, <2>3, <1>t DEF InsertWriteUp
  <2>5. late' \subseteq Tables
    <3>1. late' = late \/ Inserted({"writeups"})
      BY <1>8 DEF InsertWriteUp
    <3> QED
      BY <3>1, <1>t, InsertTyped DEF TypeOK
  <2> QED
    BY <1>8, <2>1, <2>4, <2>5 DEF InsertWriteUp, TypeOK, sessionVars, bellVars
<1>9. CASE Crash
  <2>1. crashes' \in 0..MaxCrashes /\ asks' \in [WriteUps -> People \cup {None}]
    BY <1>9, <1>t DEF Crash
  <2>2. deleting' \in 0..Len(Statements) /\ late' \subseteq Tables /\ doomed' \subseteq Ids
    BY <1>9, StatementsAre DEF Crash
  <2> QED
    BY <1>9, <2>1, <2>2 DEF Crash, TypeOK, childVars, bellVars
<1>10. CASE UNCHANGED vars
  BY <1>10 DEF vars, sessionVars, childVars, deleteVars, requestVars, bellVars, TypeOK
<1>11. CASE RecordEvents
  <2>1. late' \subseteq Tables
    <3>1. late' = late \/ Inserted({"events"})
      BY <1>11 DEF RecordEvents
    <3> QED
      BY <3>1, <1>t, InsertTyped DEF TypeOK
  <2> QED
    BY <1>11, <2>1 DEF RecordEvents, TypeOK, bellVars
<1> QED
  BY <1>1, <1>2, <1>3, <1>4, <1>5, <1>6, <1>7, <1>8, <1>9, <1>10, <1>11

\* What rings or is acknowledged is about rows; only what was shown is stamped.
LEMMA BellsTyped ==
  ASSUME TypeOK, BatchRanked, PrimariesClosed,
         \/ Ring(AskerBell) \/ \E p \in People : Ring(ResponderBell(p))
         \/ \E notice \in shown : Acknowledge(notice)
  PROVE  TypeOK' /\ shown \subseteq shown'
           /\ UNCHANGED <<quest, rows, sessionVars, childVars, requestVars, crashes>>
<1>t. shown \subseteq Kinds \X Ids /\ seen \subseteq shown /\ DOMAIN rows \subseteq Ids
  BY RowIds DEF TypeOK
<1>1. ASSUME NEW bell \in SUBSET (Kinds \X Ids), Ring(bell)
      PROVE  TypeOK' /\ shown \subseteq shown'
               /\ UNCHANGED <<quest, rows, sessionVars, childVars, requestVars, crashes>>
  BY <1>1 DEF Ring, TypeOK, sessionVars, childVars, deleteVars, requestVars
<1>2. AskerBell \subseteq Kinds \X Ids
  BY <1>t DEF AskerBell, AcceptedIds, Kinds
<1>3. \A p \in People : ResponderBell(p) \subseteq Kinds \X Ids
  BY <1>t DEF ResponderBell, Pending, Kinds
<1>4. ASSUME NEW notice \in shown, Acknowledge(notice)
      PROVE  TypeOK' /\ shown \subseteq shown'
               /\ UNCHANGED <<quest, rows, sessionVars, childVars, requestVars, crashes>>
  <2>1. PICK kind \in Kinds, i \in Ids : notice = <<kind, i>>
    BY <1>t
  <2>2. \A j \in Stamped(kind, i) : j = i
    <3> SUFFICES ASSUME NEW j \in Stamped(kind, i) PROVE j = i
      OBVIOUS
    <3>1. CASE kind = "request"
      <4>1. i \in DOMAIN rows /\ i \in Pending(rows[i].who) /\ j \in Pending(rows[i].who)
        BY <3>1 DEF Stamped
      <4>2. i \in batch /\ j \in batch /\ rows[i].rank = rows[j].rank
        BY <4>1 DEF Pending, PrimariesClosed
      <4> QED
        BY <4>2 DEF BatchRanked
    <3>2. CASE kind # "request"
      BY <3>2 DEF Stamped
    <3> QED
      BY <3>1, <3>2
  <2>3. seen' = seen \cup {<<kind, j>> : j \in Stamped(kind, i)}
    BY <1>4, <2>1 DEF Acknowledge
  <2>4. seen' \subseteq shown
    BY <2>1, <2>2, <2>3, <1>t
  <2> QED
    BY <1>4, <2>4 DEF Acknowledge, TypeOK, sessionVars, childVars, deleteVars, requestVars
<1> QED
  BY <1>1, <1>2, <1>3, <1>4

\* Every step keeps the types.
LEMMA NextTypes ==
  TypeOK /\ BatchRanked /\ PrimariesClosed /\ [Next]_vars => TypeOK'
<1> SUFFICES ASSUME TypeOK, BatchRanked, PrimariesClosed, [Next]_vars PROVE TypeOK'
  OBVIOUS
<1>t. /\ quest \in Quest /\ MaxRows \in Nat
      /\ rows \in Seq(Row) /\ DOMAIN rows \subseteq Ids /\ Len(rows) \in Nat
      /\ DOMAIN rows = 1..Len(rows) /\ Len(rows) <= MaxRows
  BY RowIds DEF TypeOK
<1>1. CASE Show
  <2>1. PICK n \in Nat :
           /\ rows' \in Seq(Row) /\ Len(rows') = Len(rows) + n /\ Len(rows') <= MaxRows
           /\ batch' = {Len(rows) + k : k \in 1..n}
    BY <1>1, Showing
  <2>2. batch' \subseteq Ids
    BY <2>1, <1>t DEF Ids
  <2>3. quest' \in Quest
    BY <1>1, <1>t DEF Show, Quest
  <2>4. late' \subseteq Tables
    <3>1. {"rows"} \subseteq Tables /\ Inserted({"rows"})
      BY <1>1 DEF Show, Tables
    <3> QED
      BY <3>1, InsertTyped
  <2> QED
    BY <1>1, <2>1, <2>2, <2>3, <2>4 DEF Show, TypeOK, childVars, bellVars
<1>2. ASSUME NEW i \in batch, Select(i) PROVE TypeOK'
  <2>1. rows' \in Seq(Row) /\ Len(rows') = Len(rows)
    BY <1>2, Selecting
  <2> QED
    BY <1>2, <2>1 DEF Select, TypeOK, sessionVars, childVars, deleteVars, requestVars,
      bellVars
<1>3. ASSUME NEW o \in {"accepted", "declined"}, SubmitOutcome(o) PROVE TypeOK'
  <2>1. /\ rows' \in Seq(Row) /\ Len(rows') = Len(rows)
        /\ queued' \in {"accepted", "declined"}
    BY <1>3, Submitting
  <2>2. Primary # 0 => Primary \in Ids
    BY <1>t, PrimaryIs DEF BatchRanked
  <2>3. quest' \in Quest
    BY <1>3, <1>t DEF SubmitOutcome, Quest
  <2>4. messages' \subseteq Ids
    BY <1>3, <2>2 DEF SubmitOutcome, TypeOK
  <2>5. answers' \in BOOLEAN
    BY <1>3 DEF SubmitOutcome, TypeOK
  <2>6. late' \subseteq Tables
    <3>1. late' = late \/ \E new \in SUBSET {"messages", "answers"} : Inserted(new)
      BY <1>3 DEF SubmitOutcome
    <3>2. {"messages", "answers"} \subseteq Tables
      BY DEF Tables
    <3> QED
      BY <3>1, <3>2, InsertTyped DEF TypeOK
  <2> QED
    BY <1>3, <2>1, <2>3, <2>4, <2>5, <2>6 DEF SubmitOutcome, TypeOK, bellVars
<1>4. CASE DeleteStatement
  <2>0. UNCHANGED <<stage, queued, untimed, asks, crashes>>
    BY <1>4 DEF DeleteStatement
  <2>1. CASE DeleteDone
    <3>1. quest' \in Quest
      BY <2>1, <1>t DEF DeleteDone, Quest
    <3>2. /\ rows' = <<>> /\ writeups' = <<>> /\ batch' = {} /\ messages' = {}
          /\ answers' = FALSE /\ feedback' = FALSE /\ events' = FALSE
          /\ shown' = {} /\ seen' = {} /\ deleting' = 0 /\ late' = {} /\ doomed' = {}
      BY <2>1 DEF DeleteDone
    <3>3. /\ rows' \in Seq(Row) /\ Len(rows') <= MaxRows /\ writeups' \in Seq(People)
      BY <3>2, <1>t
    <3>4. /\ batch' \subseteq Ids /\ messages' \subseteq Ids
          /\ answers' \in BOOLEAN /\ feedback' \in BOOLEAN /\ events' \in BOOLEAN
          /\ shown' \subseteq Kinds \X Ids /\ seen' \subseteq shown'
      BY <3>2
    <3>5. deleting' \in 0..Len(Statements) /\ late' \subseteq Tables /\ doomed' \subseteq Ids
      BY <3>2, StatementsAre
    <3> QED
      BY <2>0, <3>1, <3>3, <3>4, <3>5 DEF TypeOK
  <2>2. CASE ~DeleteDone
    <3>1. /\ UNCHANGED <<quest, rows, batch, childVars, bellVars>>
          /\ RollBack \/ (DeleteOn /\ deleting < Len(Statements))
      BY <1>4, <2>2 DEF DeleteStatement, RollBack, DeleteOn
    <3>2. deleting' \in 0..Len(Statements)
      BY <3>1, StatementsAre DEF RollBack, DeleteOn, TypeOK
    <3>3. late' \subseteq Tables /\ doomed' \subseteq Ids
      BY <3>1, <1>t DEF RollBack, DeleteOn, TypeOK
    <3> QED
      BY <2>0, <3>1, <3>2, <3>3 DEF TypeOK, childVars, bellVars
  <2> QED
    BY <2>1, <2>2
<1> QED
  BY <1>1, <1>2, <1>3, <1>4, OthersTyped, BellsTyped DEF Next, Session, Screens

-----------------------------------------------------------------------------
(* Where the session is while a row is open *)

\* A step that writes no row and keeps the hand-off as open as it was.
LEMMA RowsAside ==
  ASSUME DeskInv, UNCHANGED <<rows, batch, stage, queued>>,
         messages' \subseteq AcceptedIds,
         crashes' = 0 => crashes = 0 /\ (messages' # {} => quest'.method # "direct")
  PROVE  BatchRanked' /\ PrimariesClosed' /\ QueuedWaits' /\ ThreadRows' /\ Undisturbed'
<1>1. AcceptedIds' = AcceptedIds /\ OpenHandoff' = OpenHandoff
  BY DEF AcceptedIds, OpenHandoff
<1> QED
  BY <1>1 DEF DeskInv, BatchRanked, PrimariesClosed, QueuedWaits, ThreadRows, Undisturbed

\* A step of the session from where no hand-off is open to where none is.
LEMMA SessionAside ==
  ASSUME DeskInv, UNCHANGED <<rows, batch, messages, crashes>>,
         ~OpenHandoff, ~OpenHandoff',
         queued' = "none",
         stage = "finished" \/ queued = "accepted" => stage' = "finished",
         messages # {} => quest'.method = quest.method
  PROVE  BatchRanked' /\ PrimariesClosed' /\ QueuedWaits' /\ ThreadRows' /\ Undisturbed'
<1>1. AcceptedIds' = AcceptedIds
  BY DEF AcceptedIds
<1> QED
  BY <1>1 DEF DeskInv, BatchRanked, PrimariesClosed, QueuedWaits, ThreadRows, Undisturbed

\* Every step keeps the invariant.
LEMMA NextDesk == DeskInv /\ [Next]_vars => DeskInv'
<1> SUFFICES ASSUME DeskInv, [Next]_vars
             PROVE  BatchRanked' /\ PrimariesClosed' /\ QueuedWaits' /\ ThreadRows' /\ Undisturbed'
  BY NextTypes DEF DeskInv
<1>t. /\ TypeOK /\ BatchRanked /\ quest \in Quest /\ crashes \in Nat
      /\ rows \in Seq(Row) /\ Len(rows) \in Nat /\ DOMAIN rows = 1..Len(rows)
      /\ \A i \in DOMAIN rows : rows[i] \in Row
  BY RowIds, DeskAssumption DEF DeskInv, TypeOK
<1>1. CASE Show
  <2>1. PICK n \in Nat :
           /\ rows' \in Seq(Row) /\ Len(rows') = Len(rows) + n
           /\ \A i \in 1..Len(rows) : rows'[i] = rows[i]
           /\ \A k \in 1..n : /\ rows'[Len(rows) + k].rank = k
                              /\ rows'[Len(rows) + k].outcome = "open"
           /\ batch' = {Len(rows) + k : k \in 1..n}
    BY <1>1, <1>t, Showing
  <2>2. DOMAIN rows' = 1..(Len(rows) + n)
    BY <2>1, LenProperties
  <2>3. /\ stage = "running" /\ queued = "none" /\ stage' = "waiting" /\ queued' = "none"
        /\ UNCHANGED <<messages, crashes>> /\ quest'.method = quest.method
    BY <1>1, <1>t DEF Show, childVars, DeskInv, QueuedWaits, Quest
  <2>4. ~OpenHandoff /\ OpenHandoff'
    BY <2>3 DEF OpenHandoff
  <2>5. ASSUME NEW i \in DOMAIN rows', i \notin DOMAIN rows
        PROVE  \E k \in 1..n : i = Len(rows) + k
    <3>1. i - Len(rows) \in 1..n /\ i = Len(rows) + (i - Len(rows))
      BY <2>2, <2>5, <1>t
    <3> QED
      BY <3>1
  <2>6. \A i \in DOMAIN rows' : i \in DOMAIN rows \/ (i \in batch' /\ rows'[i].outcome = "open")
    BY <2>1, <2>5
  <2>7. BatchRanked'
    <3>1. batch' \subseteq DOMAIN rows'
      BY <2>1, <2>2, <1>t
    <3>2. ASSUME NEW i \in batch', NEW j \in batch', rows'[i].rank = rows'[j].rank
          PROVE  i = j
      <4>1. PICK k \in 1..n : i = Len(rows) + k
        BY <2>1
      <4>2. PICK l \in 1..n : j = Len(rows) + l
        BY <2>1
      <4> QED
        BY <2>1, <3>2, <4>1, <4>2
    <3> QED
      BY <3>1, <3>2 DEF BatchRanked
  <2>8. PrimariesClosed'
    <3>1. \A i \in DOMAIN rows : rows[i].rank = 1 => rows[i].outcome # "open"
      BY <2>4 DEF DeskInv, PrimariesClosed
    <3>2. \A i \in DOMAIN rows : rows'[i] = rows[i]
      BY <2>1, <1>t
    <3> QED
      BY <2>4, <2>6, <3>1, <3>2 DEF PrimariesClosed
  <2>9. AcceptedIds' = AcceptedIds
    <3>1. \A i \in DOMAIN rows : i \in DOMAIN rows' /\ rows'[i] = rows[i]
      BY <2>1, <2>2, <1>t
    <3> QED
      BY <2>6, <3>1 DEF AcceptedIds
  <2>10. \A i \in batch' : rows'[i].outcome = "open"
    BY <2>1
  <2>11. \A i \in DOMAIN rows' : rows'[i].outcome = "declined" => i \in DOMAIN rows /\ rows'[i] = rows[i]
    BY <2>1, <2>6, <1>t
  <2>12. Undisturbed'
    BY <2>3, <2>9, <2>10, <2>11 DEF DeskInv, Undisturbed
  <2>13. ThreadRows' /\ QueuedWaits'
    BY <2>3, <2>9 DEF DeskInv, ThreadRows, QueuedWaits
  <2> QED
    BY <2>7, <2>8, <2>12, <2>13
<1>2. ASSUME NEW i \in batch, Select(i)
      PROVE  BatchRanked' /\ PrimariesClosed' /\ QueuedWaits' /\ ThreadRows' /\ Undisturbed'
  <2>1. /\ DOMAIN rows' = DOMAIN rows
        /\ \A j \in DOMAIN rows : rows'[j].outcome = rows[j].outcome
        /\ \A j \in DOMAIN rows \ batch : rows'[j] = rows[j]
        /\ \A j \in batch : rows'[j].rank = RankAfter(i, j)
        /\ \A j, k \in batch : RankAfter(i, j) = RankAfter(i, k) => j = k
    BY <1>2, <1>t, Selecting
  <2>2. OpenHandoff /\ UNCHANGED <<batch, stage, queued, messages, crashes, quest>>
    BY <1>2 DEF Select, sessionVars, childVars
  <2>3. OpenHandoff' /\ AcceptedIds' = AcceptedIds
    BY <2>1, <2>2 DEF OpenHandoff, AcceptedIds
  <2>4. BatchRanked' /\ PrimariesClosed' /\ QueuedWaits' /\ ThreadRows'
    BY <2>1, <2>2, <2>3 DEF DeskInv, BatchRanked, PrimariesClosed, QueuedWaits, ThreadRows
  <2>5. ASSUME crashes = 0, NEW j \in DOMAIN rows', rows'[j].outcome = "declined"
        PROVE  rows'[j].rank = 1
    <3>1. j \notin batch
      BY <2>1, <2>2, <2>5 DEF DeskInv, Undisturbed
    <3> QED
      BY <2>1, <2>5, <3>1 DEF DeskInv, Undisturbed
  <2>6. Undisturbed'
    BY <2>1, <2>2, <2>3, <2>5, <1>t DEF DeskInv, Undisturbed, BatchRanked
  <2> QED
    BY <2>4, <2>6
<1>3. ASSUME NEW o \in {"accepted", "declined"}, SubmitOutcome(o)
      PROVE  BatchRanked' /\ PrimariesClosed' /\ QueuedWaits' /\ ThreadRows' /\ Undisturbed'
  <2>1. /\ DOMAIN rows' = DOMAIN rows
        /\ \A j \in DOMAIN rows : rows'[j].rank = rows[j].rank
        /\ \A j \in DOMAIN rows : j # Primary => rows'[j] = rows[j]
        /\ Primary # 0 => rows'[Primary].outcome = queued'
        /\ Primary # 0 /\ rows[Primary].outcome # "open" => rows' = rows
        /\ Primary = 0 => queued' = o /\ rows' = rows
        /\ queued' \in {"accepted", "declined"}
    BY <1>3, <1>t, Submitting
  <2>2. OpenHandoff /\ UNCHANGED <<batch, stage, crashes>> /\ ~OpenHandoff'
    BY <1>3, <2>1 DEF SubmitOutcome, OpenHandoff
  <2>3. /\ Primary # 0 => Primary \in batch /\ rows[Primary].rank = 1
        /\ Primary = 0 => \A i \in batch : rows[i].rank # 1
    BY <1>t, PrimaryIs
  <2>4. BatchRanked'
    BY <2>1, <2>2, <1>t DEF BatchRanked
  <2>5. PrimariesClosed'
    <3>1. ASSUME NEW i \in DOMAIN rows', rows'[i].rank = 1, rows'[i].outcome = "open" PROVE FALSE
      <4>1. i # Primary
        BY <2>1, <3>1, <1>t
      <4>2. rows[i].rank = 1 /\ rows[i].outcome = "open" /\ i \in DOMAIN rows
        BY <2>1, <3>1, <4>1
      <4>3. i \in batch
        BY <4>2 DEF DeskInv, PrimariesClosed
      <4>4. Primary # 0 /\ Primary \in batch /\ rows[Primary].rank = rows[i].rank
        BY <2>3, <4>2, <4>3
      <4> QED
        BY <4>1, <4>3, <4>4, <1>t DEF BatchRanked
    <3> QED
      BY <3>1 DEF PrimariesClosed
  <2>6. QueuedWaits'
    BY <2>2 DEF QueuedWaits, OpenHandoff
  <2>7. \A i \in AcceptedIds : i \in AcceptedIds'
    BY <2>1 DEF AcceptedIds
  <2>8. ThreadRows'
    <3>1. CASE messages' = messages
      BY <2>7, <3>1 DEF DeskInv, ThreadRows
    <3>2. CASE messages' # messages
      <4>1. Primary # 0 /\ o = "accepted" /\ queued' = o /\ messages' = messages \cup {Primary}
        BY <1>3, <3>2 DEF SubmitOutcome
      <4>2. Primary \in AcceptedIds'
        BY <2>1, <2>3, <4>1, <1>t DEF AcceptedIds, BatchRanked
      <4> QED
        BY <2>7, <4>1, <4>2 DEF DeskInv, ThreadRows
    <3> QED
      BY <3>1, <3>2
  <2>9. Undisturbed'
    <3> SUFFICES ASSUME crashes = 0
                 PROVE  /\ AcceptedIds' # {} => queued' = "accepted"
                        /\ messages' # {} => quest'.method # "direct"
                        /\ \A i \in DOMAIN rows' : rows'[i].outcome = "declined" => rows'[i].rank = 1
      BY <2>2 DEF Undisturbed
    <3>1. AcceptedIds = {} /\ messages = {} /\ \A i \in batch : rows[i].outcome = "open"
      BY <2>2 DEF DeskInv, Undisturbed, OpenHandoff, ThreadRows
    <3>2. AcceptedIds' # {} => queued' = "accepted"
      BY <2>1, <3>1 DEF AcceptedIds
    <3>3. messages' # {} => quest'.method # "direct"
      BY <1>3, <3>1, <1>t DEF SubmitOutcome, Quest
    <3>4. \A i \in DOMAIN rows' : rows'[i].outcome = "declined" => rows'[i].rank = 1
      BY <2>1, <2>3 DEF DeskInv, Undisturbed
    <3> QED
      BY <3>2, <3>3, <3>4
  <2> QED
    BY <2>4, <2>5, <2>6, <2>8, <2>9
<1>4. CASE DeleteStatement
  <2>0. UNCHANGED <<stage, queued, crashes>>
    BY <1>4 DEF DeleteStatement
  <2>1. CASE DeleteDone
    <3>1. rows' = <<>> /\ messages' = {} /\ batch' = {}
      BY <2>1 DEF DeleteDone
    <3>2. DOMAIN rows' = {} /\ AcceptedIds' = {}
      BY <3>1 DEF AcceptedIds
    <3> QED
      BY <2>0, <3>1, <3>2 DEF DeskInv, BatchRanked, PrimariesClosed, QueuedWaits, ThreadRows,
        Undisturbed
  <2>2. CASE ~DeleteDone
    <3>1. UNCHANGED <<quest, rows, batch, childVars>>
      BY <1>4, <2>2 DEF DeleteStatement, RollBack, DeleteOn
    <3> QED
      BY <2>0, <3>1, RowsAside DEF childVars, DeskInv, ThreadRows, Undisturbed
  <2> QED
    BY <2>1, <2>2
<1>5. CASE Exhaust \/ RequestFallback \/ AnswerByDocument \/ ReopenQuestion \/ Resume
  <2>1. UNCHANGED <<rows, batch, messages, crashes>> /\ quest'.method = quest.method
    BY <1>5, <1>t DEF Exhaust, RequestFallback, AnswerByDocument, ReopenQuestion, Resume,
      childVars, Quest
  <2>2. /\ ~OpenHandoff /\ ~OpenHandoff' /\ queued' = "none"
        /\ stage = "finished" \/ queued = "accepted" => stage' = "finished"
    BY <1>5 DEF Exhaust, RequestFallback, AnswerByDocument, ReopenQuestion, Resume,
      OpenHandoff, DeskInv, QueuedWaits
  <2> QED
    BY <2>1, <2>2, SessionAside
<1>6. ASSUME NEW method \in {"chat", "direct"}, SaveDraft(method)
      PROVE  BatchRanked' /\ PrimariesClosed' /\ QueuedWaits' /\ ThreadRows' /\ Undisturbed'
  <2>1. /\ UNCHANGED <<rows, batch, stage, queued, messages, crashes>> /\ OpenHandoff
    BY <1>6 DEF SaveDraft, sessionVars
  <2>2. crashes = 0 => messages = {}
    BY <2>1 DEF DeskInv, Undisturbed, OpenHandoff, ThreadRows
  <2> QED
    BY <2>1, <2>2, RowsAside DEF DeskInv, ThreadRows
<1>7. ASSUME NEW t \in DOMAIN rows, SendMessage(t)
      PROVE  BatchRanked' /\ PrimariesClosed' /\ QueuedWaits' /\ ThreadRows' /\ Undisturbed'
  <2>1. /\ UNCHANGED <<rows, batch, stage, queued, crashes, quest>>
        /\ messages' = messages \cup {t} /\ t \in AcceptedIds /\ quest.method # "direct"
    BY <1>7 DEF SendMessage, IsThread, sessionVars
  <2> QED
    BY <2>1, RowsAside DEF DeskInv, ThreadRows
<1>8. CASE ResolveMyself \/ SendFeedback \/ BeginDelete \/ RecordEvents
             \/ \E w \in WriteUps : CheckWriteUp(w) \/ InsertWriteUp(w)
  <2>1. /\ UNCHANGED <<rows, batch, stage, queued, messages, crashes>>
        /\ quest'.method = quest.method
    BY <1>8, <1>t DEF ResolveMyself, SendFeedback, BeginDelete, RecordEvents, CheckWriteUp,
      InsertWriteUp, sessionVars, childVars, Quest
  <2> QED
    BY <2>1, RowsAside DEF DeskInv, ThreadRows, Undisturbed
<1>9. CASE \/ Ring(AskerBell) \/ \E p \in People : Ring(ResponderBell(p))
           \/ \E notice \in shown : Acknowledge(notice)
  <2>1. UNCHANGED <<quest, rows, batch, stage, queued, messages, crashes>>
    BY <1>9, BellsTyped DEF DeskInv, sessionVars, childVars
  <2> QED
    BY <2>1, RowsAside DEF DeskInv, ThreadRows, Undisturbed
<1>10. CASE Crash
  <2>1. /\ UNCHANGED <<rows, batch, messages>> /\ queued' = "none" /\ crashes' = crashes + 1
        /\ stage = "waiting" => stage' = "waiting"
    BY <1>10 DEF Crash, childVars
  <2>2. AcceptedIds' = AcceptedIds /\ (OpenHandoff => OpenHandoff') /\ crashes' # 0
    BY <2>1, <1>t DEF AcceptedIds, OpenHandoff
  <2> QED
    BY <2>1, <2>2 DEF DeskInv, BatchRanked, PrimariesClosed, QueuedWaits, ThreadRows, Undisturbed
<1>11. CASE UNCHANGED vars
  BY <1>11, RowsAside DEF vars, sessionVars, childVars, DeskInv, ThreadRows, Undisturbed
<1> QED
  BY <1>1, <1>2, <1>3, <1>4, <1>5, <1>6, <1>7, <1>8, <1>9, <1>10, <1>11
     DEF Next, Session, Screens

\* The invariant holds in every run.
LEMMA SpecDesk == Spec => []DeskInv
<1>1. Init => DeskInv
  <2> SUFFICES ASSUME Init PROVE DeskInv
    OBVIOUS
  <2>1. quest \in Quest
    BY DEF Init, Quest
  <2>2. rows = <<>> /\ writeups = <<>> /\ rows \in Seq(Row) /\ writeups \in Seq(People)
    BY DEF Init
  <2>3. DOMAIN rows = {} /\ Len(rows) = 0
    BY <2>2
  <2>t. crashes \in 0..MaxCrashes /\ Len(rows) <= MaxRows /\ asks \in [WriteUps -> People \cup {None}]
    BY <2>3, DeskAssumption DEF Init
  <2>d. deleting \in 0..Len(Statements) /\ late \subseteq Tables /\ doomed \subseteq Ids
    BY StatementsAre DEF Init
  <2>b. answers \in BOOLEAN /\ feedback \in BOOLEAN /\ events \in BOOLEAN /\ untimed \in BOOLEAN
    BY DEF Init
  <2>4. TypeOK
    BY <2>1, <2>2, <2>t, <2>d, <2>b DEF Init, TypeOK
  <2>5. AcceptedIds = {}
    BY <2>3 DEF AcceptedIds
  <2> QED
    BY <2>3, <2>4, <2>5 DEF Init, DeskInv, BatchRanked, PrimariesClosed, QueuedWaits, ThreadRows,
      Undisturbed
<1> QED
  BY <1>1, NextDesk, PTL DEF Spec

-----------------------------------------------------------------------------
(* The write-up *)

\* Whoever accepted stays the one who accepted, until the question is deleted.
LEMMA AcceptedStay ==
  ASSUME DeskInv, [Next]_vars, ~(DeleteStatement /\ DeleteDone)
  PROVE  /\ \A i \in AcceptedIds : i \in AcceptedIds' /\ rows'[i].who = rows[i].who
         /\ quest'.exists => quest.exists
<1>t. /\ TypeOK /\ BatchRanked /\ PrimariesClosed /\ quest \in Quest
      /\ rows \in Seq(Row) /\ Len(rows) \in Nat /\ DOMAIN rows = 1..Len(rows)
  BY RowIds DEF DeskInv, TypeOK
<1>1. CASE Show
  <2>1. PICK n \in Nat :
           /\ rows' \in Seq(Row) /\ Len(rows') = Len(rows) + n
           /\ \A i \in 1..Len(rows) : rows'[i] = rows[i]
    BY <1>1, <1>t, Showing
  <2>2. DOMAIN rows' = 1..(Len(rows) + n)
    BY <2>1, LenProperties
  <2>3. \A i \in DOMAIN rows : i \in DOMAIN rows' /\ rows'[i] = rows[i]
    BY <2>1, <2>2, <1>t
  <2> QED
    BY <1>1, <2>3 DEF Show, AcceptedIds
<1>2. ASSUME NEW i \in batch, Select(i)
      PROVE  /\ \A j \in AcceptedIds : j \in AcceptedIds' /\ rows'[j].who = rows[j].who
             /\ quest'.exists => quest.exists
  BY <1>2, <1>t, Selecting DEF AcceptedIds, Select
<1>3. ASSUME NEW o \in {"accepted", "declined"}, SubmitOutcome(o)
      PROVE  /\ \A j \in AcceptedIds : j \in AcceptedIds' /\ rows'[j].who = rows[j].who
             /\ quest'.exists => quest.exists
  <2>1. \A j \in AcceptedIds : j \in AcceptedIds' /\ rows'[j].who = rows[j].who
    BY <1>3, <1>t, Submitting DEF AcceptedIds
  <2>2. quest'.exists = quest.exists
    BY <1>3, <1>t DEF SubmitOutcome, Quest
  <2> QED
    BY <2>1, <2>2
<1>4. CASE UNCHANGED rows /\ quest'.exists = quest.exists
  BY <1>4 DEF AcceptedIds
<1>5. CASE DeleteStatement
  <2>1. UNCHANGED <<quest, rows>>
    BY <1>5 DEF DeleteStatement, RollBack, DeleteOn
  <2> QED
    BY <2>1, <1>4
<1>6. CASE \/ Ring(AskerBell) \/ \E p \in People : Ring(ResponderBell(p))
           \/ \E notice \in shown : Acknowledge(notice)
  <2>1. UNCHANGED <<quest, rows>>
    BY <1>6, <1>t, BellsTyped
  <2> QED
    BY <2>1, <1>4
<1>7. CASE \/ Exhaust \/ AnswerByDocument \/ RequestFallback \/ ReopenQuestion \/ Resume
           \/ RecordEvents
           \/ \E method \in {"chat", "direct"} : SaveDraft(method)
           \/ \E t \in DOMAIN rows : SendMessage(t)
           \/ ResolveMyself \/ SendFeedback \/ BeginDelete
           \/ \E w \in WriteUps : CheckWriteUp(w) \/ InsertWriteUp(w)
           \/ Crash \/ UNCHANGED vars
  <2>1. UNCHANGED rows
    BY <1>7, <1>t, OthersTyped
  <2>2. quest'.exists = quest.exists
    BY <1>7, <1>t DEF Exhaust, AnswerByDocument, RequestFallback, ReopenQuestion, Resume,
      RecordEvents, SaveDraft, SendMessage, ResolveMyself, SendFeedback, BeginDelete,
      CheckWriteUp, InsertWriteUp, Crash, vars, Quest
  <2> QED
    BY <2>1, <2>2, <1>4
<1> QED
  BY <1>1, <1>2, <1>3, <1>5, <1>6, <1>7 DEF Next, Session, Screens

\* Only the two steps of the request write to the request or to the write-ups.
LEMMA WriteUpsAside ==
  ASSUME DeskInv, [Next]_vars, ~DeleteStatement, \A w \in WriteUps : ~CheckWriteUp(w) /\ ~InsertWriteUp(w)
  PROVE  writeups' = writeups /\ (asks' = asks \/ asks' = [w \in WriteUps |-> None])
<1>1. CASE \/ Ring(AskerBell) \/ \E p \in People : Ring(ResponderBell(p))
           \/ \E notice \in shown : Acknowledge(notice)
  BY <1>1, BellsTyped DEF DeskInv, childVars, requestVars
<1>2. CASE Session
  BY <1>2 DEF Session, Show, Exhaust, AnswerByDocument, RequestFallback, ReopenQuestion, Resume,
    RecordEvents, SaveDraft, Select, SubmitOutcome, childVars, requestVars
<1>3. CASE \/ ResolveMyself \/ SendFeedback \/ BeginDelete \/ Crash \/ UNCHANGED vars
           \/ \E t \in DOMAIN rows : SendMessage(t)
  BY <1>3 DEF SendMessage, ResolveMyself, SendFeedback, BeginDelete, Crash, vars, childVars,
    requestVars
<1> QED
  BY <1>1, <1>2, <1>3 DEF Next, Screens

\* Every step keeps the credit where it belongs.
LEMMA NextWriteUp == DeskInv /\ WriteUpInv /\ [Next]_vars => WriteUpInv'
<1> SUFFICES ASSUME DeskInv, AsksAccepted, WriteUpOfTheConsulted, [Next]_vars PROVE WriteUpInv'
  BY DEF WriteUpInv
<1>t. writeups \in Seq(People) /\ asks \in [WriteUps -> People \cup {None}] /\ quest \in Quest
  BY DEF DeskInv, TypeOK
<1>1. CASE DeleteStatement /\ DeleteDone
  <2>1. writeups' = <<>> /\ quest'.exists = FALSE
    BY <1>1, <1>t DEF DeleteDone, Quest
  <2> QED
    BY <2>1 DEF WriteUpInv, AsksAccepted, WriteUpOfTheConsulted, Written
<1>2. CASE ~(DeleteStatement /\ DeleteDone)
  <2>1. /\ \A i \in AcceptedIds : i \in AcceptedIds' /\ rows'[i].who = rows[i].who
        /\ quest'.exists => quest.exists
    BY <1>2, AcceptedStay
  <2>2. CASE writeups' = writeups /\ (asks' = asks \/ asks' = [w \in WriteUps |-> None])
    <3>1. WriteUpOfTheConsulted'
      BY <2>1, <2>2 DEF WriteUpOfTheConsulted, Written
    <3>2. AsksAccepted'
      BY <2>1, <2>2 DEF AsksAccepted
    <3> QED
      BY <3>1, <3>2 DEF WriteUpInv
  <2>3. ASSUME NEW w \in WriteUps, CheckWriteUp(w) PROVE WriteUpInv'
    <3>1. PICK i \in AcceptedIds : asks' = [asks EXCEPT ![w] = rows[i].who]
      BY <2>3 DEF CheckWriteUp
    <3>2. writeups' = writeups
      BY <2>3 DEF CheckWriteUp, childVars
    <3>3. WriteUpOfTheConsulted'
      BY <2>1, <3>2 DEF WriteUpOfTheConsulted, Written
    <3>4. AsksAccepted'
      BY <2>1, <3>1, <1>t DEF AsksAccepted
    <3> QED
      BY <3>3, <3>4 DEF WriteUpInv
  <2>4. ASSUME NEW w \in WriteUps, InsertWriteUp(w) PROVE WriteUpInv'
    <3>1. asks[w] # None /\ asks' = [asks EXCEPT ![w] = None]
      BY <2>4 DEF InsertWriteUp
    <3>2. AsksAccepted'
      BY <2>1, <3>1, <1>t DEF AsksAccepted
    <3>3. CASE Recordable
      <4>1. PICK i \in AcceptedIds : asks[w] = rows[i].who
        BY <3>1, <3>3 DEF AsksAccepted, Recordable
      <4>2. writeups = <<>> /\ writeups' = Append(writeups, asks[w])
        BY <2>4, <3>3 DEF InsertWriteUp, Recordable, Written
      <4>3. Len(writeups') = 1 /\ writeups'[1] = asks[w]
        BY <4>2
      <4>4. writeups'[1] = rows'[i].who /\ i \in AcceptedIds'
        BY <2>1, <4>1, <4>3
      <4> QED
        BY <3>2, <4>3, <4>4 DEF WriteUpInv, WriteUpOfTheConsulted
    <3>4. CASE ~Recordable
      <4>1. writeups' = writeups
        BY <2>4, <3>4 DEF InsertWriteUp
      <4>2. WriteUpOfTheConsulted'
        BY <2>1, <4>1 DEF WriteUpOfTheConsulted, Written
      <4> QED
        BY <3>2, <4>2 DEF WriteUpInv
    <3> QED
      BY <3>3, <3>4
  <2>5. CASE DeleteStatement
    <3>1. UNCHANGED writeups /\ UNCHANGED asks
      BY <1>2, <2>5 DEF DeleteStatement, RollBack, DeleteOn, childVars
    <3> QED
      BY <3>1, <2>2
  <2> QED
    BY <2>2, <2>3, <2>4, <2>5, WriteUpsAside
<1> QED
  BY <1>1, <1>2

-----------------------------------------------------------------------------
(* What the asker and the colleagues are promised *)

\* What two people had of each other stays theirs: the write-up, at most one, is of
\* a colleague who accepted (create_offline_consult), and without a crash every
\* thread that holds messages is listed for both its parties (threads_for_employee).
THEOREM ConsultationsAreKept == Spec => []ConsultationKept
<1>1. Init => WriteUpInv
  <2> SUFFICES ASSUME Init PROVE WriteUpInv
    OBVIOUS
  <2>1. \A w \in WriteUps : asks[w] = None
    BY DEF Init
  <2> QED
    BY <2>1 DEF Init, WriteUpInv, AsksAccepted, WriteUpOfTheConsulted, Written
<1>2. DeskInv => ThreadStays
  <2> SUFFICES ASSUME DeskInv, crashes = 0, NEW t \in messages
               PROVE  t \in ThreadsOf("asker") \cap ThreadsOf(rows[t].who)
    BY DEF ThreadStays
  <2>1. t \in AcceptedIds /\ quest.method # "direct"
    BY DEF DeskInv, ThreadRows, Undisturbed
  <2> QED
    BY <2>1 DEF ThreadsOf
<1>3. DeskInv /\ WriteUpInv => ConsultationKept
  BY <1>2 DEF ConsultationKept, DeskInv, WriteUpInv
<1> QED
  BY <1>1, <1>3, SpecDesk, NextWriteUp, PTL DEF Spec

\* Every decision reaches the asker's bell and every open request the bell of its
\* responder, whatever was acknowledged or reselected in between: a decline keeps
\* its first place, and no two requests are pending at once.
THEOREM NoticesReachTheirReaders == Spec => []NoNoticeLost
<1>1. DeskInv => NoNoticeLost
  <2> SUFFICES ASSUME DeskInv PROVE NoNoticeLost
    OBVIOUS
  <2>t. /\ TypeOK /\ BatchRanked /\ PrimariesClosed /\ seen \subseteq shown
        /\ \A i \in DOMAIN rows : rows[i] \in Row
    BY RowIds DEF DeskInv, TypeOK
  <2>1. ASSUME crashes = 0, NEW i \in DOMAIN rows, rows[i].outcome # "open"
        PROVE  <<rows[i].outcome, i>> \in AskerBell \cup shown
    <3>1. CASE rows[i].outcome = "accepted"
      BY <2>1, <3>1, <2>t DEF AskerBell, AcceptedIds, Unseen
    <3>2. CASE rows[i].outcome = "declined"
      <4>1. rows[i].rank = 1
        BY <2>1, <3>2 DEF DeskInv, Undisturbed
      <4> QED
        BY <2>1, <3>2, <4>1, <2>t DEF AskerBell, Unseen
    <3> QED
      BY <2>1, <3>1, <3>2, <2>t DEF Row
  <2>2. ASSUME OpenHandoff, Primary # 0, rows[Primary].outcome = "open"
        PROVE  <<"request", Primary>> \in ResponderBell(rows[Primary].who) \cup shown
    <3> DEFINE p == Primary  who == rows[Primary].who
    <3>1. p \in batch /\ rows[p].rank = 1 /\ p \in DOMAIN rows
      BY <2>2, <2>t, PrimaryIs DEF BatchRanked
    <3>2. p \in Pending(who)
      BY <2>2, <3>1 DEF Pending
    <3>3. \A i \in Pending(who) : i = p
      <4> SUFFICES ASSUME NEW i \in Pending(who) PROVE i = p
        OBVIOUS
      <4>1. i \in batch /\ rows[i].rank = rows[p].rank
        BY <3>1, <2>t DEF Pending, PrimariesClosed
      <4> QED
        BY <3>1, <4>1, <2>t DEF BatchRanked
    <3>4. p \in Nat
      BY <3>1, RowIds, <2>t
    <3> HIDE DEF p, who
    <3>5. <<"request", p>> \in ResponderBell(who) \cup shown
      <4>1. CASE Unseen("request", p)
        <5> DEFINE ids == {i \in Pending(who) : Unseen("request", i)}
        <5>1. p \in ids /\ \A k \in ids : k <= p
          BY <3>2, <3>3, <3>4, <4>1
        <5>2. ResponderBell(who) = {<<"request", i>> : i \in {j \in ids : \A k \in ids : k <= j}}
          BY DEF ResponderBell
        <5> HIDE DEF ids
        <5> QED
          BY <5>1, <5>2
      <4>2. CASE ~Unseen("request", p)
        BY <4>2, <2>t DEF Unseen
      <4> QED
        BY <4>1, <4>2
    <3> QED
      BY <3>5 DEF p, who
  <2> QED
    BY <2>1, <2>2 DEF NoNoticeLost
<1> QED
  BY <1>1, SpecDesk, PTL

-----------------------------------------------------------------------------
(* The resolution *)

\* Every step keeps what the row says of the resolution in line with the answers.
LEMMA NextResolved == DeskInv /\ ResolvedInv /\ [Next]_vars => ResolvedInv'
<1> SUFFICES ASSUME DeskInv, ResolvedInv, [Next]_vars PROVE ResolvedInv'
  OBVIOUS
<1>t. /\ TypeOK /\ BatchRanked /\ PrimariesClosed /\ quest \in Quest
      /\ rows \in Seq(Row) /\ Len(rows) \in Nat /\ DOMAIN rows = 1..Len(rows)
  BY RowIds DEF DeskInv, TypeOK
<1>0. rows = <<>> => AcceptedIds = {}
  BY DEF AcceptedIds
<1>1. CASE Show
  <2>1. PICK n \in Nat :
           /\ rows' \in Seq(Row) /\ Len(rows') = Len(rows) + n
           /\ \A i \in 1..Len(rows) : rows'[i] = rows[i]
           /\ \A k \in 1..n : rows'[Len(rows) + k].outcome = "open"
    BY <1>1, <1>t, Showing
  <2>2. DOMAIN rows' = 1..(Len(rows) + n)
    BY <2>1, LenProperties
  <2>3. ASSUME NEW i \in AcceptedIds' PROVE i \in AcceptedIds
    <3>1. i \in 1..(Len(rows) + n) /\ rows'[i].outcome = "accepted"
      BY <2>2 DEF AcceptedIds
    <3>2. CASE i \in 1..Len(rows)
      BY <2>1, <3>1, <3>2, <1>t DEF AcceptedIds
    <3>3. CASE i \notin 1..Len(rows)
      <4>1. i - Len(rows) \in 1..n /\ i = Len(rows) + (i - Len(rows))
        BY <3>1, <3>3, <1>t
      <4> QED
        BY <2>1, <3>1, <4>1
    <3> QED
      BY <3>2, <3>3
  <2>4. /\ quest'.route = "person" /\ quest'.exists = quest.exists
        /\ quest'.resolved = quest.resolved /\ stage' = "waiting"
    BY <1>1, <1>t DEF Show, Quest
  <2> QED
    BY <2>3, <2>4 DEF ResolvedInv
<1>2. ASSUME NEW i \in batch, Select(i) PROVE ResolvedInv'
  <2>1. rows' \in Seq(Row) /\ DOMAIN rows' = DOMAIN rows /\ Len(rows') = Len(rows)
    BY <1>2, <1>t, Selecting
  <2>2. AcceptedIds' = AcceptedIds
    BY <1>2, <1>t, Selecting DEF AcceptedIds
  <2>3. rows' # <<>> => rows # <<>>
    BY <2>1
  <2> QED
    BY <1>2, <2>2, <2>3 DEF Select, sessionVars, ResolvedInv
<1>3. ASSUME NEW o \in {"accepted", "declined"}, SubmitOutcome(o) PROVE ResolvedInv'
  <2>1. /\ rows' \in Seq(Row) /\ DOMAIN rows' = DOMAIN rows /\ Len(rows') = Len(rows)
        /\ \A j \in DOMAIN rows : j # Primary => rows'[j] = rows[j]
        /\ Primary # 0 => rows'[Primary].outcome = queued'
    BY <1>3, <1>t, Submitting
  <2>2. rows' # <<>> => rows # <<>>
    BY <2>1
  <2>3. /\ quest'.route = quest.route /\ quest'.exists = quest.exists /\ stage' = stage
        /\ quest.resolved => quest'.resolved
    BY <1>3, <1>t DEF SubmitOutcome, Quest
  <2>4. CASE Primary # 0 /\ rows[Primary].outcome = "open"
    <3>1. queued' = o /\ (o = "accepted" => quest'.resolved)
      BY <1>3, <2>4, <1>t DEF SubmitOutcome, Quest
    <3>2. o = "declined" => AcceptedIds' \subseteq AcceptedIds
      BY <2>1, <2>4, <3>1 DEF AcceptedIds
    <3> QED
      BY <2>2, <2>3, <3>1, <3>2 DEF ResolvedInv
  <2>5. CASE ~(Primary # 0 /\ rows[Primary].outcome = "open")
    <3>1. UNCHANGED <<quest, rows>> /\ AcceptedIds' = AcceptedIds
      BY <1>3, <2>5 DEF SubmitOutcome, AcceptedIds
    <3> QED
      BY <2>3, <3>1 DEF ResolvedInv
  <2> QED
    BY <2>4, <2>5
<1>4. CASE UNCHANGED <<rows, quest>> /\ stage' \in {stage, "running", "waiting", "finished"}
  <2>1. AcceptedIds' = AcceptedIds
    BY <1>4 DEF AcceptedIds
  <2> QED
    BY <1>4, <2>1 DEF ResolvedInv
<1>5. CASE DeleteStatement
  <2>1. CASE DeleteDone
    <3>1. rows' = <<>> /\ AcceptedIds' = {}
      BY <2>1 DEF DeleteDone, AcceptedIds
    <3> QED
      BY <3>1 DEF ResolvedInv
  <2>2. CASE ~DeleteDone
    BY <1>5, <2>2, <1>4 DEF DeleteStatement, RollBack, DeleteOn
  <2> QED
    BY <2>1, <2>2
<1>6. CASE RequestFallback \/ AnswerByDocument \/ ReopenQuestion
  <2>1. rows = <<>> /\ rows' = <<>>
    BY <1>6 DEF RequestFallback, AnswerByDocument, ReopenQuestion, ResolvedInv
  <2>2. AcceptedIds' = {}
    BY <2>1 DEF AcceptedIds
  <2> QED
    BY <2>1, <2>2 DEF ResolvedInv
<1>7. ASSUME NEW method \in {"chat", "direct"}, SaveDraft(method) PROVE ResolvedInv'
  <2>1. /\ UNCHANGED <<rows, stage>> /\ quest'.route = quest.route
        /\ quest'.exists = quest.exists /\ quest'.resolved = quest.resolved
    BY <1>7, <1>t DEF SaveDraft, sessionVars, Quest
  <2>2. AcceptedIds' = AcceptedIds
    BY <2>1 DEF AcceptedIds
  <2> QED
    BY <2>1, <2>2 DEF ResolvedInv
<1>8. CASE ResolveMyself
  <2>1. UNCHANGED <<rows, stage>> /\ quest'.route = quest.route /\ quest'.resolved
    BY <1>8, <1>t DEF ResolveMyself, sessionVars, Quest
  <2> QED
    BY <2>1 DEF ResolvedInv
<1>9. CASE \/ Ring(AskerBell) \/ \E p \in People : Ring(ResponderBell(p))
           \/ \E notice \in shown : Acknowledge(notice)
  <2>1. UNCHANGED <<quest, rows, stage>>
    BY <1>9, <1>t, BellsTyped DEF sessionVars
  <2> QED
    BY <2>1, <1>4
<1>10. CASE \/ Exhaust \/ Resume \/ RecordEvents \/ SendFeedback \/ BeginDelete \/ Crash
            \/ \E t \in DOMAIN rows : SendMessage(t)
            \/ \E w \in WriteUps : CheckWriteUp(w) \/ InsertWriteUp(w)
            \/ UNCHANGED vars
  <2>1. UNCHANGED <<rows, quest>> /\ stage' \in {stage, "running", "waiting", "finished"}
    BY <1>10 DEF Exhaust, Resume, RecordEvents, SendFeedback, BeginDelete, Crash, SendMessage,
      CheckWriteUp, InsertWriteUp, vars, sessionVars
  <2> QED
    BY <2>1, <1>4
<1> QED
  BY <1>1, <1>2, <1>3, <1>5, <1>6, <1>7, <1>8, <1>9, <1>10 DEF Next, Session, Screens

\* A question keeps the resolution it had first (mark_question_resolved and
\* mark_self_resolved, first-wins): after an acceptance neither a click nor a
\* fallback that was under way changes it, whatever crashes and deletes fall between.
THEOREM ResolutionsStand == Spec => ResolutionStands
<1>1. Init => ResolvedInv
  <2> SUFFICES ASSUME Init PROVE ResolvedInv
    OBVIOUS
  <2>1. rows = <<>> /\ AcceptedIds = {}
    BY DEF Init, AcceptedIds
  <2> QED
    BY <2>1 DEF ResolvedInv
<1>2. ASSUME DeskInv, ResolvedInv, [Next]_vars, quest.exists, quest'.exists
      PROVE  /\ AcceptedIds # {} => quest.resolved /\ quest'.resolved /\ quest'.self = quest.self
             /\ quest.resolved => quest'.resolved \/ rows = <<>>
  <2>t. TypeOK /\ BatchRanked /\ PrimariesClosed /\ quest \in Quest
    BY <1>2 DEF DeskInv, TypeOK
  <2>1. rows = <<>> => AcceptedIds = {}
    BY DEF AcceptedIds
  <2>2. ASSUME rows # <<>>, quest.resolved PROVE quest'.resolved /\ quest'.self = quest.self
    <3>0. /\ quest.route = "person" /\ stage \notin {"document", "reopening"}
      BY <1>2, <2>2 DEF ResolvedInv
    <3>1. CASE Session
      <4>1. CASE Show \/ Exhaust \/ Resume \/ RecordEvents
        BY <2>2, <2>t, <4>1 DEF Show, Exhaust, Resume, RecordEvents, Quest
      <4>2. CASE AnswerByDocument \/ RequestFallback \/ ReopenQuestion
        BY <3>0, <4>2 DEF AnswerByDocument, RequestFallback, ReopenQuestion
      <4>3. CASE \/ \E method \in {"chat", "direct"} : SaveDraft(method)
                 \/ \E i \in batch : Select(i)
        BY <2>2, <2>t, <4>3 DEF SaveDraft, Select, Quest
      <4>4. CASE \E o \in {"accepted", "declined"} : SubmitOutcome(o)
        BY <2>2, <2>t, <4>4 DEF SubmitOutcome, Quest
      <4> QED
        BY <3>1, <4>1, <4>2, <4>3, <4>4 DEF Session
    <3>2. CASE DeleteStatement
      <4>1. ~DeleteDone
        BY <1>2, <2>t DEF DeleteDone, Quest
      <4> QED
        BY <2>2, <3>2, <4>1 DEF DeleteStatement, RollBack, DeleteOn
    <3>3. CASE ResolveMyself
      BY <2>2, <3>3 DEF ResolveMyself, Unresolved
    <3>4. CASE \/ Ring(AskerBell) \/ \E p \in People : Ring(ResponderBell(p))
               \/ \E notice \in shown : Acknowledge(notice)
      BY <2>2, <2>t, <3>4, BellsTyped
    <3>5. CASE \/ SendFeedback \/ BeginDelete \/ Crash
               \/ \E t \in DOMAIN rows : SendMessage(t)
               \/ \E w \in WriteUps : CheckWriteUp(w) \/ InsertWriteUp(w)
               \/ UNCHANGED vars
      BY <2>2, <3>5 DEF SendFeedback, BeginDelete, Crash, SendMessage, CheckWriteUp,
        InsertWriteUp, vars
    <3> QED
      BY <1>2, <3>1, <3>2, <3>3, <3>4, <3>5 DEF Next, Screens
  <2> QED
    BY <1>2, <2>1, <2>2 DEF ResolvedInv
<1>3. DeskInv /\ ResolvedInv /\ [Next]_vars =>
        [quest.exists /\ quest'.exists =>
           /\ AcceptedIds # {} => quest.resolved /\ quest'.resolved /\ quest'.self = quest.self
           /\ quest.resolved => quest'.resolved \/ rows = <<>>]_vars
  BY <1>2
<1> QED
  BY <1>1, <1>3, SpecDesk, NextResolved, PTL DEF Spec, ResolutionStands

-----------------------------------------------------------------------------
(* The delete *)

\* Which tables a delete has behind it.
LEMMA PassedAre ==
  ASSUME TypeOK
  PROVE  /\ deleting \in 0..7
         /\ "messages" \in Passed <=> deleting > 1
         /\ "feedback" \in Passed <=> deleting > 2
         /\ "writeups" \in Passed <=> deleting > 3
         /\ "answers" \in Passed <=> deleting > 4
         /\ "rows" \in Passed <=> deleting > 5
         /\ "events" \in Passed <=> deleting > 6
<1>1. deleting \in 0..7
  BY StatementsAre DEF TypeOK
<1>2. ASSUME NEW t PROVE t \in Passed <=> \E k \in 1..(deleting - 1) : Statements[k] = t
  BY DEF Passed
<1>3. \A k \in 1..(deleting - 1) : k \in {1, 2, 3, 4, 5, 6}
  BY <1>1
<1> QED
  BY <1>1, <1>2, <1>3, StatementsAre

\* What is committed beside a delete, which may have passed its table.
LEMMA DeleteAside ==
  ASSUME DeleteInv, NEW into,
         UNCHANGED <<deleting, doomed>>, Inserted(into),
         quest'.exists = quest.exists, DOMAIN rows' = DOMAIN rows,
         "messages" \in into => \E t \in DOMAIN rows : t \notin doomed
  PROVE  DeleteInv'
<1>1. Passed' = Passed
  BY DEF Passed
<1>2. late \subseteq late' /\ late' \subseteq late \cup Passed
      /\ ("messages" \in late' => "messages" \in late \/ "messages" \in into)
  BY DEF Inserted
<1> QED
  BY <1>1, <1>2 DEF DeleteInv

\* Every step keeps the account of what came late.
LEMMA NextDelete == DeskInv /\ DeleteInv /\ [Next]_vars => DeleteInv'
<1> SUFFICES ASSUME DeskInv, DeleteInv, [Next]_vars PROVE DeleteInv'
  OBVIOUS
<1>t. /\ TypeOK /\ BatchRanked /\ PrimariesClosed /\ quest \in Quest
      /\ DOMAIN rows \subseteq Ids /\ 0 \notin DOMAIN rows
  BY RowIds DEF DeskInv, TypeOK
<1>0. CASE UNCHANGED deleteVars /\ quest'.exists = quest.exists /\ DOMAIN rows' = DOMAIN rows
  <2>1. Inserted({})
    BY <1>0 DEF Inserted, deleteVars
  <2> QED
    BY <1>0, <2>1, DeleteAside DEF deleteVars
<1>1. CASE Show
  <2>1. UNCHANGED <<deleting, doomed>> /\ Inserted({"rows"}) /\ quest'.exists = quest.exists
    BY <1>1, <1>t DEF Show, Quest
  <2>2. Passed' = Passed /\ late' \subseteq Passed
    BY <2>1 DEF Passed, Inserted, DeleteInv
  <2>3. "rows" \in Passed => "rows" \in late'
    BY <2>1 DEF Inserted
  <2> QED
    BY <2>1, <2>2, <2>3 DEF DeleteInv
<1>2. ASSUME NEW i \in batch, Select(i) PROVE DeleteInv'
  <2>1. DOMAIN rows' = DOMAIN rows
    BY <1>2, <1>t, Selecting
  <2> QED
    BY <1>0, <1>2, <2>1 DEF Select, requestVars
<1>3. ASSUME NEW o \in {"accepted", "declined"}, SubmitOutcome(o) PROVE DeleteInv'
  <2>1. /\ DOMAIN rows' = DOMAIN rows /\ UNCHANGED <<deleting, doomed>>
    BY <1>3, <1>t, Submitting DEF SubmitOutcome
  <2>2. quest'.exists = quest.exists
    BY <1>3, <1>t DEF SubmitOutcome, Quest
  <2>3. CASE Primary # 0 /\ rows[Primary].outcome = "open"
    <3>1. PICK new \in SUBSET {"messages", "answers"} : Inserted(new)
      BY <1>3, <2>3 DEF SubmitOutcome
    <3>2. Primary \in DOMAIN rows /\ Primary \notin doomed
      BY <1>3, <2>3, <1>t, PrimaryIs DEF SubmitOutcome, BatchRanked
    <3> QED
      BY <2>1, <2>2, <3>1, <3>2, DeleteAside
  <2>4. CASE ~(Primary # 0 /\ rows[Primary].outcome = "open")
    <3>1. UNCHANGED late
      BY <1>3, <2>4 DEF SubmitOutcome
    <3> QED
      BY <1>0, <2>1, <2>2, <3>1 DEF deleteVars
  <2> QED
    BY <2>3, <2>4
<1>4. CASE deleting' = 0 /\ late' = {}
  <2>1. Passed' = {}
    BY <1>4 DEF Passed
  <2> QED
    BY <1>4, <2>1 DEF DeleteInv
<1>5. CASE DeleteStatement
  <2>1. CASE Refused \/ ~(deleting < Len(Statements))
    BY <1>4, <1>5, <2>1 DEF DeleteStatement, RollBack, DeleteDone
  <2>2. CASE ~Refused /\ deleting < Len(Statements)
    <3>1. /\ deleting # 0 /\ deleting \in 0..7 /\ deleting < 7 /\ deleting' = deleting + 1
          /\ UNCHANGED <<late, quest, rows>>
          /\ doomed' = IF Statements[deleting] = "rows" THEN DOMAIN rows ELSE doomed
      BY <1>5, <2>2, <1>t, PassedAre, StatementsAre DEF DeleteStatement, DeleteOn
    <3>2. Passed \subseteq Passed'
      <4>1. 1..(deleting - 1) \subseteq 1..(deleting' - 1)
        BY <3>1
      <4> QED
        BY <4>1 DEF Passed
    <3>3. quest.exists
      BY <3>1 DEF DeleteInv
    <3>4. ASSUME "rows" \in Passed', "rows" \notin late'
          PROVE  DOMAIN rows' \subseteq doomed' /\ "messages" \notin late'
      <4>1. PICK k \in 1..(deleting' - 1) : Statements[k] = "rows"
        BY <3>4 DEF Passed
      <4>2. deleting >= 5
        <5>1. k \in {1, 2, 3, 4, 5, 6}
          BY <3>1, <4>1
        <5>2. k = 5
          BY <4>1, <5>1, StatementsAre
        <5> QED
          BY <3>1, <4>1, <5>2
      <4>3. CASE deleting = 5
        <5>1. Statements[deleting] = "rows"
          BY <4>3, StatementsAre
        <5>2. <<"messages", Statements[deleting]>> \in References /\ "messages" \in Tables
          BY <5>1 DEF References, Tables
        <5>3. "messages" \notin late
          BY <2>2, <5>2 DEF Refused, Left
        <5> QED
          BY <3>1, <5>1, <5>3
      <4>4. CASE deleting > 5
        <5>1. "rows" \in Passed /\ Statements[deleting] # "rows"
          BY <3>1, <4>4, <1>t, PassedAre, StatementsAre
        <5> QED
          BY <3>1, <3>4, <5>1 DEF DeleteInv
      <4> QED
        BY <3>1, <4>2, <4>3, <4>4
    <3> QED
      BY <3>1, <3>2, <3>3, <3>4 DEF DeleteInv
  <2> QED
    BY <2>1, <2>2
<1>6. CASE Crash
  BY <1>4, <1>6 DEF Crash
<1>7. CASE BeginDelete
  <2>1. deleting = 0 /\ deleting' = 1 /\ UNCHANGED <<late, quest>> /\ quest.exists
    BY <1>7 DEF BeginDelete
  <2>2. Passed = {} /\ Passed' = {}
    BY <2>1 DEF Passed
  <2> QED
    BY <2>1, <2>2 DEF DeleteInv
<1>8. ASSUME NEW method \in {"chat", "direct"}, SaveDraft(method) PROVE DeleteInv'
  <2>1. UNCHANGED <<rows, deleting, doomed>> /\ quest'.exists = quest.exists
    BY <1>8, <1>t DEF SaveDraft, Quest
  <2>2. UNCHANGED late \/ Inserted({"feedback"})
    BY <1>8 DEF SaveDraft
  <2> QED
    BY <1>0, <2>1, <2>2, DeleteAside DEF deleteVars
<1>9. CASE SendFeedback \/ RecordEvents \/ \E w \in WriteUps : InsertWriteUp(w)
  <2>1. UNCHANGED <<quest, rows, deleting, doomed>>
    BY <1>9 DEF SendFeedback, RecordEvents, InsertWriteUp
  <2>2. UNCHANGED late \/ \E t \in {"feedback", "events", "writeups"} : Inserted({t})
    BY <1>9 DEF SendFeedback, RecordEvents, InsertWriteUp
  <2> QED
    BY <1>0, <2>1, <2>2, DeleteAside DEF deleteVars
<1>10. ASSUME NEW t \in DOMAIN rows, SendMessage(t) PROVE DeleteInv'
  BY <1>10, DeleteAside DEF SendMessage
<1>11. CASE \/ Ring(AskerBell) \/ \E p \in People : Ring(ResponderBell(p))
            \/ \E notice \in shown : Acknowledge(notice)
  <2>1. UNCHANGED <<quest, rows, requestVars>>
    BY <1>11, <1>t, BellsTyped
  <2> QED
    BY <1>0, <2>1 DEF requestVars
<1>12. CASE \/ Exhaust \/ AnswerByDocument \/ RequestFallback \/ ReopenQuestion \/ Resume
            \/ ResolveMyself \/ \E w \in WriteUps : CheckWriteUp(w)
            \/ UNCHANGED vars
  <2>1. UNCHANGED <<rows, deleteVars>> /\ quest'.exists = quest.exists
    BY <1>12, <1>t DEF Exhaust, AnswerByDocument, RequestFallback, ReopenQuestion, Resume,
      ResolveMyself, CheckWriteUp, vars, requestVars, Quest
  <2> QED
    BY <1>0, <2>1
<1> QED
  BY <1>1, <1>2, <1>3, <1>5, <1>6, <1>7, <1>8, <1>9, <1>10, <1>11, <1>12
     DEF Next, Session, Screens

\* delete_question goes through, whatever was recorded about the question, unless a
\* row was recorded behind the statement that deletes from its table: every foreign
\* key is served before its parent goes, and only then.
THEOREM DeletesSucceed == Spec => DeleteSucceeds
<1>1. Init => DeleteInv
  <2> SUFFICES ASSUME Init PROVE DeleteInv
    OBVIOUS
  <2>1. Passed = {}
    BY DEF Init, Passed
  <2> QED
    BY <2>1 DEF Init, DeleteInv
<1>2. ASSUME DeskInv, DeleteInv, DeleteStatement, deleting' = 0
      PROVE  quest'.exists <=> late # {}
  <2>t. TypeOK /\ quest \in Quest /\ deleting # 0 /\ quest.exists /\ deleting \in 0..7
    BY <1>2, PassedAre DEF DeskInv, TypeOK, DeleteStatement, DeleteInv
  <2>1. CASE Refused
    <3>1. PICK t \in Tables : <<t, Statements[deleting]>> \in References /\ Left(t)
      BY <2>1 DEF Refused
    <3>2. \/ t = "messages" /\ Statements[deleting] = "rows"
          \/ t \in {"writeups", "answers", "rows", "events", "feedback"} /\ Statements[deleting] = "quest"
      BY <3>1 DEF References
    <3>3. \/ t = "messages" /\ deleting = 5
          \/ t \in {"writeups", "answers", "rows", "events", "feedback"} /\ deleting = 7
      BY <2>t, <3>2, StatementsAre
    <3>4. t \in Passed
      BY <2>t, <3>3, PassedAre
    <3>5. quest' = quest
      BY <1>2, <2>1 DEF DeleteStatement, RollBack
    <3> QED
      BY <2>t, <3>1, <3>4, <3>5 DEF Left
  <2>2. CASE ~Refused
    <3>1. DeleteDone /\ deleting = 7
      BY <1>2, <2>t, <2>2, StatementsAre DEF DeleteStatement, DeleteOn
    <3>2. \A t \in {"writeups", "answers", "rows", "events", "feedback"} : t \notin late
      <4> SUFFICES ASSUME NEW t \in {"writeups", "answers", "rows", "events", "feedback"}
                   PROVE  t \notin late
        OBVIOUS
      <4>1. Statements[deleting] = "quest"
        BY <3>1, StatementsAre
      <4>2. <<t, Statements[deleting]>> \in References /\ t \in Tables
        BY <4>1 DEF References, Tables
      <4> QED
        BY <2>2, <4>2 DEF Refused, Left
    <3>3. "rows" \in Passed
      BY <2>t, <3>1, PassedAre
    <3>4. "messages" \notin late
      <4>1. "rows" \notin late
        BY <3>2
      <4> QED
        BY <1>2, <3>3, <4>1 DEF DeleteInv
    <3>5. late = {}
      BY <2>t, <3>2, <3>4 DEF TypeOK, Tables
    <3>6. quest'.exists = FALSE
      BY <3>1, <2>t DEF DeleteDone, Quest
    <3> QED
      BY <3>5, <3>6
  <2> QED
    BY <2>1, <2>2
<1>3. DeskInv /\ DeleteInv =>
        [DeleteStatement /\ deleting' = 0 => (quest'.exists <=> late # {})]_vars
  BY <1>2
<1> QED
  BY <1>1, <1>3, SpecDesk, NextDelete, PTL DEF Spec, DeleteSucceeds

-----------------------------------------------------------------------------
(* The reports: months *)

\* Months counted through.
Index(m) == m[1] * 12 + (m[2] - 1)

\* Their order is that of the numbers.
LEMMA MonthsOrdered ==
  ASSUME NEW a \in Months, NEW b \in Months
  PROVE  /\ Index(a) \in Int
         /\ AtLeast(a, b) <=> Index(a) >= Index(b)
         /\ Index(a) = Index(b) => a = b
<1>1. /\ a = <<a[1], a[2]>> /\ a[1] \in Int /\ a[2] \in 1..12
      /\ b = <<b[1], b[2]>> /\ b[1] \in Int /\ b[2] \in 1..12
  BY DEF Months
<1>2. Index(a) = Index(b) => a[1] = b[1] /\ a[2] = b[2]
  <2>1. \A y, z \in Int, k, l \in 1..12 :
          y * 12 + (k - 1) = z * 12 + (l - 1) => y = z /\ k = l
    OBVIOUS
  <2> QED
    BY <1>1, <2>1 DEF Index
<1>3. AtLeast(a, b) <=> Index(a) >= Index(b)
  BY <1>1 DEF Index, AtLeast
<1> QED
  BY <1>1, <1>2, <1>3 DEF Index

\* n months back is n less.
LEMMA MonthsBackIs ==
  ASSUME NEW m \in Months, NEW n \in Nat
  PROVE  MonthsBack(m, n) \in Months /\ Index(MonthsBack(m, n)) = Index(m) - n
<1> DEFINE total == m[1] * 12 + (m[2] - 1) - n
<1>1. m[1] \in Int /\ m[2] \in 1..12
  BY DEF Months
<1>2. total \in Int /\ Index(m) - n = total
  BY <1>1 DEF Index
<1>3. MonthsBack(m, n) = <<total \div 12, (total % 12) + 1>>
  BY DEF MonthsBack
<1> HIDE DEF total
<1>4. /\ total \div 12 \in Int /\ total % 12 \in 0..11
      /\ total = (total \div 12) * 12 + (total % 12)
  BY <1>2
<1>5. (total % 12) + 1 \in 1..12
  BY <1>4
<1> QED
  BY <1>2, <1>3, <1>4, <1>5 DEF Months, Index

LEMMA NextMonthIs ==
  ASSUME NEW m \in Months
  PROVE  NextMonth(m) \in Months /\ Index(NextMonth(m)) = Index(m) + 1
<1>1. m[1] \in Int /\ m[2] \in 1..12
  BY DEF Months
<1>2. CASE m[2] = 12
  BY <1>1, <1>2 DEF NextMonth, Months, Index
<1>3. CASE m[2] # 12
  BY <1>1, <1>3 DEF NextMonth, Months, Index
<1> QED
  BY <1>2, <1>3

\* The buckets of the trend are the last six months.
LEMMA BucketsAre ==
  ASSUME today \in Months
  PROVE  /\ Cardinality(Buckets) = 6 /\ Buckets \subseteq Months
         /\ today \in Buckets /\ MonthsBack(today, 1) \in Buckets
<1> DEFINE f == [n \in 0..5 |-> MonthsBack(today, n)]
<1>1. \A n \in 0..5 : f[n] \in Months /\ Index(f[n]) = Index(today) - n /\ Index(today) \in Int
  BY MonthsBackIs, MonthsOrdered
<1>2. \A n, k \in 0..5 : f[n] = f[k] => n = k
  BY <1>1
<1>3. Buckets = {f[n] : n \in 0..5}
  BY DEF Buckets
<1>4. IsFiniteSet(0..5) /\ Cardinality(0..5) = 6
  <2> DEFINE i == 0
             j == 5
  <2>1. i \in Int /\ j \in Int /\ i = 0 /\ j = 5
    OBVIOUS
  <2> HIDE DEF f, i, j
  <2>2. IsFiniteSet(i..j) /\ Cardinality(i..j) = IF i > j THEN 0 ELSE j - i + 1
    BY <2>1, FS_Interval
  <2> QED
    BY <2>1, <2>2
<1>5. today = f[0]
  <2>1. f[0] \in Months /\ Index(f[0]) = Index(today)
    BY <1>1
  <2> QED
    BY <2>1, MonthsOrdered
<1>6. MonthsBack(today, 1) = f[1]
  OBVIOUS
<1> HIDE DEF f
<1>7. Cardinality({f[n] : n \in 0..5}) = 6
  <2> DEFINE S == 0..5
  <2>1. IsFiniteSet(S) /\ Cardinality(S) = 6 /\ (\A n, k \in S : f[n] = f[k] => n = k)
    BY <1>2, <1>4
  <2> HIDE DEF S
  <2>2. Cardinality({f[n] : n \in S}) = 6
    BY <2>1, FiniteImage
  <2> QED
    BY <2>2 DEF S
<1> QED
  BY <1>1, <1>3, <1>5, <1>6, <1>7

-----------------------------------------------------------------------------
(* The reports: rows *)

IdsUnique(T) == \A x, y \in T : x.id = y.id => x = y

QuestionRows ==
  /\ IsFiniteSet(asked) /\ IdsUnique(asked)
  /\ asked \subseteq [id : Questions \cup {0}, route : {"person", "document", Unset},
                      status : {"open", "answered"}, kind : {"self", Unset},
                      resolved : Months \cup {Unset}]

\* Nobody is asked the same twice.
HandoffRows ==
  /\ IsFiniteSet(handoffs) /\ IdsUnique(handoffs)
  /\ handoffs \subseteq [id : Nat \ {0}, q : Questions, who : Staff, rank : {1},
                         outcome : {Unset, "accepted", "declined"}, shown : Months]
  /\ \A g, h \in handoffs : g.q = h.q /\ g.who = h.who => g = h

AnswerRows ==
  /\ IsFiniteSet(written) /\ IdsUnique(written)
  /\ written \subseteq [id : Nat, q : Questions \cup {0}, who : Staff, at : Months]

ConsultRows ==
  /\ IsFiniteSet(consults)
  /\ consults \subseteq [q : Questions, who : Staff, at : Months,
                         resolution : {"resolved", "unresolved"}]
  /\ \A c, d \in consults : c.q = d.q => c = d

LibraryRows ==
  /\ IsFiniteSet(docs) /\ IdsUnique(docs) /\ docs \subseteq [id : Nat, at : Months]
  /\ IsFiniteSet(cases) /\ IdsUnique(cases)
  /\ cases \subseteq [id : Nat, at : Months, status : {"unreviewed", "approved", "rejected"}]

\* An answer is the seeded one or that of its acceptance, a write-up that of one.
RecordsTraced ==
  /\ \A a \in written :
       \/ a.id = 0 /\ a.q = 0
       \/ \E h \in handoffs :
            h.outcome = "accepted" /\ h.id = a.id /\ h.q = a.q /\ h.who = a.who
  /\ \A c \in consults : \E h \in handoffs : h.outcome = "accepted" /\ h.q = c.q /\ h.who = c.who

\* Only a question for a person is handed off, and an acceptance resolves it.
HandoffsTraced ==
  \A h \in handoffs :
    \E x \in asked : x.id = h.q /\ x.route = "person" /\ (h.outcome = "accepted" => x.resolved # Unset)

\* Whatever ends a question without a person leaves its time.
QuestionsSettled ==
  /\ \A x \in asked : /\ x.status = "answered" => x.id = 0
                      /\ x.id = 0 => x.route = Unset
                      /\ x.kind = "self" \/ x.route = "document" => x.resolved # Unset
  /\ \E a \in written : a.q = 0

\* Nothing is dated later than today.
RecordsTimely ==
  /\ today \in Months
  /\ \A a \in written : Index(a.at) <= Index(today)
  /\ \A c \in consults : Index(c.at) <= Index(today)

CompanyInv ==
  /\ QuestionRows /\ HandoffRows /\ AnswerRows /\ ConsultRows /\ LibraryRows
  /\ RecordsTraced /\ HandoffsTraced /\ QuestionsSettled /\ RecordsTimely

\* A new id is higher than the others.
LEMMA FreshIs ==
  ASSUME NEW T, IsFiniteSet(T), \A x \in T : x.id \in Nat
  PROVE  Fresh(T) \in Nat \ {0} /\ \A x \in T : x.id # Fresh(T)
<1> DEFINE f == [x \in T |-> x.id]
           ids == {f[x] : x \in T}
           all == ids \cup {0}
<1>1. IsFiniteSet(ids)
  BY FiniteImage
<1>2. ids = {x.id : x \in T}
  OBVIOUS
<1>3. IsFiniteSet(all) /\ all # {} /\ all \subseteq Nat /\ all \subseteq Int
  BY <1>1, FS_AddElement
<1>4. Fresh(T) = Max(all) + 1
  BY <1>2 DEF Fresh
<1>5. \A x \in T : x.id \in all
  OBVIOUS
<1> HIDE DEF all, ids, f
<1>6. \E x \in all : \A y \in all : x >= y
  BY <1>3, HasGreatest
<1>7. Max(all) \in all /\ \A y \in all : Max(all) >= y
  BY <1>6 DEF Max
<1> DEFINE top == Max(all)
<1>8. top \in Nat /\ Fresh(T) = top + 1 /\ \A x \in T : top >= x.id /\ x.id \in Nat
  BY <1>3, <1>4, <1>5, <1>7
<1> HIDE DEF top
<1> QED
  BY <1>8

\* A row with a new id, and a row instead of one with its id.
LEMMA RowAdded ==
  ASSUME NEW T, IsFiniteSet(T), IdsUnique(T), NEW y, \A x \in T : x.id # y.id
  PROVE  IsFiniteSet(T \cup {y}) /\ IdsUnique(T \cup {y})
BY FS_AddElement DEF IdsUnique

LEMMA RowChanged ==
  ASSUME NEW T, IsFiniteSet(T), IdsUnique(T), NEW x \in T, NEW y, y.id = x.id
  PROVE  IsFiniteSet((T \ {x}) \cup {y}) /\ IdsUnique((T \ {x}) \cup {y})
BY FS_AddElement, FS_RemoveElement DEF IdsUnique

LEMMA RowsLeft ==
  ASSUME NEW T, IsFiniteSet(T), NEW U \in SUBSET T
  PROVE  IsFiniteSet(U) /\ (IdsUnique(T) => IdsUnique(U))
BY FS_Subset DEF IdsUnique

LEMMA CompanyInit == ReportInit => CompanyInv
<1> SUFFICES ASSUME ReportInit PROVE CompanyInv
  OBVIOUS
<1> DEFINE x == [id |-> 0, route |-> Unset, status |-> "answered", kind |-> Unset,
                 resolved |-> Unset]
<1>1. PICK p \in Staff : written = {[id |-> 0, q |-> 0, who |-> p, at |-> FirstMonth]}
  BY DEF ReportInit
<1>2. /\ asked = {x} /\ today = FirstMonth
      /\ handoffs = {} /\ consults = {} /\ docs = {} /\ cases = {}
  BY DEF ReportInit
<1>3. \A y : IsFiniteSet({y})
  BY FS_Singleton
<1>4. IsFiniteSet({})
  BY FS_EmptySet
<1>5. FirstMonth \in Months /\ Unset \notin {"person", "document", "self", "accepted", "declined"}
  BY ReportsAssumption
<1>6. QuestionRows
  <2>1. x \in [id : Questions \cup {0}, route : {"person", "document", Unset},
                status : {"open", "answered"}, kind : {"self", Unset},
                resolved : Months \cup {Unset}]
    OBVIOUS
  <2> HIDE DEF x
  <2> QED
    BY <1>2, <1>3, <2>1 DEF QuestionRows, IdsUnique
<1>7. HandoffRows /\ ConsultRows /\ LibraryRows
  BY <1>2, <1>4 DEF HandoffRows, ConsultRows, LibraryRows, IdsUnique
<1>8. AnswerRows
  <2> DEFINE a == [id |-> 0, q |-> 0, who |-> p, at |-> FirstMonth]
  <2>1. a \in [id : Nat, q : Questions \cup {0}, who : Staff, at : Months]
    BY <1>5
  <2>2. written = {a}
    BY <1>1
  <2> HIDE DEF a
  <2> QED
    BY <1>3, <2>1, <2>2 DEF AnswerRows, IdsUnique
<1>9. RecordsTraced /\ HandoffsTraced
  BY <1>1, <1>2 DEF RecordsTraced, HandoffsTraced
<1>10. QuestionsSettled
  BY <1>1, <1>2, <1>5 DEF QuestionsSettled
<1>11. RecordsTimely
  BY <1>1, <1>2, <1>5, MonthsOrdered DEF RecordsTimely
<1> QED
  BY <1>6, <1>7, <1>8, <1>9, <1>10, <1>11 DEF CompanyInv

LEMMA AskKeeps ==
  ASSUME CompanyInv, NEW q \in Questions, NEW r \in {"person", "document"}, Ask(q, r)
  PROVE  CompanyInv'
<1> DEFINE x == [id |-> q, route |-> r, status |-> "open", kind |-> Unset,
                 resolved |-> IF r = "document" THEN today ELSE Unset]
<1>1. /\ \A y \in asked : y.id # q
      /\ asked' = asked \cup {x}
      /\ UNCHANGED <<handoffs, written, consults, docs, cases, today, passed>>
  BY DEF Ask
<1>2. q # 0 /\ today \in Months /\ Unset \notin Months
      /\ Unset \notin {"person", "document", "self", "accepted", "declined"}
  BY ReportsAssumption DEF CompanyInv, RecordsTimely
<1>3. /\ x.id = q /\ x.route = r /\ x.status = "open" /\ x.kind = Unset
      /\ x.route = "document" => x.resolved # Unset
      /\ x \in [id : Questions \cup {0}, route : {"person", "document", Unset},
                status : {"open", "answered"}, kind : {"self", Unset},
                resolved : Months \cup {Unset}]
  BY <1>2
<1> HIDE DEF x
<1>4. QuestionRows'
  <2>1. IsFiniteSet(asked \cup {x}) /\ IdsUnique(asked \cup {x})
    BY <1>1, <1>3, RowAdded DEF CompanyInv, QuestionRows
  <2> QED
    BY <1>1, <1>3, <2>1 DEF CompanyInv, QuestionRows
<1>5. HandoffsTraced'
  BY <1>1 DEF CompanyInv, HandoffsTraced
<1>6. QuestionsSettled'
  BY <1>1, <1>2, <1>3 DEF CompanyInv, QuestionsSettled
<1> QED
  BY <1>1, <1>4, <1>5, <1>6
  DEF CompanyInv, HandoffRows, AnswerRows, ConsultRows, LibraryRows, RecordsTraced, RecordsTimely

LEMMA HandOffKeeps ==
  ASSUME CompanyInv, NEW q \in Questions, NEW p \in Staff, HandOff(q, p)
  PROVE  CompanyInv'
<1> DEFINE g == [id |-> Fresh(handoffs), q |-> q, who |-> p,
                 rank |-> 1, outcome |-> Unset, shown |-> today]
<1>1. /\ Open(q) /\ \A h \in handoffs : ~(h.q = q /\ h.who = p)
      /\ handoffs' = handoffs \cup {g}
      /\ UNCHANGED <<asked, written, consults, docs, cases, today, passed>>
  BY DEF HandOff
<1>2. Fresh(handoffs) \in Nat \ {0} /\ \A h \in handoffs : h.id # Fresh(handoffs)
  <2>1. \A h \in handoffs : h.id \in Nat
    BY DEF CompanyInv, HandoffRows
  <2> QED
    BY <2>1, FreshIs DEF CompanyInv, HandoffRows
<1>3. today \in Months /\ Unset # "accepted"
  BY ReportsAssumption DEF CompanyInv, RecordsTimely
<1>4. /\ g.id = Fresh(handoffs) /\ g.q = q /\ g.who = p /\ g.outcome = Unset
      /\ g \in [id : Nat \ {0}, q : Questions, who : Staff, rank : {1},
                outcome : {Unset, "accepted", "declined"}, shown : Months]
  BY <1>2, <1>3
<1> HIDE DEF g
<1>5. HandoffRows'
  <2>1. IsFiniteSet(handoffs \cup {g}) /\ IdsUnique(handoffs \cup {g})
    BY <1>2, <1>4, RowAdded DEF CompanyInv, HandoffRows
  <2>2. \A h, k \in handoffs \cup {g} : h.q = k.q /\ h.who = k.who => h = k
    BY <1>1, <1>4 DEF CompanyInv, HandoffRows
  <2> QED
    BY <1>1, <1>4, <2>1, <2>2 DEF CompanyInv, HandoffRows
<1>6. HandoffsTraced'
  <2>1. \E x \in asked : x.id = q /\ x.route = "person"
    BY <1>1 DEF Open
  <2> QED
    BY <1>1, <1>3, <1>4, <2>1 DEF CompanyInv, HandoffsTraced
<1>7. RecordsTraced'
  BY <1>1 DEF CompanyInv, RecordsTraced
<1> QED
  BY <1>1, <1>5, <1>6, <1>7
  DEF CompanyInv, QuestionRows, AnswerRows, ConsultRows, LibraryRows, QuestionsSettled, RecordsTimely

\* Deciding an open hand-off changes its outcome and nothing else of it.
LEMMA DecidedKeeps ==
  ASSUME CompanyInv, NEW h \in handoffs, h.outcome = Unset,
         NEW outcome \in {"accepted", "declined"}, Decided(h, outcome)
  PROVE  LET k == [h EXCEPT !.outcome = outcome]
         IN  /\ HandoffRows'
             /\ handoffs' = (handoffs \ {h}) \cup {k}
             /\ k.id = h.id /\ k.q = h.q /\ k.who = h.who /\ k.outcome = outcome /\ k.shown = h.shown
             /\ \A g \in handoffs : g.outcome = "accepted" => g \in handoffs'
<1> DEFINE k == [h EXCEPT !.outcome = outcome]
<1>1. handoffs' = (handoffs \ {h}) \cup {k}
  BY DEF Decided
<1>2. h \in [id : Nat \ {0}, q : Questions, who : Staff, rank : {1},
             outcome : {Unset, "accepted", "declined"}, shown : Months]
  BY DEF CompanyInv, HandoffRows
<1>3. /\ k.id = h.id /\ k.q = h.q /\ k.who = h.who /\ k.outcome = outcome /\ k.shown = h.shown
      /\ k \in [id : Nat \ {0}, q : Questions, who : Staff, rank : {1},
                outcome : {Unset, "accepted", "declined"}, shown : Months]
  BY <1>2
<1> HIDE DEF k
<1>4. IsFiniteSet((handoffs \ {h}) \cup {k}) /\ IdsUnique((handoffs \ {h}) \cup {k})
  BY <1>3, RowChanged DEF CompanyInv, HandoffRows
<1>5. \A g, j \in (handoffs \ {h}) \cup {k} : g.q = j.q /\ g.who = j.who => g = j
  BY <1>3 DEF CompanyInv, HandoffRows
<1>6. HandoffRows'
  BY <1>1, <1>3, <1>4, <1>5 DEF CompanyInv, HandoffRows
<1>7. \A g \in handoffs : g.outcome = "accepted" => g \in handoffs'
  BY <1>1, ReportsAssumption
<1> QED
  BY <1>1, <1>3, <1>6, <1>7 DEF k

LEMMA AcceptKeeps ==
  ASSUME CompanyInv, NEW h \in handoffs, NEW wrote \in BOOLEAN, Accept(h, wrote)
  PROVE  CompanyInv'
<1> DEFINE x == Question(h.q)
           y == [x EXCEPT !.resolved = IF @ = Unset THEN today ELSE @]
           k == [h EXCEPT !.outcome = "accepted"]
           a == [id |-> h.id, q |-> h.q, who |-> h.who, at |-> today]
<1>1. /\ h.outcome = Unset /\ Decided(h, "accepted")
      /\ asked' = (asked \ {x}) \cup {y}
      /\ written' = IF wrote THEN written \cup {a} ELSE written
      /\ UNCHANGED <<consults, docs, cases, today, passed>>
  BY DEF Accept
<1>2. /\ today \in Months /\ Unset \notin Months
      /\ Unset \notin {"person", "document", "self", "accepted", "declined"}
  BY ReportsAssumption DEF CompanyInv, RecordsTimely
<1>3. /\ HandoffRows'
      /\ handoffs' = (handoffs \ {h}) \cup {k}
      /\ k.id = h.id /\ k.q = h.q /\ k.who = h.who /\ k.outcome = "accepted"
      /\ \A g \in handoffs : g.outcome = "accepted" => g \in handoffs'
  BY <1>1, DecidedKeeps
<1> HIDE DEF k
<1>4. x \in asked /\ x.id = h.q /\ x.route = "person"
  <2>1. \E z \in asked : z.id = h.q /\ z.route = "person"
    BY DEF CompanyInv, HandoffsTraced
  <2>2. \A w, z \in asked : w.id = z.id => w = z
    BY DEF CompanyInv, QuestionRows, IdsUnique
  <2> QED
    BY <2>1, <2>2 DEF Question
<1> HIDE DEF x
<1>5. x \in [id : Questions \cup {0}, route : {"person", "document", Unset},
             status : {"open", "answered"}, kind : {"self", Unset},
             resolved : Months \cup {Unset}]
  BY <1>4 DEF CompanyInv, QuestionRows
<1>6. /\ y.id = x.id /\ y.route = x.route /\ y.status = x.status /\ y.kind = x.kind
      /\ y.resolved # Unset
      /\ y \in [id : Questions \cup {0}, route : {"person", "document", Unset},
                status : {"open", "answered"}, kind : {"self", Unset},
                resolved : Months \cup {Unset}]
  BY <1>2, <1>5
<1> HIDE DEF y
<1>7. QuestionRows'
  <2>1. IsFiniteSet((asked \ {x}) \cup {y}) /\ IdsUnique((asked \ {x}) \cup {y})
    BY <1>4, <1>6, RowChanged DEF CompanyInv, QuestionRows
  <2> QED
    BY <1>1, <1>6, <2>1 DEF CompanyInv, QuestionRows
<1>8. h.id \in Nat /\ h.id # 0 /\ h.q \in Questions /\ h.who \in Staff
  BY DEF CompanyInv, HandoffRows
\* The hand-off was open, so no answer has its id.
<1>9. \A b \in written : b.id # h.id
  <2> SUFFICES ASSUME NEW b \in written, b.id = h.id PROVE FALSE
    OBVIOUS
  <2>1. PICK g \in handoffs : g.outcome = "accepted" /\ g.id = h.id
    BY <1>8 DEF CompanyInv, RecordsTraced
  <2>2. g = h
    BY <2>1 DEF CompanyInv, HandoffRows, IdsUnique
  <2> QED
    BY <1>1, <1>2, <2>1, <2>2
<1>10. /\ a.id = h.id /\ a.q = h.q /\ a.who = h.who /\ a.at = today
       /\ a \in [id : Nat, q : Questions \cup {0}, who : Staff, at : Months]
  BY <1>2, <1>8
<1> HIDE DEF a
<1>11. AnswerRows'
  <2>1. IsFiniteSet(written \cup {a}) /\ IdsUnique(written \cup {a})
    BY <1>9, <1>10, RowAdded DEF CompanyInv, AnswerRows
  <2>2. CASE wrote
    BY <1>1, <1>10, <2>1, <2>2 DEF CompanyInv, AnswerRows
  <2>3. CASE ~wrote
    BY <1>1, <2>3 DEF CompanyInv, AnswerRows
  <2> QED
    BY <2>2, <2>3
<1>12. \A b \in written' : b \in written \/ b = a
  BY <1>1
<1>13. RecordsTraced'
  <2>1. \E g \in handoffs' : g.outcome = "accepted" /\ g.id = a.id /\ g.q = a.q /\ g.who = a.who
    BY <1>3, <1>10
  <2>2. \A b \in written' :
          \/ b.id = 0 /\ b.q = 0
          \/ \E g \in handoffs' : g.outcome = "accepted" /\ g.id = b.id /\ g.q = b.q /\ g.who = b.who
    BY <1>3, <1>12, <2>1 DEF CompanyInv, RecordsTraced
  <2>3. \A c \in consults' : \E g \in handoffs' : g.outcome = "accepted" /\ g.q = c.q /\ g.who = c.who
    BY <1>1, <1>3 DEF CompanyInv, RecordsTraced
  <2> QED
    BY <2>2, <2>3 DEF RecordsTraced
<1>14. HandoffsTraced'
  <2> SUFFICES ASSUME NEW g \in handoffs'
               PROVE  \E z \in asked' : /\ z.id = g.q /\ z.route = "person"
                                        /\ g.outcome = "accepted" => z.resolved # Unset
    BY DEF HandoffsTraced
  <2>1. CASE g.q = h.q
    <3>1. y \in asked' /\ y.id = g.q /\ y.route = "person"
      BY <1>1, <1>4, <1>6, <2>1
    <3> QED
      BY <1>6, <3>1
  <2>2. CASE g.q # h.q
    <3>1. g \in handoffs
      BY <1>3, <2>2
    <3>2. PICK z \in asked : z.id = g.q /\ z.route = "person" /\ (g.outcome = "accepted" => z.resolved # Unset)
      BY <3>1 DEF CompanyInv, HandoffsTraced
    <3>3. z \in asked'
      BY <1>1, <1>4, <2>2, <3>2
    <3> QED
      BY <3>2, <3>3
  <2> QED
    BY <2>1, <2>2
<1>15. QuestionsSettled'
  <2>1. \A z \in asked' : z \in asked \/ z = y
    BY <1>1
  <2>2. \A z \in asked' : /\ z.status = "answered" => z.id = 0
                          /\ z.id = 0 => z.route = Unset
                          /\ z.kind = "self" \/ z.route = "document" => z.resolved # Unset
    BY <1>4, <1>6, <2>1 DEF CompanyInv, QuestionsSettled
  <2>3. \E b \in written' : b.q = 0
    BY <1>1 DEF CompanyInv, QuestionsSettled
  <2> QED
    BY <2>2, <2>3 DEF QuestionsSettled
<1>16. RecordsTimely'
  <2>1. Index(a.at) <= Index(today)
    BY <1>2, <1>10, MonthsOrdered
  <2> QED
    BY <1>1, <1>12, <2>1 DEF CompanyInv, RecordsTimely
<1> QED
  BY <1>1, <1>3, <1>7, <1>11, <1>13, <1>14, <1>15, <1>16 DEF CompanyInv, ConsultRows, LibraryRows

LEMMA DeclineKeeps ==
  ASSUME CompanyInv, NEW h \in handoffs, Decline(h)
  PROVE  CompanyInv'
<1> DEFINE k == [h EXCEPT !.outcome = "declined"]
<1>1. /\ h.outcome = Unset /\ Decided(h, "declined")
      /\ UNCHANGED <<asked, written, consults, docs, cases, today, passed>>
  BY DEF Decline
<1>2. /\ HandoffRows'
      /\ handoffs' = (handoffs \ {h}) \cup {k}
      /\ k.q = h.q /\ k.outcome = "declined"
      /\ \A g \in handoffs : g.outcome = "accepted" => g \in handoffs'
  BY <1>1, DecidedKeeps
<1> HIDE DEF k
<1>3. RecordsTraced'
  BY <1>1, <1>2 DEF CompanyInv, RecordsTraced
<1>4. HandoffsTraced'
  BY <1>1, <1>2 DEF CompanyInv, HandoffsTraced
<1> QED
  BY <1>1, <1>2, <1>3, <1>4
  DEF CompanyInv, QuestionRows, AnswerRows, ConsultRows, LibraryRows, QuestionsSettled, RecordsTimely

LEMMA WriteUpKeeps ==
  ASSUME CompanyInv, NEW h \in handoffs, NEW r \in {"resolved", "unresolved"}, WriteUp(h, r)
  PROVE  CompanyInv'
<1> DEFINE c == [q |-> h.q, who |-> h.who, at |-> today, resolution |-> r]
<1>1. /\ h.outcome = "accepted" /\ \A d \in consults : d.q # h.q
      /\ consults' = consults \cup {c}
      /\ UNCHANGED <<asked, handoffs, written, docs, cases, today, passed>>
  BY DEF WriteUp
<1>2. today \in Months /\ h.q \in Questions /\ h.who \in Staff
  BY DEF CompanyInv, RecordsTimely, HandoffRows
<1>3. /\ c.q = h.q /\ c.who = h.who /\ c.at = today
      /\ c \in [q : Questions, who : Staff, at : Months, resolution : {"resolved", "unresolved"}]
  BY <1>2
<1> HIDE DEF c
<1>4. ConsultRows'
  <2>1. IsFiniteSet(consults \cup {c})
    BY FS_AddElement DEF CompanyInv, ConsultRows
  <2> QED
    BY <1>1, <1>3, <2>1 DEF CompanyInv, ConsultRows
<1>5. RecordsTraced'
  BY <1>1, <1>3 DEF CompanyInv, RecordsTraced
<1>6. RecordsTimely'
  <2>1. Index(c.at) <= Index(today)
    BY <1>2, <1>3, MonthsOrdered
  <2> QED
    BY <1>1, <2>1 DEF CompanyInv, RecordsTimely
<1> QED
  BY <1>1, <1>4, <1>5, <1>6
  DEF CompanyInv, QuestionRows, HandoffRows, AnswerRows, LibraryRows, HandoffsTraced, QuestionsSettled

\* A question that goes on without a person, or to one after all.
LEMMA SettledKeeps ==
  ASSUME CompanyInv, NEW q \in Questions, SolveSelf(q) \/ FallBackTo(q)
  PROVE  CompanyInv'
<1>1. UNCHANGED <<handoffs, written, consults, docs, cases, today, passed>>
  BY DEF SolveSelf, FallBackTo
<1>2. /\ today \in Months /\ Unset \notin Months
      /\ Unset \notin {"person", "document", "self", "accepted", "declined"}
  BY ReportsAssumption DEF CompanyInv, RecordsTimely
<1>3. PICK x \in asked, y \in [id : Questions \cup {0}, route : {"person", "document", Unset},
                               status : {"open", "answered"}, kind : {"self", Unset},
                               resolved : Months \cup {Unset}] :
        /\ x.id = q /\ y.id = x.id /\ y.status = x.status
        /\ asked' = (asked \ {x}) \cup {y}
        /\ \/ x.resolved = Unset /\ y.route = x.route /\ y.resolved # Unset
           \/ x.route = "document" /\ y.route = "person" /\ y.kind = Unset
  <2>1. \A x \in asked : x \in [id : Questions \cup {0}, route : {"person", "document", Unset},
                                status : {"open", "answered"}, kind : {"self", Unset},
                                resolved : Months \cup {Unset}]
    BY DEF CompanyInv, QuestionRows
  <2>2. CASE SolveSelf(q)
    <3>1. PICK x \in asked : /\ x.id = q /\ x.resolved = Unset
                             /\ asked' = (asked \ {x}) \cup {[x EXCEPT !.kind = "self", !.resolved = today]}
      BY <2>2 DEF SolveSelf
    <3> DEFINE y == [x EXCEPT !.kind = "self", !.resolved = today]
    <3>2. /\ y \in [id : Questions \cup {0}, route : {"person", "document", Unset},
                    status : {"open", "answered"}, kind : {"self", Unset},
                    resolved : Months \cup {Unset}]
          /\ y.id = x.id /\ y.status = x.status /\ y.route = x.route /\ y.resolved # Unset
      BY <1>2, <2>1
    <3>3. asked' = (asked \ {x}) \cup {y}
      BY <3>1
    <3> HIDE DEF y
    <3> QED
      BY <3>1, <3>2, <3>3
  <2>3. CASE FallBackTo(q)
    <3>1. PICK x \in asked :
            /\ x.id = q /\ x.route = "document"
            /\ asked' = (asked \ {x}) \cup {[x EXCEPT !.route = "person", !.kind = Unset, !.resolved = Unset]}
      BY <2>3 DEF FallBackTo
    <3> DEFINE y == [x EXCEPT !.route = "person", !.kind = Unset, !.resolved = Unset]
    <3>2. /\ y \in [id : Questions \cup {0}, route : {"person", "document", Unset},
                    status : {"open", "answered"}, kind : {"self", Unset},
                    resolved : Months \cup {Unset}]
          /\ y.id = x.id /\ y.status = x.status /\ y.route = "person" /\ y.kind = Unset
      BY <2>1
    <3>3. asked' = (asked \ {x}) \cup {y}
      BY <3>1
    <3> HIDE DEF y
    <3> QED
      BY <3>1, <3>2, <3>3
  <2> QED
    BY <2>2, <2>3
<1>4. QuestionRows'
  <2>1. IsFiniteSet((asked \ {x}) \cup {y}) /\ IdsUnique((asked \ {x}) \cup {y})
    BY <1>3, RowChanged DEF CompanyInv, QuestionRows
  <2> QED
    BY <1>3, <2>1 DEF CompanyInv, QuestionRows
\* An accepted hand-off has resolved its question, and none is of one for a document.
<1>5. HandoffsTraced'
  <2> SUFFICES ASSUME NEW g \in handoffs
               PROVE  \E z \in asked' : /\ z.id = g.q /\ z.route = "person"
                                        /\ g.outcome = "accepted" => z.resolved # Unset
    BY <1>1 DEF HandoffsTraced
  <2>1. PICK z \in asked : z.id = g.q /\ z.route = "person" /\ (g.outcome = "accepted" => z.resolved # Unset)
    BY DEF CompanyInv, HandoffsTraced
  <2>2. CASE z = x
    BY <1>3, <2>1, <2>2
  <2>3. CASE z # x
    BY <1>3, <2>1, <2>3
  <2> QED
    BY <2>2, <2>3
<1>6. QuestionsSettled'
  <2>1. \A z \in asked' : /\ z.status = "answered" => z.id = 0
                          /\ z.id = 0 => z.route = Unset
                          /\ z.kind = "self" \/ z.route = "document" => z.resolved # Unset
    <3> SUFFICES ASSUME NEW z \in asked'
                 PROVE  /\ z.status = "answered" => z.id = 0
                        /\ z.id = 0 => z.route = Unset
                        /\ z.kind = "self" \/ z.route = "document" => z.resolved # Unset
      OBVIOUS
    <3>1. z \in asked \/ z = y
      BY <1>3
    <3> QED
      BY <1>2, <1>3, <3>1 DEF CompanyInv, QuestionsSettled
  <2> QED
    BY <1>1, <2>1 DEF CompanyInv, QuestionsSettled
<1> QED
  BY <1>1, <1>4, <1>5, <1>6
  DEF CompanyInv, HandoffRows, AnswerRows, ConsultRows, LibraryRows, RecordsTraced, RecordsTimely

LEMMA DeleteKeeps ==
  ASSUME CompanyInv, NEW q \in Questions, Delete(q)
  PROVE  CompanyInv'
<1>1. /\ asked' = {x \in asked : x.id # q} /\ handoffs' = {h \in handoffs : h.q # q}
      /\ written' = {a \in written : a.q # q} /\ consults' = {c \in consults : c.q # q}
      /\ UNCHANGED <<docs, cases, today, passed>>
  BY DEF Delete
<1>2. q # 0
  BY ReportsAssumption
<1>3. QuestionRows'
  <2>1. IsFiniteSet(asked') /\ IdsUnique(asked')
    BY <1>1, RowsLeft DEF CompanyInv, QuestionRows
  <2> QED
    BY <1>1, <2>1 DEF CompanyInv, QuestionRows
<1>4. HandoffRows'
  <2>1. IsFiniteSet(handoffs') /\ IdsUnique(handoffs')
    BY <1>1, RowsLeft DEF CompanyInv, HandoffRows
  <2> QED
    BY <1>1, <2>1 DEF CompanyInv, HandoffRows
<1>5. AnswerRows'
  <2>1. IsFiniteSet(written') /\ IdsUnique(written')
    BY <1>1, RowsLeft DEF CompanyInv, AnswerRows
  <2> QED
    BY <1>1, <2>1 DEF CompanyInv, AnswerRows
<1>6. ConsultRows'
  <2>1. IsFiniteSet(consults')
    BY <1>1, RowsLeft DEF CompanyInv, ConsultRows
  <2> QED
    BY <1>1, <2>1 DEF CompanyInv, ConsultRows
<1>7. RecordsTraced'
  <2>1. \A h \in handoffs : h.q # q => h \in handoffs'
    BY <1>1
  <2> QED
    BY <1>1, <2>1 DEF CompanyInv, RecordsTraced
<1>8. HandoffsTraced'
  BY <1>1 DEF CompanyInv, HandoffsTraced
<1>9. QuestionsSettled'
  BY <1>1, <1>2 DEF CompanyInv, QuestionsSettled
<1>10. RecordsTimely'
  BY <1>1 DEF CompanyInv, RecordsTimely
<1> QED
  BY <1>1, <1>3, <1>4, <1>5, <1>6, <1>7, <1>8, <1>9, <1>10 DEF CompanyInv, LibraryRows

LEMMA LibraryKeeps ==
  ASSUME CompanyInv,
         \/ Publish \/ Capture \/ \E c \in cases, s \in {"approved", "rejected"} : Review(c, s)
  PROVE  CompanyInv'
<1> DEFINE Units == [id : Nat, at : Months, status : {"unreviewed", "approved", "rejected"}]
<1>1. UNCHANGED <<asked, handoffs, written, consults, today, passed>>
  BY DEF Publish, Capture, Review
<1>2. today \in Months
  BY DEF CompanyInv, RecordsTimely
<1>3. LibraryRows'
  <2>1. CASE Publish
    <3> DEFINE d == [id |-> Fresh(docs), at |-> today]
    <3>1. \A x \in docs : x.id \in Nat
      BY DEF CompanyInv, LibraryRows
    <3>2. Fresh(docs) \in Nat /\ \A x \in docs : x.id # Fresh(docs)
      BY <3>1, FreshIs DEF CompanyInv, LibraryRows
    <3>3. d.id = Fresh(docs) /\ d \in [id : Nat, at : Months]
      BY <1>2, <3>2
    <3>4. docs' = docs \cup {d} /\ UNCHANGED cases
      BY <2>1 DEF Publish
    <3> HIDE DEF d
    <3>5. IsFiniteSet(docs \cup {d}) /\ IdsUnique(docs \cup {d})
      BY <3>2, <3>3, RowAdded DEF CompanyInv, LibraryRows
    <3> QED
      BY <3>3, <3>4, <3>5 DEF CompanyInv, LibraryRows
  <2>2. CASE Capture
    <3> DEFINE c == [id |-> Fresh(cases), at |-> today, status |-> "unreviewed"]
    <3>1. \A x \in cases : x.id \in Nat
      BY DEF CompanyInv, LibraryRows
    <3>2. Fresh(cases) \in Nat /\ \A x \in cases : x.id # Fresh(cases)
      BY <3>1, FreshIs DEF CompanyInv, LibraryRows
    <3>3. c.id = Fresh(cases) /\ c \in Units
      BY <1>2, <3>2
    <3>4. cases' = cases \cup {c} /\ UNCHANGED docs
      BY <2>2 DEF Capture
    <3> HIDE DEF c
    <3>5. IsFiniteSet(cases \cup {c}) /\ IdsUnique(cases \cup {c})
      BY <3>2, <3>3, RowAdded DEF CompanyInv, LibraryRows
    <3> QED
      BY <3>3, <3>4, <3>5 DEF CompanyInv, LibraryRows
  <2>3. ASSUME NEW c \in cases, NEW s \in {"approved", "rejected"}, Review(c, s) PROVE LibraryRows'
    <3> DEFINE d == [c EXCEPT !.status = s]
    <3>1. cases' = (cases \ {c}) \cup {d} /\ UNCHANGED docs
      BY <2>3 DEF Review
    <3>2. c \in Units
      BY DEF CompanyInv, LibraryRows
    <3>3. d.id = c.id /\ d \in Units
      BY <3>2
    <3> HIDE DEF d
    <3>4. IsFiniteSet((cases \ {c}) \cup {d}) /\ IdsUnique((cases \ {c}) \cup {d})
      BY <3>3, RowChanged DEF CompanyInv, LibraryRows
    <3> QED
      BY <3>1, <3>3, <3>4 DEF CompanyInv, LibraryRows
  <2> QED
    BY <2>1, <2>2, <2>3
<1> QED
  BY <1>1, <1>3
  DEF CompanyInv, QuestionRows, HandoffRows, AnswerRows, ConsultRows, RecordsTraced,
      HandoffsTraced, QuestionsSettled, RecordsTimely

LEMMA MonthPassesKeeps ==
  ASSUME CompanyInv, MonthPasses
  PROVE  CompanyInv'
<1>1. today' = NextMonth(today) /\ UNCHANGED tables
  BY DEF MonthPasses
<1>2. today \in Months
  BY DEF CompanyInv, RecordsTimely
<1>3. today' \in Months /\ Index(today') = Index(today) + 1 /\ Index(today) \in Int
  BY <1>1, <1>2, NextMonthIs, MonthsOrdered
<1>4. \A m \in Months : Index(m) \in Int
  BY MonthsOrdered
<1>5. RecordsTimely'
  <2>1. \A a \in written : a.at \in Months
    BY DEF CompanyInv, AnswerRows
  <2>2. \A c \in consults : c.at \in Months
    BY DEF CompanyInv, ConsultRows
  <2>3. \A a \in written : Index(a.at) <= Index(today')
    BY <1>3, <1>4, <2>1 DEF CompanyInv, RecordsTimely
  <2>4. \A c \in consults : Index(c.at) <= Index(today')
    BY <1>3, <1>4, <2>2 DEF CompanyInv, RecordsTimely
  <2> QED
    BY <1>1, <1>3, <2>3, <2>4 DEF RecordsTimely, tables
<1> QED
  BY <1>1, <1>5
  DEF tables, CompanyInv, QuestionRows, HandoffRows, AnswerRows, ConsultRows, LibraryRows,
      RecordsTraced, HandoffsTraced, QuestionsSettled

LEMMA CompanyStep == CompanyInv /\ [ReportNext]_reportVars => CompanyInv'
<1> SUFFICES ASSUME CompanyInv, [ReportNext]_reportVars PROVE CompanyInv'
  OBVIOUS
<1>1. ASSUME NEW q \in Questions, NEW r \in {"person", "document"}, Ask(q, r) PROVE CompanyInv'
  BY <1>1, AskKeeps
<1>2. ASSUME NEW q \in Questions, NEW p \in Staff, HandOff(q, p) PROVE CompanyInv'
  BY <1>2, HandOffKeeps
<1>3. ASSUME NEW q \in Questions, SolveSelf(q) \/ FallBackTo(q) PROVE CompanyInv'
  BY <1>3, SettledKeeps
<1>4. ASSUME NEW q \in Questions, Delete(q) PROVE CompanyInv'
  BY <1>4, DeleteKeeps
<1>5. ASSUME NEW h \in handoffs, NEW wrote \in BOOLEAN, Accept(h, wrote) PROVE CompanyInv'
  BY <1>5, AcceptKeeps
<1>6. ASSUME NEW h \in handoffs, Decline(h) PROVE CompanyInv'
  BY <1>6, DeclineKeeps
<1>7. ASSUME NEW h \in handoffs, NEW r \in {"resolved", "unresolved"}, WriteUp(h, r) PROVE CompanyInv'
  BY <1>7, WriteUpKeeps
<1>8. CASE Publish \/ Capture \/ \E c \in cases, s \in {"approved", "rejected"} : Review(c, s)
  BY <1>8, LibraryKeeps
<1>9. CASE MonthPasses
  BY <1>9, MonthPassesKeeps
<1>10. CASE UNCHANGED reportVars
  BY <1>10
  DEF reportVars, tables, CompanyInv, QuestionRows, HandoffRows, AnswerRows, ConsultRows,
      LibraryRows, RecordsTraced, HandoffsTraced, QuestionsSettled, RecordsTimely
<1> QED
  BY <1>1, <1>2, <1>3, <1>4, <1>5, <1>6, <1>7, <1>8, <1>9, <1>10 DEF ReportNext

-----------------------------------------------------------------------------
(* The dashboard and the history *)

\* The history names somebody exactly when a person took or wrote it.
LEMMA ResponderIs ==
  ASSUME CompanyInv, NEW x \in asked
  PROVE  Responder(x) # {} <=> \/ \E a \in written : a.q = x.id
                               \/ \E h \in handoffs : h.q = x.id /\ h.rank = 1 /\ h.outcome = "accepted"
<1> DEFINE took == {h \in handoffs : h.q = x.id /\ h.rank = 1 /\ h.outcome = "accepted"}
           wrote == {a \in written : a.q = x.id}
<1>1. Responder(x) = IF took # {} THEN {h.who : h \in {h \in took : \A g \in took : g.id <= h.id}}
                     ELSE {a.who : a \in {a \in wrote : \A b \in wrote : a.id <= b.id}}
  BY DEF Responder
<1>2. took # {} => \E h \in took : \A g \in took : g.id <= h.id
  <2> SUFFICES ASSUME took # {} PROVE \E h \in took : \A g \in took : g.id <= h.id
    OBVIOUS
  <2>1. IsFiniteSet(took)
    BY FS_Subset DEF CompanyInv, HandoffRows
  <2>2. \A h \in took : h.id \in Nat
    BY DEF CompanyInv, HandoffRows
  <2> HIDE DEF took
  <2> DEFINE f == [h \in took |-> h.id]
             ids == {f[h] : h \in took}
  <2>3. IsFiniteSet(ids)
    <3> HIDE DEF f
    <3> QED
      BY <2>1, FiniteImage
  <2>4. ids \subseteq Int /\ ids # {}
    BY <2>2
  <2>5. \E i \in ids : \A j \in ids : i >= j
    BY <2>3, <2>4, HasGreatest
  <2> QED
    BY <2>2, <2>5
<1>3. wrote # {} => \E a \in wrote : \A b \in wrote : a.id <= b.id
  <2> SUFFICES ASSUME wrote # {} PROVE \E a \in wrote : \A b \in wrote : a.id <= b.id
    OBVIOUS
  <2> DEFINE ids == {a.id : a \in wrote}
  <2>1. \A a \in wrote : a.id \in Nat
    BY DEF CompanyInv, AnswerRows
  <2>2. ids \in SUBSET Nat /\ ids # {}
    BY <2>1
  <2>3. \E i \in ids : \A j \in ids : i <= j
    BY <2>2, HasLeast
  <2> HIDE DEF wrote
  <2> QED
    BY <2>3
<1>4. Responder(x) # {} <=> took # {} \/ wrote # {}
  <2> HIDE DEF took, wrote
  <2> QED
    BY <1>1, <1>2, <1>3
<1> QED
  BY <1>4

LEMMA HistoryAgreed == CompanyInv => HistoryAgrees
<1> SUFFICES ASSUME CompanyInv, NEW x \in asked
             PROVE  /\ ResolutionOf(x) # "pending" => SolvedAt(x) # {}
                    /\ x \in SelfResolved <=> x \in Routed /\ ResolutionOf(x) \in {"self", "document"}
  BY DEF HistoryAgrees
<1> DEFINE byAnswer == \E a \in written : a.q = x.id
           byHandoff == \E h \in handoffs : h.q = x.id /\ h.rank = 1 /\ h.outcome = "accepted"
<1>1. Responder(x) # {} <=> byAnswer \/ byHandoff
  BY ResponderIs
<1>2. SolvedByPerson(x) <=> x.status = "answered" \/ byAnswer \/ byHandoff
  BY DEF SolvedByPerson
<1>3. SolvedAt(x) # {} <=> x.resolved # Unset \/ byAnswer
  BY DEF SolvedAt
<1>4. byHandoff => x.resolved # Unset /\ x.route = "person"
  <2>1. \A y \in asked : y.id = x.id => y = x
    BY DEF CompanyInv, QuestionRows, IdsUnique
  <2> QED
    BY <2>1 DEF CompanyInv, HandoffsTraced
<1>5. byAnswer => x.id = 0 \/ x.route = "person"
  <2> SUFFICES ASSUME NEW a \in written, a.q = x.id PROVE x.id = 0 \/ x.route = "person"
    OBVIOUS
  <2>1. CASE a.q = 0
    BY <2>1
  <2>2. ASSUME NEW h \in handoffs, h.q = a.q PROVE x.route = "person"
    <3>1. \A y \in asked : y.id = x.id => y = x
      BY DEF CompanyInv, QuestionRows, IdsUnique
    <3> QED
      BY <2>2, <3>1 DEF CompanyInv, HandoffsTraced
  <2> QED
    BY <2>1, <2>2 DEF CompanyInv, RecordsTraced
<1>6. /\ x.status = "answered" => x.id = 0
      /\ x.id = 0 => x.route = Unset /\ \E a \in written : a.q = 0
      /\ x.kind = "self" \/ x.route = "document" => x.resolved # Unset
  BY DEF CompanyInv, QuestionsSettled
<1>7. x \in Routed <=> x.route # Unset
  BY DEF Routed
<1>8. x \in SelfResolved <=> /\ x.route # Unset
                             /\ x.route = "document" \/ (x.kind = "self" /\ ~SolvedByPerson(x))
  BY <1>7 DEF SelfResolved
<1>9. ResolutionOf(x) = IF Responder(x) # {} \/ x.status = "answered" THEN "person"
                        ELSE IF x.kind = "self" THEN "self"
                        ELSE IF x.route = "document" THEN "document" ELSE "pending"
  BY DEF ResolutionOf
<1> HIDE DEF byAnswer, byHandoff
<1>10. Unset # "document"
  BY ReportsAssumption
<1>11. byAnswer \/ x.status # "answered" \/ x.id = 0
  BY <1>6
<1>12. x.id = 0 => byAnswer
  BY <1>6 DEF byAnswer
<1> QED
  BY <1>1, <1>2, <1>3, <1>4, <1>5, <1>6, <1>7, <1>8, <1>9, <1>10, <1>12

LEMMA ShareStable == CompanyInv => ShareIsStable
<1> SUFFICES ASSUME CompanyInv, NEW n \in 1..Cardinality(Staff)
             PROVE  TopResponderShare(n) = TopResponderShare(1)
  BY DEF ShareIsStable
<1> DEFINE S == {p \in Staff : AnswersOf(p) > 0}
           value == [p \in Staff |-> AnswersOf(p)]
<1>1. CASE written = {}
  BY <1>1 DEF TopResponderShare
<1>2. CASE written # {}
  <2>1. \A p \in Staff : AnswersOf(p) \in Nat
    <3> TAKE p \in Staff
    <3>1. IsFiniteSet({a \in written : a.who = p})
      BY FS_Subset DEF CompanyInv, AnswerRows
    <3> QED
      BY <3>1, FS_CardinalityType DEF AnswersOf
  <2>2. IsFiniteSet(S) /\ S \subseteq Int /\ \A x \in S : value[x] \in Int
    <3>1. IsFiniteSet(Staff) /\ S \subseteq Staff /\ Staff \subseteq Int
      BY ReportsAssumption
    <3>2. IsFiniteSet(S) /\ S \subseteq Int
      BY <3>1, FS_Subset
    <3>3. \A x \in S : value[x] \in Int
      BY <2>1
    <3> QED
      BY <3>2, <3>3
  <2>3. S # {}
    <3>1. PICK a \in written : TRUE
      BY <1>2
    <3>2. a.who \in Staff
      BY DEF CompanyInv, AnswerRows
    <3> DEFINE T == {b \in written : b.who = a.who}
    <3>3. IsFiniteSet(T)
      BY FS_Subset DEF CompanyInv, AnswerRows
    <3>4. a \in T
      OBVIOUS
    <3>5. Cardinality(T) \in Nat /\ Cardinality(T) # 0
      BY <3>3, <3>4, FS_CardinalityType, FS_EmptySet
    <3>6. AnswersOf(a.who) = Cardinality(T)
      BY DEF AnswersOf
    <3> QED
      BY <3>2, <3>5, <3>6
  <2>4. \A k : TopAnswerers(k) = Best(S, value, k)
    BY DEF TopAnswerers
  <2> HIDE DEF S, value
  <2>5. n \in Nat /\ 1 <= n
    <3>1. Cardinality(Staff) \in Nat
      BY ReportsAssumption, FS_CardinalityType
    <3> QED
      BY <3>1
  <2>6. Cardinality(S) \in Nat /\ Cardinality(S) >= 1
    BY <2>2, <2>3, FS_CardinalityType, FS_EmptySet
  <2> DEFINE b == Best(S, value, n)
  <2>7. b \in Seq(S) /\ Len(b) \in Nat /\ Len(b) >= 1
    <3>1. b \in Seq(S) /\ Len(b) = AtMost(Cardinality(S), n)
      BY <2>2, <2>5, BestList
    <3>2. AtMost(Cardinality(S), n) \in Nat /\ AtMost(Cardinality(S), n) >= 1
      BY <2>5, <2>6 DEF AtMost
    <3> QED
      BY <3>1, <3>2
  <2>8. Cut(b, 1) = Best(S, value, 1)
    <3>1. 1 \in Nat
      OBVIOUS
    <3> QED
      BY <2>2, <2>5, <3>1, BestOfBest
  <2> HIDE DEF b
  <2>9. Len(Cut(b, 1)) = 1 /\ Cut(b, 1)[1] = b[1]
    <3> DEFINE k == 1
    <3>1. k \in Nat /\ AtMost(Len(b), k) = 1 /\ k = 1
      BY <2>7 DEF AtMost
    <3> HIDE DEF k
    <3>2. Len(Cut(b, k)) = 1 /\ \A i \in 1..1 : Cut(b, k)[i] = b[i]
      BY <2>7, <3>1, CutList
    <3> QED
      BY <3>1, <3>2
  <2>10. Head(TopAnswerers(n)) = b[1] /\ Head(TopAnswerers(1)) = b[1]
    <3>1. TopAnswerers(n) = b /\ TopAnswerers(1) = Cut(b, 1)
      BY <2>4, <2>8 DEF b
    <3>2. Head(b) = b[1] /\ Head(Cut(b, 1)) = Cut(b, 1)[1]
      OBVIOUS
    <3> QED
      BY <2>9, <3>1, <3>2
  <2> QED
    BY <1>2, <2>10 DEF TopResponderShare
<1> QED
  BY <1>1, <1>2

\* An answer that counts is that of the acceptance it was written for.
LEMMA CapturedAnswersAre ==
  ASSUME CompanyInv
  PROVE  /\ IsFiniteSet(CapturedAnswers) /\ IsFiniteSet(PositiveConsults)
         /\ \A x \in CapturedAnswers \cup PositiveConsults : x[2] \in Months /\ Index(x[2]) <= Index(today)
         /\ \A a \in written : <<a.id, a.at>> \in CapturedAnswers =>
              \E h \in handoffs : h.q = a.q /\ h.who = a.who /\ h.outcome = "accepted"
<1> DEFINE A == {a \in written : \E h \in handoffs :
                   h.q = a.q /\ h.who = a.who /\ h.outcome = "accepted"}
           C == {c \in consults : c.resolution # "unresolved"}
           f == [a \in A |-> <<a.id, a.at>>]
           g == [c \in C |-> <<c.q, c.at>>]
<1>1. IsFiniteSet(A) /\ IsFiniteSet(C)
  <2>1. IsFiniteSet(A)
    BY FS_Subset DEF CompanyInv, AnswerRows
  <2>2. IsFiniteSet(C)
    BY FS_Subset DEF CompanyInv, ConsultRows
  <2> QED
    BY <2>1, <2>2
<1>2. CapturedAnswers = {f[a] : a \in A} /\ PositiveConsults = {g[c] : c \in C}
  BY DEF CapturedAnswers, PositiveConsults
<1>3. \A a \in A : a \in written /\ f[a] = <<a.id, a.at>>
  OBVIOUS
<1>4. \A c \in C : c \in consults /\ g[c] = <<c.q, c.at>>
  OBVIOUS
<1>5. \A a \in A : \E h \in handoffs : h.q = a.q /\ h.who = a.who /\ h.outcome = "accepted"
  OBVIOUS
<1> HIDE DEF A, C, f, g
<1>6. IsFiniteSet(CapturedAnswers) /\ IsFiniteSet(PositiveConsults)
  <2>1. IsFiniteSet({f[a] : a \in A})
    BY <1>1, FiniteImage
  <2>2. IsFiniteSet({g[c] : c \in C})
    BY <1>1, FiniteImage
  <2> QED
    BY <1>2, <2>1, <2>2
<1>7. \A x \in CapturedAnswers : x[2] \in Months /\ Index(x[2]) <= Index(today)
  BY <1>2, <1>3 DEF CompanyInv, AnswerRows, RecordsTimely
<1>8. \A x \in PositiveConsults : x[2] \in Months /\ Index(x[2]) <= Index(today)
  BY <1>2, <1>4 DEF CompanyInv, ConsultRows, RecordsTimely
<1>9. ASSUME NEW a \in written, <<a.id, a.at>> \in CapturedAnswers
      PROVE  \E h \in handoffs : h.q = a.q /\ h.who = a.who /\ h.outcome = "accepted"
  <2>1. PICK b \in A : <<a.id, a.at>> = <<b.id, b.at>>
    BY <1>2, <1>3, <1>9
  <2>2. a = b
    BY <1>3, <2>1 DEF CompanyInv, AnswerRows, IdsUnique
  <2> QED
    BY <1>5, <2>2
<1> QED
  BY <1>6, <1>7, <1>8, <1>9

LEMMA TrendAgreed == CompanyInv => TrendAgrees
<1> SUFFICES ASSUME CompanyInv PROVE TrendAgrees
  OBVIOUS
<1> DEFINE last == MonthsBack(today, 1)
<1>1. today \in Months
  BY DEF CompanyInv, RecordsTimely
<1>2. Cardinality(Buckets) = 6 /\ today \in Buckets /\ last \in Buckets /\ Buckets \subseteq Months
  BY <1>1, BucketsAre
<1>3. \A m \in Months : Index(m) \in Int /\ \A n \in Months :
        /\ AtLeast(m, n) <=> Index(m) >= Index(n)
        /\ Index(m) = Index(n) => m = n
  BY MonthsOrdered
<1>4. last \in Months /\ Index(last) = Index(today) - 1
  <2> DEFINE one == 1
  <2>1. one \in Nat /\ one = 1
    OBVIOUS
  <2> HIDE DEF one
  <2>2. MonthsBack(today, one) \in Months /\ Index(MonthsBack(today, one)) = Index(today) - one
    BY <1>1, <2>1, MonthsBackIs
  <2> QED
    BY <2>1, <2>2
<1> HIDE DEF last
<1>5. ASSUME NEW S, \A x \in S : x[2] \in Months /\ Index(x[2]) <= Index(today)
      PROVE  /\ Since(S, today) = Cardinality({x \in S : x[2] = today})
             /\ Between(S, last, today) = Cardinality({x \in S : x[2] = last})
  <2>1. \A x \in S : AtLeast(x[2], today) <=> x[2] = today
    BY <1>1, <1>3, <1>5
  <2>2. \A x \in S : AtLeast(x[2], last) /\ ~AtLeast(x[2], today) <=> x[2] = last
    BY <1>1, <1>3, <1>4, <1>5
  <2>3. {x \in S : AtLeast(x[2], today)} = {x \in S : x[2] = today}
    BY <2>1
  <2>4. {x \in S : AtLeast(x[2], last) /\ ~AtLeast(x[2], today)} = {x \in S : x[2] = last}
    BY <2>2
  <2> QED
    BY <2>3, <2>4 DEF Since, Between
<1> DEFINE k == KnowledgeAccumulation
<1>6. /\ k.this_month = Since(CapturedAnswers, today) + Since(PositiveConsults, today)
      /\ k.last_month = Between(CapturedAnswers, last, today) + Between(PositiveConsults, last, today)
      /\ \A m \in Buckets : k.monthly[m] = Cardinality({x \in CapturedAnswers : x[2] = m})
                                            + Cardinality({x \in PositiveConsults : x[2] = m})
  BY DEF KnowledgeAccumulation, last
<1> HIDE DEF k
<1>7. k.monthly[today] = k.this_month /\ k.monthly[last] = k.last_month
  <2>1. /\ Since(CapturedAnswers, today) = Cardinality({x \in CapturedAnswers : x[2] = today})
        /\ Between(CapturedAnswers, last, today) = Cardinality({x \in CapturedAnswers : x[2] = last})
    BY <1>5, CapturedAnswersAre
  <2>2. /\ Since(PositiveConsults, today) = Cardinality({x \in PositiveConsults : x[2] = today})
        /\ Between(PositiveConsults, last, today) = Cardinality({x \in PositiveConsults : x[2] = last})
    BY <1>5, CapturedAnswersAre
  <2> QED
    BY <1>2, <1>6, <2>1, <2>2
<1>8. ASSUME NEW h \in handoffs, h.shown = today, h.id \in CountedHandoffs PROVE h \in CapturedNow
  <2>1. \A g \in handoffs : g.id = h.id => g = h
    BY DEF CompanyInv, HandoffRows, IdsUnique
  <2>2. \A g \in handoffs : g.q = h.q /\ g.who = h.who => g = h
    BY DEF CompanyInv, HandoffRows
  <2>3. \/ \E a \in written : a.q = h.q /\ a.who = h.who /\ <<a.id, a.at>> \in CapturedAnswers
        \/ \E c \in consults : c.q = h.q /\ c.who = h.who
    BY <1>8, <2>1 DEF CountedHandoffs
  <2>4. h.outcome = "accepted"
    <3>1. CASE \E a \in written : a.q = h.q /\ a.who = h.who /\ <<a.id, a.at>> \in CapturedAnswers
      <4>1. PICK a \in written : a.q = h.q /\ a.who = h.who /\ <<a.id, a.at>> \in CapturedAnswers
        BY <3>1
      <4>2. PICK g \in handoffs : g.q = a.q /\ g.who = a.who /\ g.outcome = "accepted"
        BY <4>1, CapturedAnswersAre
      <4> QED
        BY <2>2, <4>1, <4>2
    <3>2. CASE \E c \in consults : c.q = h.q /\ c.who = h.who
      BY <2>2, <3>2 DEF CompanyInv, RecordsTraced
    <3> QED
      BY <2>3, <3>1, <3>2
  <2>5. h \in AcceptedNow
    <3>1. h.shown \in Months /\ AtLeast(h.shown, today)
      BY <1>1, <1>3, <1>8
    <3> QED
      BY <2>4, <3>1 DEF AcceptedNow
  <2> QED
    BY <2>3, <2>5 DEF CapturedNow
<1> QED
  BY <1>2, <1>7, <1>8 DEF TrendAgrees, k, last

-----------------------------------------------------------------------------
(* Months that are over *)

Of(S, m) == {x \in S : x[2] = m}

\* Only what is dated today changes a figure, as long as no question goes.
Stands(m) ==
  Of(CapturedAnswers', m) = Of(CapturedAnswers, m) /\ Of(PositiveConsults', m) = Of(PositiveConsults, m)

LEMMA OthersStand ==
  ASSUME UNCHANGED <<handoffs, written, consults>>, NEW m
  PROVE  Stands(m)
BY DEF Stands, CapturedAnswers, PositiveConsults

LEMMA DecisionStands ==
  ASSUME CompanyInv, NEW h \in handoffs, h.outcome = Unset, NEW outcome \in {"accepted", "declined"},
         Decided(h, outcome), UNCHANGED consults, NEW m,
         \A a \in written' : a \in written \/ a.at # m, written \subseteq written'
  PROVE  Stands(m)
<1> DEFINE k == [h EXCEPT !.outcome = outcome]
<1>1. /\ handoffs' = (handoffs \ {h}) \cup {k}
      /\ k.q = h.q /\ k.who = h.who
      /\ \A g \in handoffs : g.outcome = "accepted" => g \in handoffs'
  BY DecidedKeeps
<1> HIDE DEF k
\* Nothing was written for a hand-off that is open.
<1>2. \A a \in written : a.q # h.q \/ a.who # h.who
  <2> SUFFICES ASSUME NEW a \in written, a.q = h.q, a.who = h.who PROVE FALSE
    OBVIOUS
  <2>1. h.q # 0
    BY ReportsAssumption DEF CompanyInv, HandoffRows
  <2>2. PICK g \in handoffs : g.outcome = "accepted" /\ g.q = a.q /\ g.who = a.who
    BY <2>1 DEF CompanyInv, RecordsTraced
  <2>3. g = h
    BY <2>2 DEF CompanyInv, HandoffRows
  <2> QED
    BY <2>2, <2>3, ReportsAssumption
<1>3. \A a \in written : (\E g \in handoffs : g.q = a.q /\ g.who = a.who /\ g.outcome = "accepted")
                           <=> \E g \in handoffs' : g.q = a.q /\ g.who = a.who /\ g.outcome = "accepted"
  BY <1>1, <1>2
<1>4. Of(CapturedAnswers', m) = Of(CapturedAnswers, m)
  <2>1. ASSUME NEW x \in Of(CapturedAnswers, m) PROVE x \in Of(CapturedAnswers', m)
    BY <1>3 DEF Of, CapturedAnswers
  <2>2. ASSUME NEW x \in Of(CapturedAnswers', m) PROVE x \in Of(CapturedAnswers, m)
    BY <1>3 DEF Of, CapturedAnswers
  <2> QED
    BY <2>1, <2>2
<1>5. PositiveConsults' = PositiveConsults
  BY DEF PositiveConsults
<1> QED
  BY <1>4, <1>5 DEF Stands

LEMMA MonthsKept ==
  ASSUME CompanyInv, [ReportNext]_reportVars, NEW m, m # today
  PROVE  Stands(m) \/ \E q \in Questions : Delete(q)
<1>1. ASSUME NEW q \in Questions, \/ \E r \in {"person", "document"} : Ask(q, r)
                                  \/ SolveSelf(q) \/ FallBackTo(q)
      PROVE  Stands(m)
  BY <1>1, OthersStand DEF Ask, SolveSelf, FallBackTo
<1>2. ASSUME NEW q \in Questions, NEW p \in Staff, HandOff(q, p) PROVE Stands(m)
  <2> DEFINE g == [id |-> Fresh(handoffs), q |-> q, who |-> p,
                   rank |-> 1, outcome |-> Unset, shown |-> today]
  <2>1. handoffs' = handoffs \cup {g} /\ UNCHANGED <<written, consults>>
    BY <1>2 DEF HandOff
  <2>2. g.outcome # "accepted"
    BY ReportsAssumption
  <2> HIDE DEF g
  <2>3. \A a \in written : (\E h \in handoffs : h.q = a.q /\ h.who = a.who /\ h.outcome = "accepted")
                             <=> \E h \in handoffs' : h.q = a.q /\ h.who = a.who /\ h.outcome = "accepted"
    BY <2>1, <2>2
  <2>4. CapturedAnswers' = CapturedAnswers
    BY <2>1, <2>3 DEF CapturedAnswers
  <2>5. PositiveConsults' = PositiveConsults
    BY <2>1 DEF PositiveConsults
  <2> QED
    BY <2>4, <2>5 DEF Stands
<1>3. ASSUME NEW h \in handoffs, NEW wrote \in BOOLEAN, Accept(h, wrote) PROVE Stands(m)
  <2>1. /\ h.outcome = Unset /\ Decided(h, "accepted") /\ UNCHANGED consults
        /\ written' = IF wrote THEN written \cup {[id |-> h.id, q |-> h.q, who |-> h.who, at |-> today]}
                      ELSE written
    BY <1>3 DEF Accept
  <2>2. (\A a \in written' : a \in written \/ a.at # m) /\ written \subseteq written'
    BY <2>1
  <2> QED
    BY <2>1, <2>2, DecisionStands
<1>4. ASSUME NEW h \in handoffs, Decline(h) PROVE Stands(m)
  <2>1. h.outcome = Unset /\ Decided(h, "declined") /\ UNCHANGED <<written, consults>>
    BY <1>4 DEF Decline
  <2> QED
    BY <2>1, DecisionStands
<1>5. ASSUME NEW h \in handoffs, NEW r \in {"resolved", "unresolved"}, WriteUp(h, r) PROVE Stands(m)
  <2> DEFINE c == [q |-> h.q, who |-> h.who, at |-> today, resolution |-> r]
  <2>1. consults' = consults \cup {c} /\ UNCHANGED <<handoffs, written>>
    BY <1>5 DEF WriteUp
  <2>2. c.at = today
    OBVIOUS
  <2> HIDE DEF c
  <2>3. CapturedAnswers' = CapturedAnswers
    BY <2>1 DEF CapturedAnswers
  <2>4. Of(PositiveConsults', m) = Of(PositiveConsults, m)
    BY <2>1, <2>2 DEF Of, PositiveConsults
  <2> QED
    BY <2>3, <2>4 DEF Stands
<1>6. CASE Publish \/ Capture \/ \E c \in cases, s \in {"approved", "rejected"} : Review(c, s)
  BY <1>6, OthersStand DEF Publish, Capture, Review
<1>7. CASE MonthPasses \/ UNCHANGED reportVars
  BY <1>7, OthersStand DEF MonthPasses, reportVars, tables
<1> QED
  BY <1>1, <1>2, <1>3, <1>4, <1>5, <1>6, <1>7 DEF ReportNext

\* A deleted question takes its answer and its write-up along, and nothing else.
LEMMA DeletionTakes ==
  ASSUME NEW q \in Questions, Delete(q)
  PROVE  /\ CapturedAnswers' \subseteq CapturedAnswers /\ PositiveConsults' \subseteq PositiveConsults
         /\ \E x \in asked : x.id \notin {y.id : y \in asked'}
<1>1. /\ \E x \in asked : x.id = q
      /\ asked' = {x \in asked : x.id # q} /\ handoffs' = {h \in handoffs : h.q # q}
      /\ written' = {a \in written : a.q # q} /\ consults' = {c \in consults : c.q # q}
  BY DEF Delete
<1>2. CapturedAnswers' \subseteq CapturedAnswers
  BY <1>1 DEF CapturedAnswers
<1>3. PositiveConsults' \subseteq PositiveConsults
  BY <1>1 DEF PositiveConsults
<1> QED
  BY <1>1, <1>2, <1>3

LEMMA MonthsStanding == CompanyInv /\ [ReportNext]_reportVars => MonthsStand
<1> SUFFICES ASSUME CompanyInv, [ReportNext]_reportVars, NEW m \in Buckets \cap Buckets', m # today
             PROVE  LET was == KnowledgeAccumulation.monthly[m]
                        is == KnowledgeAccumulation'.monthly[m]
                    IN  is = was \/ (is < was /\ \E x \in asked : x.id \notin {y.id : y \in asked'})
  BY DEF MonthsStand
<1> DEFINE was == KnowledgeAccumulation.monthly[m]
           is == KnowledgeAccumulation'.monthly[m]
<1>1. /\ was = Cardinality(Of(CapturedAnswers, m)) + Cardinality(Of(PositiveConsults, m))
      /\ is = Cardinality(Of(CapturedAnswers', m)) + Cardinality(Of(PositiveConsults', m))
  BY DEF KnowledgeAccumulation, Of
<1> HIDE DEF was, is
<1>2. CASE Stands(m)
  BY <1>1, <1>2 DEF Stands, was, is
<1>3. ASSUME NEW q \in Questions, Delete(q)
      PROVE  is = was \/ (is < was /\ \E x \in asked : x.id \notin {y.id : y \in asked'})
  <2>1. /\ Of(CapturedAnswers', m) \subseteq Of(CapturedAnswers, m)
        /\ Of(PositiveConsults', m) \subseteq Of(PositiveConsults, m)
    BY <1>3, DeletionTakes DEF Of
  <2>2. IsFiniteSet(Of(CapturedAnswers, m)) /\ IsFiniteSet(Of(PositiveConsults, m))
    BY CapturedAnswersAre, FS_Subset DEF Of
  <2>3. /\ Cardinality(Of(CapturedAnswers', m)) <= Cardinality(Of(CapturedAnswers, m))
        /\ Cardinality(Of(CapturedAnswers, m)) \in Nat /\ Cardinality(Of(CapturedAnswers', m)) \in Nat
    BY <2>1, <2>2, FS_Subset, FS_CardinalityType
  <2>4. /\ Cardinality(Of(PositiveConsults', m)) <= Cardinality(Of(PositiveConsults, m))
        /\ Cardinality(Of(PositiveConsults, m)) \in Nat /\ Cardinality(Of(PositiveConsults', m)) \in Nat
    BY <2>1, <2>2, FS_Subset, FS_CardinalityType
  <2>5. is <= was /\ is \in Nat /\ was \in Nat
    BY <1>1, <2>3, <2>4
  <2> QED
    BY <1>3, <2>5, DeletionTakes
<1> QED
  BY <1>2, <1>3, MonthsKept DEF was, is

-----------------------------------------------------------------------------
(* The library *)

\* A list without repetitions is as long as the set of what it holds.
LEMMA DistinctLength ==
  ASSUME NEW T, NEW s \in Seq(T), \A i, j \in 1..Len(s) : s[i] = s[j] => i = j
  PROVE  IsFiniteSet(ToSet(s)) /\ Cardinality(ToSet(s)) = Len(s)
<1> DEFINE n == Len(s)
           S == 1..n
<1>1. n \in Nat /\ ToSet(s) = {s[i] : i \in S}
  BY DEF ToSet
<1>2. IsFiniteSet(S) /\ Cardinality(S) = n
  <2> DEFINE a == 1
  <2>1. a \in Int /\ a = 1 /\ n \in Int /\ S = a..n
    BY <1>1
  <2> HIDE DEF a, n, S
  <2>2. IsFiniteSet(a..n) /\ Cardinality(a..n) = IF a > n THEN 0 ELSE n - a + 1
    BY <2>1, FS_Interval
  <2> QED
    BY <1>1, <2>1, <2>2
<1>3. \A i, j \in S : s[i] = s[j] => i = j
  OBVIOUS
<1> DEFINE f == [i \in S |-> s[i]]
<1>4. \A i, j \in S : f[i] = f[j] => i = j
  BY <1>3
<1>5. ToSet(s) = {f[i] : i \in S}
  BY <1>1
<1> HIDE DEF S, n, f
<1>6. IsFiniteSet({f[i] : i \in S})
  BY <1>2, FiniteImage
<1>7. Cardinality({f[i] : i \in S}) = Cardinality(S)
  <2>1. IsFiniteSet(S) /\ \A i, j \in S : f[i] = f[j] => i = j
    BY <1>2, <1>4
  <2> QED
    BY <2>1, FiniteImage
<1> QED
  BY <1>2, <1>5, <1>6, <1>7 DEF n

\* Rows of a table, by their month and then by their id.
Dated(S) == IsFiniteSet(S) /\ IdsUnique(S) /\ \A x \in S : x.id \in Nat /\ x.at \in Months

NewestOrder(S) == {p \in S \X S : Newest(p[1], p[2])}

LEMMA NewestOrders ==
  ASSUME NEW S, Dated(S)
  PROVE  /\ StrictOrder(S, NewestOrder(S))
         /\ \A x, y \in S : <<x, y>> \in NewestOrder(S) <=> Newest(x, y)
<1>1. \A x, y \in S : Newest(x, y) <=> \/ Index(x.at) > Index(y.at)
                                       \/ Index(x.at) = Index(y.at) /\ x.id > y.id
  <2> TAKE x, y \in S
  <2>1. x.at \in Months /\ y.at \in Months
    BY DEF Dated
  <2> DEFINE a == x.at
             b == y.at
  <2>2. /\ Index(a) \in Int /\ Index(b) \in Int
        /\ AtLeast(b, a) <=> Index(b) >= Index(a)
        /\ Index(a) = Index(b) => a = b
    BY <2>1, MonthsOrdered
  <2> QED
    BY <2>2 DEF Newest
<1>2. \A x \in S : Index(x.at) \in Int /\ x.id \in Int
  BY MonthsOrdered DEF Dated
<1>3. \A x, y \in S : x.id = y.id => x = y
  BY DEF Dated, IdsUnique
<1>4. \A x, y : <<x, y>> \in NewestOrder(S) <=> x \in S /\ y \in S /\ Newest(x, y)
  BY DEF NewestOrder
<1>5. \A x \in S : <<x, x>> \notin NewestOrder(S)
  BY <1>1, <1>2, <1>4
<1>6. \A x, y \in S : x # y => <<x, y>> \in NewestOrder(S) \/ <<y, x>> \in NewestOrder(S)
  BY <1>1, <1>2, <1>3, <1>4
<1>7. \A x, y, z \in S : <<x, y>> \in NewestOrder(S) /\ <<y, z>> \in NewestOrder(S) => <<x, z>> \in NewestOrder(S)
  BY <1>1, <1>2, <1>4
<1> QED
  BY <1>4, <1>5, <1>6, <1>7 DEF StrictOrder

\* What the library shows of a table: each row once.
Shown(kind) == [kind : {kind}, id : Nat]

LEMMA ItemsList ==
  ASSUME NEW S, Dated(S), NEW kind
  PROVE  LET s == Items(kind, S)
         IN  /\ s \in Seq(Shown(kind)) /\ Len(s) = Cardinality(S)
             /\ \A i, j \in 1..Len(s) : s[i] = s[j] => i = j
<1> DEFINE r == NewestFirst(S)
           n == Cardinality(S)
           s == Items(kind, S)
<1>1. r = InOrder(S, NewestOrder(S))
  BY DEF NewestFirst, NewestOrder
<1>2. /\ r \in Seq(S) /\ DOMAIN r = 1..n /\ n \in Nat
      /\ \A i, j \in 1..n : r[i] = r[j] => i = j
  BY <1>1, NewestOrders, InOrderList DEF Dated
<1>3. s = [i \in DOMAIN r |-> Item(kind, r[i])]
  BY DEF Items
<1> HIDE DEF r, n, s
<1>4. \A i \in 1..n : r[i] \in S
  BY <1>2, ElementOfSeq
<1>5. \A x \in S : Item(kind, x) \in Shown(kind) /\ Item(kind, x).id = x.id
  BY DEF Item, Shown, Dated
<1>6. s \in [1..n -> Shown(kind)] /\ \A i \in 1..n : s[i].id = r[i].id
  BY <1>2, <1>3, <1>4, <1>5
<1>7. s \in Seq(Shown(kind)) /\ Len(s) = n
  BY <1>2, <1>6
<1>8. \A i, j \in 1..n : s[i] = s[j] => r[i] = r[j]
  <2> TAKE i, j \in 1..n
  <2> QED
    BY <1>4, <1>6 DEF Dated, IdsUnique
<1> QED
  BY <1>2, <1>7, <1>8 DEF n, s

LEMMA DatedLeft ==
  ASSUME NEW S, Dated(S), NEW U \in SUBSET S
  PROVE  Dated(U)
BY FS_Subset DEF Dated, IdsUnique

LEMMA TablesDated == CompanyInv => Dated(written) /\ Dated(docs) /\ Dated(cases)
BY DEF CompanyInv, AnswerRows, LibraryRows, Dated

\* A list without anything holds nothing twice.
LEMMA NoItems ==
  ASSUME NEW kind
  PROVE  /\ <<>> \in Seq(Shown(kind)) /\ Len(<<>>) = 0
         /\ \A i, j \in 1..Len(<<>>) : <<>>[i] = <<>>[j] => i = j
OBVIOUS

\* The three sources of a list: each shows no row twice.
LEMMA SourcesAre ==
  ASSUME CompanyInv, NEW f
  PROVE  /\ QaItems(f) \in Seq(Shown("qa"))
         /\ \A i, j \in 1..Len(QaItems(f)) : QaItems(f)[i] = QaItems(f)[j] => i = j
         /\ DocumentItems(f) \in Seq(Shown("document"))
         /\ \A i, j \in 1..Len(DocumentItems(f)) : DocumentItems(f)[i] = DocumentItems(f)[j] => i = j
         /\ KnowledgeUnitItems(f) \in Seq(Shown("knowledge"))
         /\ \A i, j \in 1..Len(KnowledgeUnitItems(f)) :
              KnowledgeUnitItems(f)[i] = KnowledgeUnitItems(f)[j] => i = j
<1>1. Dated(written) /\ Dated(docs) /\ Dated(cases)
  BY TablesDated
<1>2. /\ QaItems(f) \in Seq(Shown("qa"))
      /\ \A i, j \in 1..Len(QaItems(f)) : QaItems(f)[i] = QaItems(f)[j] => i = j
  <2> DEFINE match == {a \in written :
               Matches(a, f) /\ (f.department = Unset \/ Department[a.who] = f.department)}
             S == {a \in match : \A b \in match : b.q = a.q => ~Newest(b, a)}
  <2>1. QaItems(f) = Items("qa", S)
    BY DEF QaItems
  <2>2. S \in SUBSET written
    OBVIOUS
  <2> HIDE DEF S
  <2>3. Dated(S)
    BY <1>1, <2>2, DatedLeft
  <2> QED
    BY <2>1, <2>3, ItemsList
<1>3. /\ DocumentItems(f) \in Seq(Shown("document"))
      /\ \A i, j \in 1..Len(DocumentItems(f)) : DocumentItems(f)[i] = DocumentItems(f)[j] => i = j
  <2> DEFINE S == {d \in docs : Matches(d, f)}
  <2>1. DocumentItems(f) = IF f.department = Unset THEN Items("document", S) ELSE <<>>
    BY DEF DocumentItems
  <2>2. S \in SUBSET docs
    OBVIOUS
  <2> HIDE DEF S
  <2>3. Dated(S)
    BY <1>1, <2>2, DatedLeft
  <2>4. CASE f.department = Unset
    BY <2>1, <2>3, <2>4, ItemsList
  <2>5. CASE f.department # Unset
    BY <2>1, <2>5, NoItems
  <2> QED
    BY <2>4, <2>5
<1>4. /\ KnowledgeUnitItems(f) \in Seq(Shown("knowledge"))
      /\ \A i, j \in 1..Len(KnowledgeUnitItems(f)) :
           KnowledgeUnitItems(f)[i] = KnowledgeUnitItems(f)[j] => i = j
  <2> DEFINE S == {c \in cases : c.status = "approved" /\ Matches(c, f)}
  <2>1. KnowledgeUnitItems(f) = IF f.department = Unset THEN Items("knowledge", S) ELSE <<>>
    BY DEF KnowledgeUnitItems
  <2>2. S \in SUBSET cases
    OBVIOUS
  <2> HIDE DEF S
  <2>3. Dated(S)
    BY <1>1, <2>2, DatedLeft
  <2>4. CASE f.department = Unset
    BY <2>1, <2>3, <2>4, ItemsList
  <2>5. CASE f.department # Unset
    BY <2>1, <2>5, NoItems
  <2> QED
    BY <2>4, <2>5
<1> QED
  BY <1>2, <1>3, <1>4

AnyShown == [kind : {"qa", "document", "knowledge"}, id : Nat]

\* The whole list: everything of each source once, its i-th element among the first 3i.
LEMMA WholeList ==
  ASSUME CompanyInv, NEW f
  PROVE  LET all == ListKnowledge(f)
         IN  /\ all \in Seq(AnyShown) /\ \A i, j \in 1..Len(all) : all[i] = all[j] => i = j
             /\ ToSet(all) = ToSet(QaItems(f)) \cup ToSet(DocumentItems(f)) \cup ToSet(KnowledgeUnitItems(f))
             /\ \A s \in {QaItems(f), DocumentItems(f), KnowledgeUnitItems(f)} : \A i \in 1..Len(s) :
                  \E k \in 1..Len(all) : k <= 3 * i /\ all[k] = s[i]
<1> DEFINE qa == QaItems(f)
           doc == DocumentItems(f)
           unit == KnowledgeUnitItems(f)
           lists == <<qa, doc, unit>>
           all == ListKnowledge(f)
           at == TurnOrder(lists)
<1>1. /\ qa \in Seq(Shown("qa")) /\ doc \in Seq(Shown("document")) /\ unit \in Seq(Shown("knowledge"))
      /\ \A i, j \in 1..Len(qa) : qa[i] = qa[j] => i = j
      /\ \A i, j \in 1..Len(doc) : doc[i] = doc[j] => i = j
      /\ \A i, j \in 1..Len(unit) : unit[i] = unit[j] => i = j
  BY SourcesAre
<1>2. all = InTurns(lists) /\ at = TurnOrder(lists)
  BY DEF ListKnowledge, RoundRobin
<1> HIDE DEF qa, doc, unit, all, at
<1>3. lists[1] = qa /\ lists[2] = doc /\ lists[3] = unit /\ DOMAIN lists = 1..3
  OBVIOUS
<1> HIDE DEF lists
<1>4. \A c \in 1..3 : lists[c] \in Seq(AnyShown)
  <2>1. /\ Shown("qa") \subseteq AnyShown /\ Shown("document") \subseteq AnyShown
        /\ Shown("knowledge") \subseteq AnyShown
    BY DEF Shown, AnyShown
  <2>2. qa \in Seq(AnyShown)
    BY <1>1, <2>1, SeqWidens
  <2>3. doc \in Seq(AnyShown)
    BY <1>1, <2>1, SeqWidens
  <2>4. unit \in Seq(AnyShown)
    BY <1>1, <2>1, SeqWidens
  <2> QED
    BY <1>3, <2>2, <2>3, <2>4
<1>5. /\ all \in Seq(AnyShown) /\ DOMAIN all = 1..Len(all)
      /\ \A k \in 1..Len(all) :
           /\ at[k][2] \in 1..3 /\ at[k][1] \in 1..Len(lists[at[k][2]])
           /\ all[k] = lists[at[k][2]][at[k][1]]
      /\ \A k, l \in 1..Len(all) : at[k][1] = at[l][1] /\ at[k][2] = at[l][2] => k = l
      /\ \A c \in 1..3 : \A i \in 1..Len(lists[c]) :
           \E k \in 1..Len(all) : k <= (i - 1) * 3 + c /\ all[k] = lists[c][i]
  <2>1. 3 \in Nat
    OBVIOUS
  <2>2. /\ all \in Seq(AnyShown) /\ DOMAIN all = 1..Len(all)
        /\ \A k \in 1..Len(all) :
             /\ at[k][2] \in 1..3 /\ at[k][1] \in 1..Len(lists[at[k][2]])
             /\ all[k] = lists[at[k][2]][at[k][1]]
        /\ \A k, l \in 1..Len(all) : at[k][1] = at[l][1] /\ at[k][2] = at[l][2] => k = l
    BY <1>2, <1>3, <1>4, <2>1, InTurnsList
  <2>3. /\ all \in Seq(AnyShown) /\ DOMAIN all = 1..Len(all)
        /\ \A c \in 1..3 : \A i \in 1..Len(lists[c]) :
             \E k \in 1..Len(all) : k <= (i - 1) * 3 + c /\ all[k] = lists[c][i]
    <3>1. DOMAIN lists = 1..3
      BY <1>3
    <3>2. /\ InTurns(lists) \in Seq(AnyShown)
          /\ \A c \in 1..3 : \A i \in 1..Len(lists[c]) :
               \E k \in 1..Len(InTurns(lists)) : k <= (i - 1) * 3 + c /\ InTurns(lists)[k] = lists[c][i]
      BY <1>4, <2>1, <3>1, InTurnsList, ZenonT(30)
    <3> QED
      BY <1>2, <2>2, <3>2
  <2> QED
    BY <2>2, <2>3
\* The kind of an item tells the source it is from.
<1>6. ASSUME NEW c \in 1..3, NEW d \in 1..3, NEW i \in 1..Len(lists[c]), NEW j \in 1..Len(lists[d]),
             lists[c][i] = lists[d][j]
      PROVE  c = d /\ i = j
  <2>1. /\ \A x \in 1..Len(qa) : qa[x].kind = "qa"
        /\ \A x \in 1..Len(doc) : doc[x].kind = "document"
        /\ \A x \in 1..Len(unit) : unit[x].kind = "knowledge"
    <3>1. /\ \A x \in 1..Len(qa) : qa[x] \in Shown("qa")
          /\ \A x \in 1..Len(doc) : doc[x] \in Shown("document")
          /\ \A x \in 1..Len(unit) : unit[x] \in Shown("knowledge")
      BY <1>1, ElementOfSeq
    <3> QED
      BY <3>1 DEF Shown
  <2>2. c = 1 \/ c = 2 \/ c = 3
    OBVIOUS
  <2>3. d = 1 \/ d = 2 \/ d = 3
    OBVIOUS
  <2>4. c = d
    <3>1. /\ c = 1 => lists[c][i].kind = "qa"
          /\ c = 2 => lists[c][i].kind = "document"
          /\ c = 3 => lists[c][i].kind = "knowledge"
      BY <1>3, <2>1
    <3>2. /\ d = 1 => lists[d][j].kind = "qa"
          /\ d = 2 => lists[d][j].kind = "document"
          /\ d = 3 => lists[d][j].kind = "knowledge"
      BY <1>3, <2>1
    <3>3. lists[c][i].kind = lists[d][j].kind
      BY <1>6
    <3> QED
      BY <2>2, <2>3, <3>1, <3>2, <3>3
  <2>5. i = j
    BY <1>1, <1>3, <1>6, <2>2, <2>4
  <2> QED
    BY <2>4, <2>5
<1>7. ASSUME NEW k \in 1..Len(all), NEW l \in 1..Len(all), all[k] = all[l] PROVE k = l
  <2> DEFINE c == at[k][2]
             d == at[l][2]
             i == at[k][1]
             j == at[l][1]
  <2>1. c \in 1..3 /\ i \in 1..Len(lists[c]) /\ all[k] = lists[c][i]
    BY <1>5
  <2>2. d \in 1..3 /\ j \in 1..Len(lists[d]) /\ all[l] = lists[d][j]
    BY <1>5
  <2>3. c = d /\ i = j => k = l
    BY <1>5
  <2> HIDE DEF c, d, i, j
  <2>4. lists[c][i] = lists[d][j]
    BY <1>7, <2>1, <2>2
  <2>5. c = d /\ i = j
    <3>1. c \in 1..3 /\ d \in 1..3 /\ i \in 1..Len(lists[c]) /\ j \in 1..Len(lists[d])
      BY <2>1, <2>2
    <3> QED
      BY <1>6, <2>4, <3>1
  <2> QED
    BY <2>3, <2>5
<1>8. ASSUME NEW c \in 1..3, NEW i \in 1..Len(lists[c])
      PROVE  \E k \in 1..Len(all) : k <= 3 * i /\ all[k] = lists[c][i]
  <2>1. PICK k \in 1..Len(all) : k <= (i - 1) * 3 + c /\ all[k] = lists[c][i]
    BY <1>5
  <2>2. i \in Int
    BY <1>4
  <2>3. k <= 3 * i
    BY <2>1, <2>2
  <2> QED
    BY <2>1, <2>3
<1>9. \A s \in {qa, doc, unit} : \E c \in 1..3 : s = lists[c]
  <2>1. 1 \in 1..3 /\ 2 \in 1..3 /\ 3 \in 1..3
    OBVIOUS
  <2> QED
    BY <1>3, <2>1
<1>10. \A s \in {qa, doc, unit} : \A i \in 1..Len(s) : \E k \in 1..Len(all) : k <= 3 * i /\ all[k] = s[i]
  <2> TAKE s \in {qa, doc, unit}
  <2>1. PICK c \in 1..3 : s = lists[c]
    BY <1>9
  <2> QED
    BY <1>8, <2>1
<1>11. ToSet(all) = ToSet(qa) \cup ToSet(doc) \cup ToSet(unit)
  <2>1. /\ \A x : x \in ToSet(all) <=> \E i \in 1..Len(all) : all[i] = x
        /\ \A x : x \in ToSet(qa) <=> \E i \in 1..Len(qa) : qa[i] = x
        /\ \A x : x \in ToSet(doc) <=> \E i \in 1..Len(doc) : doc[i] = x
        /\ \A x : x \in ToSet(unit) <=> \E i \in 1..Len(unit) : unit[i] = x
    BY <1>1, <1>5, ToSetIs
  <2>2. ASSUME NEW k \in 1..Len(all) PROVE all[k] \in ToSet(qa) \cup ToSet(doc) \cup ToSet(unit)
    <3> DEFINE c == at[k][2]
               i == at[k][1]
    <3>1. c \in 1..3 /\ i \in 1..Len(lists[c]) /\ all[k] = lists[c][i]
      BY <1>5
    <3> HIDE DEF c, i
    <3>2. c = 1 \/ c = 2 \/ c = 3
      BY <3>1
    <3> QED
      BY <1>3, <2>1, <3>1, <3>2
  <2>3. \A s \in {qa, doc, unit} : \A i \in 1..Len(s) : s[i] \in ToSet(all)
    BY <1>10, <2>1
  <2>4. ASSUME NEW x \in ToSet(qa) \cup ToSet(doc) \cup ToSet(unit) PROVE x \in ToSet(all)
    BY <2>1, <2>3
  <2>5. ASSUME NEW x \in ToSet(all) PROVE x \in ToSet(qa) \cup ToSet(doc) \cup ToSet(unit)
    BY <2>1, <2>2
  <2> QED
    BY <2>4, <2>5
<1> QED
  BY <1>5, <1>7, <1>10, <1>11 DEF all, qa, doc, unit

\* Of each question with an answer the newest one is shown.
LEMMA NewestOfEach ==
  ASSUME NEW S, Dated(S)
  PROVE  LET N == {a \in S : \A b \in S : b.q = a.q => ~Newest(b, a)}
         IN  IsFiniteSet(N) /\ Cardinality(N) = Cardinality({a.q : a \in S})
<1> DEFINE N == {a \in S : \A b \in S : b.q = a.q => ~Newest(b, a)}
           f == [a \in N |-> a.q]
<1>1. IsFiniteSet(N)
  BY FS_Subset DEF Dated
<1>2. \A a, b \in N : f[a] = f[b] => a = b
  <2> SUFFICES ASSUME NEW a \in N, NEW b \in N, f[a] = f[b], a # b PROVE FALSE
    OBVIOUS
  <2>1. a \in S /\ b \in S /\ a.q = b.q /\ ~Newest(a, b) /\ ~Newest(b, a)
    OBVIOUS
  <2>2. Newest(a, b) \/ Newest(b, a)
    BY <2>1, NewestOrders DEF StrictOrder
  <2> QED
    BY <2>1, <2>2
<1>3. ASSUME NEW a \in S PROVE \E b \in N : b.q = a.q
  <2> DEFINE T == {b \in S : b.q = a.q}
             r == NewestFirst(T)
             n == Cardinality(T)
  <2>1. Dated(T)
    BY DatedLeft
  <2>2. /\ r \in Seq(T) /\ DOMAIN r = 1..n /\ n \in Nat
        /\ \A x \in T : \E i \in 1..n : r[i] = x
        /\ \A i, j \in 1..n : i < j => <<r[i], r[j]>> \in NewestOrder(T)
    <3>1. r = InOrder(T, NewestOrder(T))
      BY DEF NewestFirst, NewestOrder
    <3> HIDE DEF r, T
    <3>2. IsFiniteSet(T) /\ StrictOrder(T, NewestOrder(T))
      BY <2>1, NewestOrders DEF Dated
    <3> QED
      BY <3>1, <3>2, InOrderList
  <2>3. a \in T
    OBVIOUS
  <2>4. \A x, y \in T : <<x, y>> \in NewestOrder(T) <=> Newest(x, y)
    BY <2>1, NewestOrders
  <2>5. \A x, y \in T : ~(Newest(x, y) /\ Newest(y, x))
    <3>1. StrictOrder(T, NewestOrder(T))
      BY <2>1, NewestOrders
    <3> HIDE DEF T
    <3> QED
      BY <2>4, <3>1 DEF StrictOrder
  <2>6. \A x \in T : x \in S /\ x.q = a.q
    OBVIOUS
  <2>7. \A x \in S : x.q = a.q => x \in T
    OBVIOUS
  <2> HIDE DEF T, r, n
  <2>8. 1 \in 1..n /\ r[1] \in T
    BY <2>2, <2>3, ElementOfSeq
  <2>9. \A y \in T : ~Newest(y, r[1])
    <3> TAKE y \in T
    <3>1. PICK i \in 1..n : r[i] = y
      BY <2>2
    <3>2. CASE i = 1
      BY <2>5, <2>8, <3>1, <3>2
    <3>3. CASE i # 1
      <4>1. <<r[1], r[i]>> \in NewestOrder(T)
        BY <2>2, <2>8, <3>3
      <4> QED
        BY <2>4, <2>5, <2>8, <3>1, <4>1
    <3> QED
      BY <3>2, <3>3
  <2>10. r[1] \in N /\ r[1].q = a.q
    BY <2>6, <2>7, <2>8, <2>9
  <2> QED
    BY <2>10
<1>4. {f[a] : a \in N} = {a.q : a \in S}
  <2>1. \A x : x \in {f[a] : a \in N} <=> \E a \in N : x = a.q
    OBVIOUS
  <2>2. \A a \in N : a \in S
    OBVIOUS
  <2> HIDE DEF N, f
  <2> QED
    BY <1>3, <2>1, <2>2
<1> HIDE DEF N, f
<1>5. Cardinality({f[a] : a \in N}) = Cardinality(N)
  <2>1. IsFiniteSet(N) /\ \A x, y \in N : f[x] = f[y] => x = y
    BY <1>1, <1>2
  <2> QED
    BY <2>1, FiniteImage
<1> QED
  BY <1>1, <1>4, <1>5 DEF N

\* Sets that do not meet count together.
LEMMA ApartAdd ==
  ASSUME NEW A, IsFiniteSet(A), NEW B, IsFiniteSet(B), A \cap B = {}
  PROVE  IsFiniteSet(A \cup B) /\ Cardinality(A \cup B) = Cardinality(A) + Cardinality(B)
<1>1. IsFiniteSet(A \cup B) /\ Cardinality(A \cup B) = Cardinality(A) + Cardinality(B) - Cardinality(A \cap B)
  BY FS_Union
<1>2. Cardinality(A \cap B) = 0
  BY FS_EmptySet
<1> DEFINE a == Cardinality(A)
           b == Cardinality(B)
           m == Cardinality(A \cap B)
           u == Cardinality(A \cup B)
<1>3. a \in Nat /\ b \in Nat
  BY FS_CardinalityType
<1>4. u = a + b - m /\ m = 0
  BY <1>1, <1>2
<1> HIDE DEF a, b, m, u
<1>5. u = a + b
  BY <1>3, <1>4
<1> QED
  BY <1>1, <1>5 DEF a, b, u

\* Three sets of three kinds.
LEMMA KindsAdd ==
  ASSUME NEW A, IsFiniteSet(A), A \subseteq Shown("qa"),
         NEW B, IsFiniteSet(B), B \subseteq Shown("document"),
         NEW C, IsFiniteSet(C), C \subseteq Shown("knowledge")
  PROVE  Cardinality(A \cup B \cup C) = Cardinality(A) + Cardinality(B) + Cardinality(C)
<1> DEFINE D == A \cup B
<1>1. A \cap B = {} /\ D \cap C = {} /\ A \cup B \cup C = D \cup C
  <2>1. /\ \A x \in A : x.kind = "qa"
        /\ \A x \in B : x.kind = "document"
        /\ \A x \in C : x.kind = "knowledge"
    BY DEF Shown
  <2> QED
    BY <2>1
<1>2. IsFiniteSet(D) /\ Cardinality(D) = Cardinality(A) + Cardinality(B)
  BY <1>1, ApartAdd
<1> HIDE DEF D
<1>3. Cardinality(D \cup C) = Cardinality(D) + Cardinality(C)
  BY <1>1, <1>2, ApartAdd
<1> QED
  BY <1>1, <1>2, <1>3

\* The unfiltered list is as long as the summary says.
LEMMA TotalsAgree == CompanyInv => Len(ListKnowledge(NoFilter)) = TotalItems
<1> SUFFICES ASSUME CompanyInv PROVE Len(ListKnowledge(NoFilter)) = TotalItems
  OBVIOUS
<1> DEFINE f == NoFilter
           N == {a \in written : \A b \in written : b.q = a.q => ~Newest(b, a)}
           P == {c \in cases : c.status = "approved"}
           qa == QaItems(f)
           doc == DocumentItems(f)
           unit == KnowledgeUnitItems(f)
           all == ListKnowledge(f)
<1>1. f.department = Unset /\ \A x : Matches(x, f)
  BY DEF NoFilter, Matches
<1>2. Dated(written) /\ Dated(docs) /\ Dated(cases)
  BY TablesDated
<1>3. /\ qa = Items("qa", N) /\ doc = Items("document", docs) /\ unit = Items("knowledge", P)
  <2>1. {a \in written : Matches(a, f) /\ (f.department = Unset \/ Department[a.who] = f.department)} = written
    BY <1>1
  <2>2. {d \in docs : Matches(d, f)} = docs
    BY <1>1
  <2>3. {c \in cases : c.status = "approved" /\ Matches(c, f)} = P
    BY <1>1
  <2> HIDE DEF f
  <2> QED
    BY <1>1, <2>1, <2>2, <2>3 DEF QaItems, DocumentItems, KnowledgeUnitItems
<1> HIDE DEF f
<1>4. Dated(N) /\ Dated(P) /\ Cardinality(N) = Cardinality({a.q : a \in written})
  BY <1>2, DatedLeft, NewestOfEach
<1>5. TotalItems = Cardinality(N) + Cardinality(docs) + Cardinality(P)
  BY <1>4 DEF TotalItems
<1> HIDE DEF N, P
<1>6. Len(qa) = Cardinality(N) /\ Len(doc) = Cardinality(docs) /\ Len(unit) = Cardinality(P)
  BY <1>2, <1>3, <1>4, ItemsList
<1>7. /\ qa \in Seq(Shown("qa")) /\ doc \in Seq(Shown("document")) /\ unit \in Seq(Shown("knowledge"))
      /\ \A i, j \in 1..Len(qa) : qa[i] = qa[j] => i = j
      /\ \A i, j \in 1..Len(doc) : doc[i] = doc[j] => i = j
      /\ \A i, j \in 1..Len(unit) : unit[i] = unit[j] => i = j
  BY SourcesAre
<1>8. /\ all \in Seq(AnyShown) /\ \A i, j \in 1..Len(all) : all[i] = all[j] => i = j
      /\ ToSet(all) = ToSet(qa) \cup ToSet(doc) \cup ToSet(unit)
  BY WholeList
<1> HIDE DEF qa, doc, unit, all
<1>9. Cardinality(ToSet(all)) = Len(all)
  BY <1>8, DistinctLength
<1>10. /\ IsFiniteSet(ToSet(qa)) /\ Cardinality(ToSet(qa)) = Len(qa) /\ ToSet(qa) \subseteq Shown("qa")
       /\ IsFiniteSet(ToSet(doc)) /\ Cardinality(ToSet(doc)) = Len(doc)
       /\ ToSet(doc) \subseteq Shown("document")
       /\ IsFiniteSet(ToSet(unit)) /\ Cardinality(ToSet(unit)) = Len(unit)
       /\ ToSet(unit) \subseteq Shown("knowledge")
  <2>1. IsFiniteSet(ToSet(qa)) /\ Cardinality(ToSet(qa)) = Len(qa) /\ ToSet(qa) \subseteq Shown("qa")
    BY <1>7, DistinctLength, ToSetIs
  <2>2. IsFiniteSet(ToSet(doc)) /\ Cardinality(ToSet(doc)) = Len(doc) /\ ToSet(doc) \subseteq Shown("document")
    BY <1>7, DistinctLength, ToSetIs
  <2>3. IsFiniteSet(ToSet(unit)) /\ Cardinality(ToSet(unit)) = Len(unit)
        /\ ToSet(unit) \subseteq Shown("knowledge")
    BY <1>7, DistinctLength, ToSetIs
  <2> QED
    BY <2>1, <2>2, <2>3
<1>11. Cardinality(ToSet(qa) \cup ToSet(doc) \cup ToSet(unit))
         = Cardinality(ToSet(qa)) + Cardinality(ToSet(doc)) + Cardinality(ToSet(unit))
  BY <1>10, KindsAdd
<1> QED
  BY <1>5, <1>6, <1>8, <1>9, <1>10, <1>11 DEF all, f

\* A page and what follows it are the list from the page on.
LEMMA PagesJoin ==
  ASSUME NEW T, NEW all \in Seq(T), NEW o \in 0..Len(all), NEW n \in Nat
  PROVE  LET page(x, k) == SubSeq(all, x + 1, IF x + k < Len(all) THEN x + k ELSE Len(all))
         IN  page(o, n) \o page(o + n, Len(all)) = page(o, Len(all))
<1> DEFINE l == Len(all)
           k == IF o + n < l THEN o + n ELSE l
           m == o + 1
<1>1. l \in Nat /\ o \in Nat /\ o <= l
  OBVIOUS
<1>2. m \in 1..(l + 1) /\ k \in (m - 1)..l /\ l \in k..l
  BY <1>1
<1>3. (IF o + n + l < l THEN o + n + l ELSE l) = l /\ (IF o + l < l THEN o + l ELSE l) = l
  BY <1>1
<1>4. SubSeq(all, m, k) \o SubSeq(all, k + 1, l) = SubSeq(all, m, l)
  <2> HIDE DEF k, m
  <2> QED
    BY <1>2, ConcatAdjacentSubSeq DEF l
<1>5. SubSeq(all, o + n + 1, l) = SubSeq(all, k + 1, l)
  <2>1. CASE o + n < l
    BY <2>1
  <2>2. CASE ~(o + n < l)
    <3> DEFINE i == o + n + 1
               j == k + 1
    <3>1. i \in Int /\ j \in Int /\ l \in Int /\ l < i /\ l < j
      BY <1>1, <2>2
    <3> HIDE DEF i, j, l
    <3>2. SubSeq(all, i, l) = <<>> /\ SubSeq(all, j, l) = <<>>
      BY <3>1, SubSeqEmpty
    <3> QED
      BY <3>2 DEF i, j
  <2> QED
    BY <2>1, <2>2
<1> QED
  BY <1>3, <1>4, <1>5

LEMMA LibraryWhole == CompanyInv => LibraryIsWhole
<1> SUFFICES ASSUME CompanyInv, NEW f
             PROVE  LET all == ListKnowledge(f)
                    IN  /\ Cardinality(ToSet(all)) = Len(all)
                        /\ \A s \in {QaItems(f), DocumentItems(f), KnowledgeUnitItems(f)} :
                             \A i \in DOMAIN s : s[i] \in ToSet(Page(f, 0, 3 * i))
                        /\ Page(f, 0, Len(all)) = all
                        /\ \A o \in 0..Len(all), n \in 1..2 :
                             Page(f, o, n) \o Page(f, o + n, Len(all)) = Page(f, o, Len(all))
  BY TotalsAgree DEF LibraryIsWhole
<1> DEFINE all == ListKnowledge(f)
           Sources3 == {QaItems(f), DocumentItems(f), KnowledgeUnitItems(f)}
<1>1. /\ all \in Seq(AnyShown) /\ \A i, j \in 1..Len(all) : all[i] = all[j] => i = j
      /\ \A s \in Sources3 : \A i \in 1..Len(s) : \E k \in 1..Len(all) : k <= 3 * i /\ all[k] = s[i]
  BY WholeList
<1>2. \A o, n \in Nat : Page(f, o, n) = SubSeq(all, o + 1, IF o + n < Len(all) THEN o + n ELSE Len(all))
  BY DEF Page
<1>3. \A s \in Sources3 : DOMAIN s = 1..Len(s) /\ Len(s) \in Nat
  <2>1. QaItems(f) \in Seq(Shown("qa"))
    BY SourcesAre
  <2>2. DocumentItems(f) \in Seq(Shown("document"))
    BY SourcesAre
  <2>3. KnowledgeUnitItems(f) \in Seq(Shown("knowledge"))
    BY SourcesAre
  <2> QED
    BY <2>1, <2>2, <2>3
<1> HIDE DEF all, Sources3
<1>4. Cardinality(ToSet(all)) = Len(all)
  BY <1>1, DistinctLength
<1>5. ASSUME NEW s \in Sources3, NEW i \in DOMAIN s PROVE s[i] \in ToSet(Page(f, 0, 3 * i))
  <2>1. i \in 1..Len(s) /\ i \in Nat
    BY <1>3
  <2>2. PICK k \in 1..Len(all) : k <= 3 * i /\ all[k] = s[i]
    BY <1>1, <2>1
  <2> DEFINE m == IF 3 * i < Len(all) THEN 3 * i ELSE Len(all)
             p == SubSeq(all, 1, m)
  <2>3. m \in Nat /\ m <= Len(all) /\ k \in 1..m /\ Len(all) \in Nat
    BY <1>1, <2>1, <2>2
  <2>4. Page(f, 0, 3 * i) = p
    <3>1. 0 \in Nat /\ 3 * i \in Nat /\ 0 + 1 = 1 /\ 0 + 3 * i = 3 * i
      BY <2>1
    <3> QED
      BY <1>2, <3>1
  <2>5. \A j \in 1..m : all[j] \in AnyShown
    BY <1>1, <2>3, ElementOfSeq
  <2> HIDE DEF m
  <2>6. p \in Seq(AnyShown) /\ Len(p) = m /\ \A j \in 1..m : p[j] = all[j]
    BY <2>3, <2>5, SubSeqProperties
  <2> HIDE DEF p
  <2>7. p[k] = s[i] /\ k \in 1..Len(p)
    BY <2>2, <2>3, <2>6
  <2> QED
    BY <2>4, <2>6, <2>7, ToSetIs
<1>6. Page(f, 0, Len(all)) = all
  <2>1. Page(f, 0, Len(all)) = SubSeq(all, 1, Len(all))
    <3>1. 0 \in Nat /\ Len(all) \in Nat /\ 0 + 1 = 1 /\ 0 + Len(all) = Len(all)
      BY <1>1
    <3> QED
      BY <1>2, <3>1
  <2> QED
    BY <1>1, <2>1, SubSeqFull
<1>7. ASSUME NEW o \in 0..Len(all), NEW n \in 1..2
      PROVE  Page(f, o, n) \o Page(f, o + n, Len(all)) = Page(f, o, Len(all))
  <2>1. n \in Nat /\ o \in Nat /\ o + n \in Nat /\ Len(all) \in Nat
    BY <1>1
  <2> DEFINE page(x, k) == SubSeq(all, x + 1, IF x + k < Len(all) THEN x + k ELSE Len(all))
  <2>2. page(o, n) \o page(o + n, Len(all)) = page(o, Len(all))
    BY <1>1, <2>1, PagesJoin
  <2>3. /\ Page(f, o, n) = page(o, n) /\ Page(f, o + n, Len(all)) = page(o + n, Len(all))
        /\ Page(f, o, Len(all)) = page(o, Len(all))
    BY <1>2, <2>1
  <2> HIDE DEF page
  <2> QED
    BY <2>2, <2>3
<1> QED
  BY <1>4, <1>5, <1>6, <1>7 DEF all, Sources3

-----------------------------------------------------------------------------
(* What the company sees *)

LEMMA CompanyAgrees == CompanyInv => ReportsAgree
BY TrendAgreed, ShareStable, HistoryAgreed, LibraryWhole DEF ReportsAgree

\* Whatever a company asks, hands off, writes up and deletes, the dashboard, the
\* history and the library show the same rows: data/dashboard.py, data/history.py and
\* data/knowledge_library.py are computed from tables that cannot contradict each
\* other.
THEOREM ReportsAlwaysAgree == ReportInit /\ [][ReportNext]_reportVars => []ReportsAgree
BY CompanyInit, CompanyStep, CompanyAgrees, PTL

\* And a month that is over keeps its figure, unless a question is deleted
\* (_knowledge_accumulation).
THEOREM MonthsAlwaysStand == ReportInit /\ [][ReportNext]_reportVars => [][MonthsStand]_reportVars
<1>1. CompanyInv /\ [ReportNext]_reportVars => [MonthsStand]_reportVars
  BY MonthsStanding
<1> QED
  BY <1>1, CompanyInit, CompanyStep, PTL

\* A behaviour of the instance is one of the company's, if it is not one of the desk's.
LEMMA InstanceSteps ==
  [AtTheDesk \/ InTheCompany]_<<vars, reportVars, company>> => [ReportNext]_reportVars
BY DEF AtTheDesk, InTheCompany

\* The dashboard, the history and the library agree in every behaviour of the two
\* screens' instance (data/dashboard.py, data/history.py, data/knowledge_library.py).
THEOREM CompanySeesTheSame == MCSpec => []CompanyReports
<1>1. MCInit => ReportInit
  BY DEF MCInit
<1>2. ReportsAgree => CompanyReports
  BY DEF CompanyReports
<1> QED
  BY <1>1, <1>2, InstanceSteps, ReportsAlwaysAgree, PTL DEF MCSpec

\* A month that is over keeps its figure in every behaviour of the instance
\* (_knowledge_accumulation).
THEOREM CompanyMonthsStand == MCSpec => CompanyMonths
<1>1. MCInit => ReportInit
  BY DEF MCInit
<1>2. [MonthsStand]_reportVars => [company => MonthsStand]_reportVars
  OBVIOUS
<1> QED
  BY <1>1, <1>2, InstanceSteps, MonthsAlwaysStand, PTL DEF MCSpec, CompanyMonths

==============================================================================
