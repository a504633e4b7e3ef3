-------------------------- MODULE AgentGraphProofs --------------------------
(***************************************************************************)
(* Proofs about AgentGraph, for any set of people, any number of slots and *)
(* clarifications, and any combination of the optional nodes; and about    *)
(* the two modules that detail it over the same checkpoint, EventReplay    *)
(* and Answering, each shown to implement the one before.                  *)
(***************************************************************************)
EXTENDS MCAgentGraph, ListProofs

-----------------------------------------------------------------------------
(* The operators on candidate lists *)

\* A function on 1..n is a sequence of length n.
LEMMA FunctionIsSeq ==
  ASSUME NEW S, NEW n \in Nat, NEW f \in [1..n -> S]
  PROVE  f \in Seq(S) /\ Len(f) = n
<1>1. f \in Seq(S)
  BY SeqDef
<1> QED
  BY <1>1, LenProperties

\* Reselecting permutes a list: no element appears, disappears or is doubled.
LEMMA MoveToFrontPermutes ==
  ASSUME NEW S, NEW s \in Seq(S), NEW i \in DOMAIN s
  PROVE  /\ MoveToFront(s, i) \in Seq(S)
         /\ Len(MoveToFront(s, i)) = Len(s)
         /\ Range(MoveToFront(s, i)) \subseteq Range(s)
         /\ IsInjective(s) => IsInjective(MoveToFront(s, i))
<1> DEFINE t == MoveToFront(s, i)
<1>1. DOMAIN s = 1..Len(s) /\ Len(s) \in Nat /\ i \in 1..Len(s)
  BY LenProperties
<1>2. DOMAIN t = 1..Len(s)
  BY <1>1 DEF MoveToFront
<1>3. \A k \in 1..Len(s) : t[k] = IF k = 1 THEN s[i] ELSE IF k <= i THEN s[k - 1] ELSE s[k]
  BY <1>1 DEF MoveToFront
<1>4. \A k \in 1..Len(s) : \E j \in 1..Len(s) : t[k] = s[j] /\ s[j] \in S
  BY <1>1, <1>3, ElementOfSeq
<1>5. t \in [1..Len(s) -> S]
  BY <1>1, <1>2, <1>4 DEF MoveToFront
<1>6. t \in Seq(S) /\ Len(t) = Len(s)
  BY <1>1, <1>5, FunctionIsSeq
<1>7. Range(t) \subseteq Range(s)
  BY <1>1, <1>2, <1>4 DEF Range
<1>8. ASSUME IsInjective(s) PROVE IsInjective(t)
  BY <1>1, <1>2, <1>3, <1>8 DEF IsInjective
<1> QED
  BY <1>6, <1>7, <1>8

\* Joining two lists without repetitions and without common elements.
LEMMA JoinDistinct ==
  ASSUME NEW S, NEW s \in Seq(S), NEW t \in Seq(S)
  PROVE  /\ s \o t \in Seq(S)
         /\ Len(s \o t) = Len(s) + Len(t)
         /\ Range(s \o t) = Range(s) \cup Range(t)
         /\ IsInjective(s) /\ IsInjective(t) /\ Range(s) \cap Range(t) = {}
              => IsInjective(s \o t)
<1>1. /\ s \o t \in Seq(S) /\ Len(s \o t) = Len(s) + Len(t)
      /\ \A k \in 1..Len(s) + Len(t) :
           (s \o t)[k] = IF k <= Len(s) THEN s[k] ELSE t[k - Len(s)]
  BY ConcatProperties
<1>2. /\ Len(s) \in Nat /\ Len(t) \in Nat
      /\ DOMAIN s = 1..Len(s) /\ DOMAIN t = 1..Len(t)
      /\ DOMAIN (s \o t) = 1..Len(s) + Len(t)
  BY <1>1, LenProperties
<1>3. \A k \in 1..Len(t) : k + Len(s) \in 1..Len(s) + Len(t) /\ (s \o t)[k + Len(s)] = t[k]
  BY <1>1, <1>2
<1>4. Range(s \o t) = Range(s) \cup Range(t)
  <2>1. \A k \in DOMAIN (s \o t) : (s \o t)[k] \in Range(s) \cup Range(t)
    BY <1>1, <1>2 DEF Range
  <2>2. \A k \in DOMAIN s : s[k] \in Range(s \o t)
    BY <1>1, <1>2 DEF Range
  <2>3. \A k \in DOMAIN t : t[k] \in Range(s \o t)
    BY <1>2, <1>3 DEF Range
  <2> QED
    BY <2>1, <2>2, <2>3 DEF Range
<1>5. ASSUME IsInjective(s), IsInjective(t), Range(s) \cap Range(t) = {}
      PROVE  IsInjective(s \o t)
  <2>1. \A j \in DOMAIN s, k \in DOMAIN t : s[j] # t[k]
    BY <1>5 DEF Range
  <2> QED
    BY <1>1, <1>2, <1>5, <2>1 DEF IsInjective
<1> QED
  BY <1>1, <1>4, <1>5

\* Dropping the top pick of a list without repetitions removes it from the list.
LEMMA TailForgetsHead ==
  ASSUME NEW S, NEW s \in Seq(S), s # <<>>
  PROVE  /\ Head(s) \in S /\ Head(s) = s[1] /\ Head(s) \in Range(s)
         /\ Tail(s) \in Seq(S) /\ Len(Tail(s)) = Len(s) - 1
         /\ Range(Tail(s)) \subseteq Range(s)
         /\ IsInjective(s) => IsInjective(Tail(s)) /\ Head(s) \notin Range(Tail(s))
<1>1. /\ Head(s) \in S /\ Tail(s) \in Seq(S) /\ Len(Tail(s)) = Len(s) - 1
      /\ \A k \in 1..Len(Tail(s)) : Tail(s)[k] = s[k + 1]
  BY HeadTailProperties
<1>2. Len(s) \in Nat \ {0} /\ DOMAIN s = 1..Len(s) /\ DOMAIN Tail(s) = 1..(Len(s) - 1)
  BY <1>1, LenProperties, EmptySeq
<1>3. Head(s) = s[1] /\ 1 \in DOMAIN s
  BY <1>2
<1>4. \A k \in DOMAIN Tail(s) : k + 1 \in DOMAIN s /\ k + 1 # 1 /\ Tail(s)[k] = s[k + 1]
  BY <1>1, <1>2
<1>5. Range(Tail(s)) \subseteq Range(s)
  BY <1>4 DEF Range
<1>6. ASSUME IsInjective(s) PROVE IsInjective(Tail(s))
  <2> SUFFICES ASSUME NEW j \in DOMAIN Tail(s), NEW k \in DOMAIN Tail(s),
                      Tail(s)[j] = Tail(s)[k]
               PROVE  j = k
    BY DEF IsInjective
  <2>1. j + 1 = k + 1
    BY <1>4, <1>6 DEF IsInjective
  <2> QED
    BY <1>2, <2>1
<1>7. ASSUME IsInjective(s) PROVE Head(s) \notin Range(Tail(s))
  BY <1>3, <1>4, <1>7 DEF Range, IsInjective
<1> QED
  BY <1>1, <1>3, <1>5, <1>6, <1>7 DEF Range

-----------------------------------------------------------------------------
(* What C6 seats *)

\* Whoever C6 pins is a person who has neither declined nor a seat.
LEMMA PinSeatable ==
  ASSUME GraphTypeOK
  PROVE  Pin = None \/ (Pin \in People /\ Seatable(Pin))
BY DEF GraphTypeOK, AgentState, Pin, Seatable

\* The fresh candidates fit the free slots, are pairwise distinct, and are neither
\* shown already nor declined; a pin that finds a slot comes first.
LEMMA FreshFits ==
  ASSUME GraphTypeOK, NEW f \in Fresh
  PROVE  /\ f \in Seq(People)
         /\ Len(values.recs) <= TopK => Len(values.recs) + Len(f) <= TopK
         /\ IsInjective(f)
         /\ Range(f) \cap (values.declined \cup Shown) = {}
         /\ Pin # None /\ values.topics /\ Len(values.recs) < TopK
              => f # <<>> /\ Head(f) = Pin
<1> DEFINE free == TopK - Len(values.recs)
           head == IF Pin = None THEN <<>> ELSE <<Pin>>
           room == free - Len(head)
           k    == IF Cardinality(Candidates) < room THEN Cardinality(Candidates) ELSE room
<1>0. Len(values.recs) \in Nat /\ TopK \in Nat \ {0}
  BY GraphAssumption, LenProperties DEF GraphTypeOK, AgentState
<1>1. CASE f = <<>> /\ (Len(values.recs) >= TopK \/ ~values.topics)
  BY <1>0, <1>1, EmptySeq DEF IsInjective, Range
<1>2. CASE Len(values.recs) < TopK /\ \E r \in Rankings(Candidates, k) : f = head \o r
  <2>1. PICK r \in Rankings(Candidates, k) : f = head \o r
    BY <1>2
  <2>2. /\ head \in Seq(People) /\ Len(head) \in {0, 1} /\ IsInjective(head)
        /\ Range(head) = IF Pin = None THEN {} ELSE {Pin}
    BY PinSeatable DEF IsInjective, Range
  <2>3. IsFiniteSet(Candidates) /\ Candidates \subseteq People
    BY GraphAssumption, FS_Subset DEF Candidates, GraphTypeOK, AgentState
  <2> HIDE DEF head
  <2>4. room \in Nat /\ Cardinality(Candidates) \in Nat
    BY <1>0, <1>2, <2>2, <2>3, FS_CardinalityType
  <2>5. k \in Nat /\ k <= room
    BY <2>4
  <2> HIDE DEF k
  <2>6. r \in [1..k -> Candidates] /\ IsInjective(r)
    BY <2>1 DEF Rankings, Injection
  <2>7. r \in Seq(People) /\ Len(r) = k /\ Range(r) \subseteq Candidates
    <3>1. r \in [1..k -> People]
      BY <2>3, <2>6
    <3> QED
      BY <2>5, <2>6, <3>1, FunctionIsSeq DEF Range
  <2>8. Range(head) \cap Range(r) = {}
    BY <2>2, <2>7 DEF Candidates
  <2>9. /\ f \in Seq(People) /\ Len(f) = Len(head) + k
        /\ IsInjective(f) /\ Range(f) = Range(head) \cup Range(r)
    BY <2>1, <2>2, <2>6, <2>7, <2>8, JoinDistinct
  <2>10. Range(f) \cap (values.declined \cup Shown) = {}
    BY <2>2, <2>7, <2>9, PinSeatable DEF Candidates, Seatable
  <2>11. Len(values.recs) + Len(f) <= TopK
    <3> DEFINE n == Len(values.recs)
               h == Len(head)
    <3>1. k <= (TopK - n) - h
      BY <2>5, Zenon
    <3>2. Len(f) = h + k /\ h \in Nat /\ k \in Nat /\ n \in Nat
      BY <1>0, <2>2, <2>5, <2>9
    <3> HIDE DEF n, h
    <3>3. n + Len(f) <= TopK
      BY <1>0, <3>1, <3>2
    <3> QED
      BY <3>3 DEF n
  <2>12. Pin # None => f # <<>> /\ Head(f) = Pin
    <3> SUFFICES ASSUME Pin # None PROVE f # <<>> /\ Head(f) = Pin
      OBVIOUS
    <3>1. head = <<Pin>>
      BY DEF head
    <3>2. Len(f) = 1 + k /\ f[1] = Pin
      BY <2>1, <2>2, <2>5, <2>7, <2>9, <3>1, ConcatProperties
    <3> QED
      BY <2>5, <2>9, <3>2, EmptySeq, HeadTailProperties
  <2> QED
    BY <2>9, <2>10, <2>11, <2>12
<1>3. \/ f = <<>> /\ (Len(values.recs) >= TopK \/ ~values.topics)
      \/ ~(Len(values.recs) >= TopK) /\ f \in {head \o r : r \in Rankings(Candidates, k)}
  BY Zenon DEF Fresh
<1>4. ~(Len(values.recs) >= TopK) => Len(values.recs) < TopK
  BY <1>0
<1> QED
  BY <1>1, <1>2, <1>3, <1>4

-----------------------------------------------------------------------------
(* Types *)

\* A node that runs without a human keeps the checkpoint well typed.
LEMMA ComputeTyped == GraphTypeOK /\ Compute => GraphTypeOK'
<1> SUFFICES ASSUME GraphTypeOK, Compute PROVE GraphTypeOK'
  OBVIOUS
<1> USE GraphAssumption DEF GraphTypeOK, AgentState, Goto, Nodes, Terminals, InterruptNodes, Routes
<1>1. CASE C1Intent
  <2>1. PICK t \in BOOLEAN : values' = [values EXCEPT !.topics = t]
    BY <1>1 DEF C1Intent
  <2>2. node' \in Nodes
    BY <1>1 DEF C1Intent
  <2> QED
    BY <2>1, <2>2
<1>2. CASE C2Sufficiency
  BY <1>2 DEF C2Sufficiency
<1>3. CASE C3Embed
  BY <1>3 DEF C3Embed
<1>4. CASE KnowledgeAnswer
  BY <1>4 DEF KnowledgeAnswer
<1>5. CASE C4Retrieve
  BY <1>5 DEF C4Retrieve
<1>6. CASE C5Route
  <2>1. PICK r \in Routes : values' = [values EXCEPT !.route = r] /\ node' = RouteTarget(r)
    BY <1>6 DEF C5Route
  <2>2. node' \in Nodes
    BY <2>1 DEF RouteTarget
  <2> QED
    BY <2>1, <2>2
<1>7. CASE SelfAnswer
  BY <1>7 DEF SelfAnswer
<1>8. CASE AdditiveAnswer
  BY <1>8 DEF AdditiveAnswer
<1>9. CASE PriorAnswer
  BY <1>9 DEF PriorAnswer
<1>10. CASE C6Score
  <2>1. PICK f \in Fresh : /\ values' = [values EXCEPT !.recs = values.recs \o f, !.referred = None]
                          /\ node' = AfterC6(values.route, values.recs \o f)
    BY <1>10 DEF C6Score
  <2>2. values.recs \o f \in Seq(People)
    BY <2>1, FreshFits, JoinDistinct
  <2>3. node' \in Nodes
    BY <2>1 DEF AfterC6, HandoffTarget
  <2> QED
    BY <2>1, <2>2, <2>3
<1>11. CASE Answerability
  BY <1>11 DEF Answerability
<1>12. CASE C7Draft
  BY <1>12 DEF C7Draft
<1>13. CASE Reroute
  <2>1. values.declined \cup {Head(values.recs)} \in SUBSET People \/ values.recs = <<>>
    BY TailForgetsHead
  <2>2. Tail(values.recs) \in Seq(People) \/ values.recs = <<>>
    BY TailForgetsHead
  <2> QED
    BY <1>13, <2>1, <2>2, EmptySeq DEF Reroute
<1>14. CASE Terminal
  BY <1>14, TailForgetsHead DEF Terminal, Finished
<1> QED
  BY <1>1, <1>2, <1>3, <1>4, <1>5, <1>6, <1>7, <1>8, <1>9, <1>10, <1>11, <1>12, <1>13, <1>14 DEF Compute

\* What the service does to a thread: a run, a reply, an outcome.
LEMMA DriveTyped ==
  ASSUME GraphTypeOK
  PROVE  /\ \A q \in Questions \cup {0} : Invoke(q) => GraphTypeOK'
         /\ Ask => GraphTypeOK'
         /\ \A o : Send(o) => GraphTypeOK'
<1> USE GraphAssumption DEF GraphTypeOK, AgentState, Goto, Nodes, Terminals, InterruptNodes, Routes
<1>1. ASSUME NEW q \in Questions \cup {0}, Invoke(q) PROVE GraphTypeOK'
  BY <1>1, EmptySeq DEF Invoke, ResetValues, Unwritten
<1>2. ASSUME Ask PROVE GraphTypeOK'
  <2>1. values.followups + 1 \in Nat
    OBVIOUS
  <2> QED
    BY <1>2, <2>1 DEF Ask
<1>3. ASSUME NEW o, Send(o) PROVE GraphTypeOK'
  BY <1>3 DEF Send, AfterSend
<1> QED
  BY <1>1, <1>2, <1>3

\* What it writes into one at rest.
LEMMA SteerTyped ==
  ASSUME GraphTypeOK
  PROVE  /\ \A i \in DOMAIN values.recs : Reselect(i) => GraphTypeOK'
         /\ \A p \in People : SeatReferral(p) => GraphTypeOK'
         /\ Reopen => GraphTypeOK'
         /\ \A ids \in Seq(Nat), e \in {"none", "done", "message"} :
              WriteBack(ids, e) => GraphTypeOK'
<1> USE DEF GraphTypeOK, AgentState, Goto, Nodes, Terminals, InterruptNodes, Routes
<1>1. ASSUME NEW i \in DOMAIN values.recs, Reselect(i) PROVE GraphTypeOK'
  <2>1. i \in DOMAIN values.recIds /\ values.recIds # <<>>
    BY <1>1, LenProperties DEF Reselect
  <2>2. /\ MoveToFront(values.recs, i) \in Seq(People)
        /\ MoveToFront(values.recIds, i) \in Seq(Nat)
        /\ Len(MoveToFront(values.recIds, i)) = Len(values.recIds)
    BY <2>1, MoveToFrontPermutes
  <2>3. MoveToFront(values.recIds, i)[1] \in Nat
    BY <2>1, <2>2, LenProperties, EmptySeq, ElementOfSeq
  <2> QED
    BY <1>1, <2>2, <2>3 DEF Reselect
<1>2. ASSUME NEW p \in People, SeatReferral(p) PROVE GraphTypeOK'
  BY <1>2 DEF SeatReferral
<1>3. ASSUME Reopen PROVE GraphTypeOK'
  BY <1>3 DEF Reopen, AfterC6, HandoffTarget
<1>4. ASSUME NEW ids \in Seq(Nat), NEW e \in {"none", "done", "message"}, WriteBack(ids, e)
      PROVE  GraphTypeOK'
  <2>1. PICK r \in Seq(Nat), n \in Nat, b \in BOOLEAN, l \in {"none", "done", "message"} :
          values' = [values EXCEPT !.recIds = r, !.primary = n, !.fallbackReq = b, !.lastEvent = l]
    <3>1. ids # <<>> => Head(ids) \in Nat
      BY HeadTailProperties
    <3> QED
      BY <1>4, <3>1 DEF WriteBack
  <2>2. values' \in AgentState
    BY <2>1
  <2> QED
    BY <1>4, <2>2 DEF WriteBack
<1> QED
  BY <1>1, <1>2, <1>3, <1>4

-----------------------------------------------------------------------------
(* Safety of the candidate list and of the hand-off *)

\* The nodes that do not touch the candidates reach the hand-off only from it.
LEMMA OtherNodesSafe ==
  ASSUME GraphTypeOK, GraphSafe, Compute, ~C6Score, ~Reroute
  PROVE  GraphSafe'
<1>1. values'.recs = values.recs /\ values'.declined = values.declined
  BY DEF Compute, GraphTypeOK, AgentState, C1Intent, C2Sufficiency, C3Embed, KnowledgeAnswer, C4Retrieve, C5Route,
         SelfAnswer, AdditiveAnswer, PriorAnswer, Answerability, C7Draft, Terminal
<1>2. ShownNotDeclined'
  BY <1>1 DEF GraphSafe, ShownNotDeclined, Shown
<1>3. \/ node' \notin {"answerability", "c7_draft", "send", "reroute"}
      \/ /\ node \in {"answerability", "c7_draft"} /\ node' \in {"c7_draft", "send"}
         /\ values'.route = values.route
  BY DEF Compute, Goto, RouteTarget, Routes, Finished,
         C1Intent, C2Sufficiency, C3Embed, KnowledgeAnswer, C4Retrieve, C5Route,
         SelfAnswer, AdditiveAnswer, PriorAnswer, Answerability, C7Draft, Terminal
<1> QED
  BY <1>1, <1>2, <1>3 DEF GraphSafe, HandoffHasCandidate, DocumentNeverWaits

\* C6 fills the free slots without seating anybody twice or anybody who declined, and
\* goes to the hand-off only with a candidate.
LEMMA C6Safe == ASSUME GraphTypeOK, GraphSafe, C6Score PROVE GraphSafe'
<1>1. PICK f \in Fresh : /\ values' = [values EXCEPT !.recs = values.recs \o f, !.referred = None]
                         /\ node' = AfterC6(values.route, values.recs \o f)
  BY DEF C6Score, Goto
<1>2. /\ values'.recs = values.recs \o f
      /\ values'.declined = values.declined /\ values'.route = values.route
  BY <1>1 DEF GraphTypeOK, AgentState
<1>3. values.recs \in Seq(People)
  BY DEF GraphTypeOK, AgentState
<1>4. ShownNotDeclined'
  <2>1. Shown' = Shown \cup Range(f) /\ IsInjective(values'.recs)
        /\ Len(values'.recs) = Len(values.recs) + Len(f)
    BY <1>2, <1>3, FreshFits, JoinDistinct DEF Shown, GraphSafe, ShownNotDeclined
  <2> QED
    BY <1>2, <2>1, FreshFits DEF GraphSafe, ShownNotDeclined
<1>5. HandoffHasCandidate' /\ DocumentNeverWaits'
  BY <1>1, <1>2 DEF AfterC6, HandoffTarget, HandoffHasCandidate, DocumentNeverWaits
<1> QED
  BY <1>4, <1>5 DEF GraphSafe

\* A reroute declines the first candidate and keeps the others.
LEMMA RerouteSafe == ASSUME GraphTypeOK, GraphSafe, Reroute PROVE GraphSafe'
<1>1. values.recs \in Seq(People)
  BY DEF GraphTypeOK, AgentState
<1>2. ShownNotDeclined'
  <2>1. CASE values'.recs = <<>>
    BY <2>1, GraphAssumption, EmptySeq DEF ShownNotDeclined, Shown, Range, IsInjective
  <2>2. CASE values'.recs # <<>>
    <3>1. /\ values.recs # <<>> /\ values'.recs = Tail(values.recs)
          /\ values'.declined = values.declined \cup {Head(values.recs)}
      BY <2>2 DEF Reroute, GraphTypeOK, AgentState
    <3>2. /\ IsInjective(values'.recs) /\ Len(values'.recs) = Len(values.recs) - 1
          /\ Shown' \subseteq Shown /\ Head(values.recs) \notin Shown'
      BY <1>1, <3>1, TailForgetsHead DEF GraphSafe, ShownNotDeclined, Shown
    <3>3. Len(values'.recs) <= TopK
      BY <1>1, <3>2, GraphAssumption, LenProperties DEF GraphSafe, ShownNotDeclined
    <3> QED
      BY <3>1, <3>2, <3>3 DEF GraphSafe, ShownNotDeclined
  <2> QED
    BY <2>1, <2>2
<1> QED
  BY <1>2 DEF Reroute, Goto, GraphSafe, HandoffHasCandidate, DocumentNeverWaits

\* A node that runs without a human keeps the candidate list safe.
LEMMA ComputeSafe == GraphTypeOK /\ GraphSafe /\ Compute => GraphSafe'
  BY OtherNodesSafe, C6Safe, RerouteSafe

\* So does a fresh invoke, a resume or a reopened document answer.
LEMMA DriveSafe ==
  ASSUME GraphTypeOK, GraphSafe
  PROVE  /\ \A q : Invoke(q) => GraphSafe'
         /\ Ask => GraphSafe'
         /\ \A o : Send(o) => GraphSafe'
<1>1. ASSUME NEW q, Invoke(q) PROVE GraphSafe'
  <2>1. values'.recs = <<>> /\ node' = "c1_intent"
    BY <1>1 DEF Invoke, ResetValues, Unwritten, Goto
  <2> QED
    BY <2>1, GraphAssumption, EmptySeq
    DEF GraphSafe, ShownNotDeclined, Shown, Range, IsInjective, HandoffHasCandidate, DocumentNeverWaits
<1>2. ASSUME Ask PROVE GraphSafe'
  BY <1>2 DEF Ask, Goto, GraphTypeOK, AgentState, GraphSafe, ShownNotDeclined, Shown,
              HandoffHasCandidate, DocumentNeverWaits
<1>3. ASSUME NEW o, Send(o) PROVE GraphSafe'
  BY <1>3 DEF Send, AfterSend, Goto, GraphSafe, ShownNotDeclined, Shown,
              HandoffHasCandidate, DocumentNeverWaits
<1> QED
  BY <1>1, <1>2, <1>3

\* So does what the service writes into a resting checkpoint.
LEMMA SteerSafe ==
  ASSUME GraphTypeOK, GraphSafe
  PROVE  /\ \A i \in DOMAIN values.recs : Reselect(i) => GraphSafe'
         /\ \A p : SeatReferral(p) => GraphSafe'
         /\ Reopen => GraphSafe'
         /\ \A ids, e : WriteBack(ids, e) => GraphSafe'
<1> USE DEF GraphTypeOK, AgentState
<1>1. ASSUME NEW i \in DOMAIN values.recs, Reselect(i) PROVE GraphSafe'
  <2>1. /\ values'.recs = MoveToFront(values.recs, i)
        /\ values'.declined = values.declined /\ values'.route = values.route /\ node' = node
    BY <1>1 DEF Reselect
  <2>2. /\ Len(values'.recs) = Len(values.recs)
        /\ Shown' \subseteq Shown
        /\ IsInjective(values'.recs)
    BY <2>1, MoveToFrontPermutes DEF GraphSafe, ShownNotDeclined, Shown
  <2>3. values.recs # <<>> => values'.recs # <<>>
    BY <2>2, EmptySeq, LenProperties
  <2> QED
    BY <2>1, <2>2, <2>3 DEF GraphSafe, ShownNotDeclined, HandoffHasCandidate, DocumentNeverWaits
<1>2. ASSUME NEW p, SeatReferral(p) PROVE GraphSafe'
  BY <1>2 DEF SeatReferral, GraphSafe, ShownNotDeclined, Shown, HandoffHasCandidate, DocumentNeverWaits
<1>3. ASSUME Reopen PROVE GraphSafe'
  BY <1>3 DEF Reopen, FallbackOffered, AfterC6, HandoffTarget, Goto, GraphSafe, ShownNotDeclined,
              Shown, HandoffHasCandidate, DocumentNeverWaits
<1>4. ASSUME NEW ids, NEW e, WriteBack(ids, e) PROVE GraphSafe'
  BY <1>4 DEF WriteBack, GraphSafe, ShownNotDeclined, Shown, HandoffHasCandidate, DocumentNeverWaits
<1> QED
  BY <1>1, <1>2, <1>3, <1>4

-----------------------------------------------------------------------------
(* The graph under any legal sequence of service calls *)

\* The unwritten thread is well typed and safe.
LEMMA InitSafe == GraphInit => GraphTypeOK /\ GraphSafe
<1> SUFFICES ASSUME GraphInit PROVE GraphTypeOK /\ GraphSafe
  OBVIOUS
<1>1. GraphTypeOK
  BY GraphAssumption, EmptySeq
  DEF GraphInit, Unwritten, Finished, GraphTypeOK, AgentState, Routes
<1>2. GraphSafe
  BY GraphAssumption, EmptySeq
  DEF GraphInit, Unwritten, Finished, GraphSafe, ShownNotDeclined, Shown, Range, IsInjective,
      HandoffHasCandidate, DocumentNeverWaits
<1> QED
  BY <1>1, <1>2

\* Each driver action is one of the graph's operations, with arguments in range.
LEMMA DriverOperations ==
  ASSUME GraphTypeOK, GraphNext
  PROVE  \/ Compute \/ Ask \/ Reopen
         \/ \E q \in Questions \cup {0} : Invoke(q)
         \/ \E o \in Outcomes : Send(o)
         \/ \E i \in DOMAIN values.recs : Reselect(i)
         \/ \E p \in People : SeatReferral(p)
         \/ \E ids \in Seq(Nat), e \in {"none", "done", "message"} : WriteBack(ids, e)
<1>1. CASE Start
  BY <1>1 DEF Start, GraphTypeOK, AgentState
<1>2. CASE RecordSegment
  <2>1. [i \in DOMAIN values.recs |-> i] \in Seq(Nat) /\ <<>> \in Seq(Nat)
    <3>1. Len(values.recs) \in Nat /\ DOMAIN values.recs = 1..Len(values.recs)
      BY LenProperties DEF GraphTypeOK, AgentState
    <3>2. [i \in DOMAIN values.recs |-> i] \in [1..Len(values.recs) -> Nat]
      BY <3>1
    <3> QED
      BY <3>1, <3>2, FunctionIsSeq, EmptySeq
  <2> QED
    BY <1>2, <2>1 DEF RecordSegment
<1> QED
  BY <1>1, <1>2 DEF GraphNext, Resume, Steer

\* Every step of the graph under its drivers keeps types and safety.
LEMMA NextSafe == GraphTypeOK /\ GraphSafe /\ [GraphNext]_graphVars => (GraphTypeOK /\ GraphSafe)'
<1> SUFFICES ASSUME GraphTypeOK, GraphSafe, [GraphNext]_graphVars
             PROVE  GraphTypeOK' /\ GraphSafe'
  OBVIOUS
<1>1. CASE UNCHANGED graphVars
  BY <1>1 DEF graphVars, GraphTypeOK, GraphSafe, ShownNotDeclined, Shown, HandoffHasCandidate,
              DocumentNeverWaits
<1>2. CASE GraphNext
  BY <1>2, DriverOperations, ComputeTyped, ComputeSafe, DriveTyped, DriveSafe, SteerTyped, SteerSafe
<1> QED
  BY <1>1, <1>2

\* Types and safety hold in every reachable checkpoint.
LEMMA GraphInvariant == GraphSpec => [](GraphTypeOK /\ GraphSafe)
  BY InitSafe, NextSafe, PTL DEF GraphSpec

\* The checkpoint keeps its shape on every path, for any people and any wiring.
THEOREM GraphTyped == GraphSpec => []GraphTypeOK
  BY GraphInvariant, PTL

\* Whoever declined, was excluded or referred the question away is never shown again in
\* it, nobody takes two slots, and no more than TopK candidates are shown.
THEOREM NeverShownAgain == GraphSpec => []ShownNotDeclined
  BY GraphInvariant, PTL DEF GraphSafe

\* The draft and the hand-off always have an addressee.
THEOREM NeverHandedToNobody == GraphSpec => []HandoffHasCandidate
  BY GraphInvariant, PTL DEF GraphSafe

\* A question routed to documents never waits for a person.
THEOREM DocumentsWaitForNobody == GraphSpec => []DocumentNeverWaits
  BY GraphInvariant, PTL DEF GraphSafe

\* Who is shown, handed to and waited for fit together at every checkpoint.
THEOREM GraphStaysSafe == GraphSpec => []GraphSafe
  BY GraphInvariant, PTL

-----------------------------------------------------------------------------
(* A referral lives for one reroute *)

\* The referral is written at the hand-off, on somebody neither declined nor on top;
\* the decline that follows empties the slots, so the pin is free to be seated.
ReferralInv ==
  /\ values.recs # <<>> => values.topics
  /\ node \in {"c1_intent", "c2_sufficiency", "ask"} => values.recs = <<>>
  /\ values.referred # None =>
       /\ node \in {"send", "reroute", "c6_score"}
       /\ values.referred \notin values.declined
       /\ node # "c6_score" => values.recs # <<>> /\ values.referred # Head(values.recs)
       /\ node = "c6_score" => values.recs = <<>> /\ values.topics

\* A referral is pending only between the decline that carries it and C6, which seats it.
LEMMA NextReferral ==
  GraphTypeOK /\ GraphSafe /\ ReferralInv /\ [GraphNext]_graphVars => ReferralInv'
<1> SUFFICES ASSUME GraphTypeOK, GraphSafe, ReferralInv, [GraphNext]_graphVars
             PROVE  ReferralInv'
  OBVIOUS
<1> USE DEF GraphTypeOK, AgentState, ReferralInv, Goto
<1>1. ASSUME Compute PROVE ReferralInv'
  <2>1. CASE C1Intent
    BY <2>1 DEF C1Intent
  <2>2. CASE C2Sufficiency
    BY <2>2 DEF C2Sufficiency
  <2>3. CASE C3Embed
    BY <2>3 DEF C3Embed
  <2>4. CASE KnowledgeAnswer
    BY <2>4 DEF KnowledgeAnswer
  <2>5. CASE C4Retrieve
    BY <2>5 DEF C4Retrieve
  <2>6. CASE C5Route
    BY <2>6 DEF C5Route, RouteTarget, Routes
  <2>7. CASE SelfAnswer
    BY <2>7 DEF SelfAnswer
  <2>8. CASE AdditiveAnswer
    BY <2>8 DEF AdditiveAnswer
  <2>9. CASE PriorAnswer
    BY <2>9 DEF PriorAnswer
  <2>10. CASE C6Score
    <3>1. PICK f \in Fresh : values' = [values EXCEPT !.recs = values.recs \o f, !.referred = None]
      BY <2>10 DEF C6Score
    <3>2. f # <<>> => values.topics
      BY <3>1 DEF Fresh
    <3>3. values.recs \o f = <<>> => values.recs = <<>>
      BY FreshFits, ConcatEqualIffEmpty
    <3>4. f = <<>> => values.recs \o f = values.recs
      BY ConcatEmptySeq
    <3>5. node' \notin {"c1_intent", "c2_sufficiency", "ask"}
      BY <2>10 DEF C6Score, AfterC6, HandoffTarget
    <3> QED
      BY <3>1, <3>2, <3>3, <3>4, <3>5
  <2>11. CASE Answerability
    BY <2>11 DEF Answerability
  <2>12. CASE C7Draft
    BY <2>12 DEF C7Draft
  <2>13. CASE Reroute
    BY <2>13, EmptySeq DEF Reroute
  <2>14. CASE Terminal
    BY <2>14 DEF Terminal, Terminals, Finished
  <2> QED
    BY <1>1, <2>1, <2>2, <2>3, <2>4, <2>5, <2>6, <2>7, <2>8, <2>9, <2>10, <2>11, <2>12, <2>13, <2>14 DEF Compute
<1>2. CASE Start
  BY <1>2 DEF Start, Invoke, ResetValues, Unwritten
<1>3. CASE Resume
  BY <1>3 DEF Resume, Ask, Send, AfterSend, Outcomes
<1>4. ASSUME NEW i \in DOMAIN values.recs, node = "send", values.referred = None, Reselect(i)
      PROVE  ReferralInv'
  BY <1>4, EmptySeq DEF Reselect
<1>5. ASSUME NEW p \in People, node = "send", Referable(p), SeatReferral(p) PROVE ReferralInv'
  BY <1>5 DEF SeatReferral, Referable
<1>6. CASE RecordSegment
  BY <1>6 DEF RecordSegment, WriteBack, Finished
<1>7. CASE Reopen
  BY <1>7 DEF Reopen, FallbackOffered, AfterC6, HandoffTarget, Finished
<1>8. CASE UNCHANGED graphVars
  BY <1>8 DEF graphVars
<1> QED
  BY <1>1, <1>2, <1>3, <1>4, <1>5, <1>6, <1>7, <1>8 DEF GraphNext, Steer

\* A responder's referral always comes out at rank 1 and is consumed, whatever was
\* shown, pinned or retrieved before.
THEOREM ReferralComesFirst == GraphSpec => ReferralSeated
<1>1. GraphInit => ReferralInv
  BY DEF GraphInit, ReferralInv, Unwritten, Finished
<1>2. GraphTypeOK /\ GraphSafe /\ ReferralInv /\ [GraphNext]_graphVars => ReferralInv'
  BY NextReferral
<1>3. GraphTypeOK /\ ReferralInv /\ [GraphNext]_graphVars
        => [ node = "c6_score" /\ values.referred # None
               => Head(values'.recs) = values.referred /\ values'.referred = None ]_graphVars
  <2> SUFFICES ASSUME GraphTypeOK, ReferralInv, GraphNext,
                      node = "c6_score", values.referred # None
               PROVE  Head(values'.recs) = values.referred /\ values'.referred = None
    OBVIOUS
  <2>1. C6Score
    BY DEF GraphNext, Compute, C1Intent, C2Sufficiency, C3Embed, KnowledgeAnswer, C4Retrieve,
           C5Route, SelfAnswer, AdditiveAnswer, PriorAnswer, Answerability, C7Draft, Reroute,
           Terminal, Terminals, Start, Resume, Ask, Send, Steer, RecordSegment, Reopen,
           FallbackOffered, Finished
  <2>2. PICK f \in Fresh : values' = [values EXCEPT !.recs = values.recs \o f, !.referred = None]
    BY <2>1 DEF C6Score
  <2>3. Pin = values.referred /\ values.topics /\ values.recs = <<>>
    BY DEF ReferralInv, Pin, Seatable, Shown, Range
  <2>4. Len(values.recs) < TopK /\ f \in Seq(People)
    BY <2>3, GraphAssumption, FreshFits, EmptySeq
  <2>5. Head(f) = values.referred
    BY <2>3, <2>4, FreshFits
  <2>6. values.recs \o f = f
    BY <2>3, <2>4, ConcatEmptySeq
  <2> QED
    BY <2>2, <2>5, <2>6 DEF GraphTypeOK, AgentState
<1> QED
  BY <1>1, <1>2, <1>3, GraphInvariant, PTL DEF GraphSpec, ReferralSeated

-----------------------------------------------------------------------------
(* EventReplay: what a client that comes back is told *)

\* Up to C5 nobody has been ranked or written to in this question.
Early == {"c1_intent", "c2_sufficiency", "ask", "c3_embed", "knowledge_answer", "c4_retrieve",
          "c5_route"}

EarlyBlank ==
  /\ node \in Early => values.recs = <<>> /\ values.recIds = <<>> /\ "draft" \notin live
  /\ node \in {"c1_intent", "c2_sufficiency", "ask"} => live \subseteq {"understood"}

\* Nor on the document route.
DocumentBlank == values.route = "document" => values.recIds = <<>> /\ "draft" \notin live

\* What the checkpoint keeps was streamed, and of the route and the reference all is kept.
MarksLive ==
  /\ live \subseteq Marks \cup {"understood", "recommend"}
  /\ marks \subseteq Marks /\ marks \subseteq live
  /\ live \cap {"route", "reference"} \subseteq marks

Understood ==
  /\ node # "c1_intent" /\ ~(node = Finished /\ values.qid = 0) => "understood" \in live
  /\ values.lastEvent # "none" => values.qid # 0

\* C7 is about to surface the ranking that a document answer held back.
ToSurface == node = "c7_draft" /\ values.fallbackReq /\ values.recIds = <<>>

\* Candidates are streamed before anybody is asked to hand off to them; without a
\* critic they are as soon as there are any.
Recommended ==
  /\ node = "send" \/ (CriticWired /\ node = "c7_draft") => "recommend" \in live
  /\ ~CriticWired /\ values.recs # <<>> /\ values.route # "document" /\ ~ToSurface
       => "recommend" \in live

\* A draft is missing from the checkpoint only after a decline.
Drafted ==
  /\ node = "send" => "draft" \in marks
  /\ node = "reroute" => values.recs # <<>>
  /\ "draft" \in live \ marks => values.declined # {}

ReplayInv == EarlyBlank /\ DocumentBlank /\ MarksLive /\ Understood /\ Recommended /\ Drafted

\* A step of the replay is a step of the graph.
LEMMA ReplayNextIsGraphNext == [ReplayNext]_replayVars => [GraphNext]_graphVars
  BY DEF ReplayNext, replayVars, GraphNext, graphVars

\* A node that neither streams, routes nor ranks.
LEMMA SilentNodes ==
  ASSUME GraphTypeOK, GraphSafe, ReplayInv, Told,
         \/ C2Sufficiency \/ C3Embed \/ KnowledgeAnswer \/ C4Retrieve \/ SelfAnswer \/ PriorAnswer
         \/ Terminal
  PROVE  ReplayInv'
<1>1. UNCHANGED <<live, marks>>
  BY DEF Told, Streams, C2Sufficiency, C3Embed, KnowledgeAnswer, C4Retrieve, SelfAnswer,
    PriorAnswer, Terminal, Terminals, MarksLive, ReplayInv
<1>2. /\ values'.recs = values.recs /\ values'.recIds = values.recIds
      /\ values'.route = values.route /\ values'.declined = values.declined
      /\ values'.qid = values.qid /\ values'.lastEvent = values.lastEvent
      /\ values'.fallbackReq = values.fallbackReq
  BY DEF C2Sufficiency, C3Embed, KnowledgeAnswer, C4Retrieve, SelfAnswer, PriorAnswer, Terminal,
    GraphTypeOK, AgentState
<1>3. /\ node \notin {"c1_intent", "c7_draft", "send", "reroute", Finished}
      /\ node' \notin {"c1_intent", "c7_draft", "send", "reroute"}
      /\ node' \in Early => node \in Early
      /\ node' \in {"c2_sufficiency", "ask"} => node = "c2_sufficiency"
  BY DEF C2Sufficiency, C3Embed, KnowledgeAnswer, C4Retrieve, SelfAnswer, PriorAnswer, Terminal,
    Terminals, Finished, Goto, Early
<1> QED
  BY <1>1, <1>2, <1>3 DEF ReplayInv, EarlyBlank, DocumentBlank, MarksLive, Understood, ToSurface,
    Recommended, Drafted

\* A node that streams, decides the route, ranks or drafts.
LEMMA SpeakingNodes ==
  ASSUME GraphTypeOK, GraphSafe, ReplayInv, Told,
         \/ C1Intent \/ C5Route \/ AdditiveAnswer \/ C6Score \/ Answerability \/ C7Draft \/ Reroute
  PROVE  ReplayInv'
<1> USE DEF ReplayInv, EarlyBlank, DocumentBlank, MarksLive, Understood, ToSurface, Recommended,
        Drafted, Goto, Marks
<1>0. values \in AgentState
  BY DEF GraphTypeOK
<1>1. CASE C1Intent
  <2>1. /\ live' = live \cup {"understood"} /\ marks' = marks
    BY <1>1 DEF C1Intent, Told, Streams
  <2>2. PICK t \in BOOLEAN : values' = [values EXCEPT !.topics = t]
    BY <1>1 DEF C1Intent
  <2>3. node = "c1_intent" /\ node' \in {"off_topic", "c2_sufficiency"}
    BY <1>1 DEF C1Intent
  <2> QED
    BY <1>0, <2>1, <2>2, <2>3 DEF AgentState, Early, Finished
<1>2. CASE C5Route
  <2>1. live' = live \cup {"route"} /\ marks' = marks \cup {"route"}
    BY <1>2 DEF C5Route, Told, Streams
  <2>2. PICK r \in Routes : values' = [values EXCEPT !.route = r] /\ node' = RouteTarget(r)
    BY <1>2 DEF C5Route
  <2>3. node = "c5_route" /\ node' \in {"additive_answer", "c6_score", "self_answer", "prior_answer"}
    BY <1>2, <2>2 DEF C5Route, RouteTarget, Routes
  <2> QED
    BY <1>0, <2>1, <2>2, <2>3 DEF AgentState, Early, Finished
<1>3. CASE AdditiveAnswer
  <2>1. \/ live' = live \cup {"reference"} /\ marks' = marks \cup {"reference"}
        \/ live' = live /\ marks' = marks
    BY <1>3 DEF AdditiveAnswer, Told
  <2>2. node = "additive_answer" /\ node' = "c6_score" /\ values' = values
    BY <1>3 DEF AdditiveAnswer
  <2> QED
    BY <2>1, <2>2 DEF Early, Finished
<1>4. CASE C6Score
  <2>1. live' = live \cup C6Streams /\ marks' = marks
    BY <1>4 DEF C6Score, Told, Streams, C6Streams
  <2>2. PICK f \in Fresh : values' = [values EXCEPT !.recs = values.recs \o f, !.referred = None]
    BY <1>4 DEF C6Score
  <2>3. /\ values'.recIds = values.recIds /\ values'.route = values.route
        /\ values'.declined = values.declined /\ values'.qid = values.qid
        /\ values'.lastEvent = values.lastEvent /\ values'.fallbackReq = values.fallbackReq
    BY <1>0, <2>2 DEF AgentState
  <2>4. /\ node = "c6_score" /\ node' \in {"document", "no_candidate", "answerability", "c7_draft"}
        /\ node' = "c7_draft" => ~CriticWired
    BY <1>4, GraphAssumption DEF C6Score, AfterC6, HandoffTarget
  <2>5. ~CriticWired /\ values.route # "document" => "recommend" \in live'
    BY <2>1 DEF C6Streams
  <2>6. C6Streams \subseteq {"recommend"}
    BY DEF C6Streams
  <2> QED
    BY <2>1, <2>3, <2>4, <2>5, <2>6 DEF Early, Finished
<1>5. CASE Answerability
  <2>1. /\ live' = live \cup (IF node' = "c7_draft" THEN {"recommend"} ELSE {}) /\ marks' = marks
    BY <1>5 DEF Answerability, Told, Streams
  <2>2. node = "answerability" /\ node' \in {"c7_draft", "no_expert"} /\ values' = values
    BY <1>5 DEF Answerability
  <2> QED
    BY <2>1, <2>2 DEF Early, Finished
<1>6. CASE C7Draft
  <2>1. /\ live' = live \cup C7Streams /\ marks' = marks \cup {"draft"}
    BY <1>6 DEF C7Draft, Told, Streams, C7Streams
  <2>2. node = "c7_draft" /\ node' = "send" /\ values' = values
    BY <1>6 DEF C7Draft
  <2>3. values.route # "document" /\ values.recs # <<>>
    BY <2>2 DEF GraphSafe, DocumentNeverWaits, HandoffHasCandidate
  <2>4. /\ "draft" \in C7Streams /\ C7Streams \subseteq {"recommend", "draft"}
        /\ values.fallbackReq /\ values.recIds = <<>> => "recommend" \in C7Streams
    BY DEF C7Streams
  <2>5. "recommend" \in live'
    BY <2>1, <2>2, <2>3, <2>4
  <2> QED
    BY <2>1, <2>2, <2>3, <2>4, <2>5 DEF Early, Finished
<1>7. CASE Reroute
  <2>1. live' = live /\ marks' = marks \ {"draft"}
    BY <1>7 DEF Reroute, Told, Undrafted
  <2>2. node = "reroute" /\ node' = "c6_score" /\ values.recs # <<>>
    BY <1>7 DEF Reroute
  <2>3. /\ values'.recIds = values.recIds /\ values'.route = values.route
        /\ values'.declined = values.declined \cup {Head(values.recs)} /\ values'.qid = values.qid
        /\ values'.lastEvent = values.lastEvent /\ values'.fallbackReq = values.fallbackReq
    BY <1>0, <1>7, <2>2 DEF Reroute, AgentState
  <2> QED
    BY <2>1, <2>2, <2>3 DEF Early, Finished
<1> QED
  BY <1>1, <1>2, <1>3, <1>4, <1>5, <1>6, <1>7

\* Every step of the graph and its stream keeps the invariant.
LEMMA NextReplay ==
  GraphTypeOK /\ GraphSafe /\ ReplayInv /\ [ReplayNext]_replayVars => ReplayInv'
<1> SUFFICES ASSUME GraphTypeOK, GraphSafe, ReplayInv, [ReplayNext]_replayVars
             PROVE  ReplayInv'
  OBVIOUS
<1> USE DEF ReplayInv, EarlyBlank, DocumentBlank, MarksLive, Understood, ToSurface, Recommended,
        Drafted, Goto, Marks
<1>0. values \in AgentState
  BY DEF GraphTypeOK
<1>1. CASE Compute /\ Told
  BY <1>1, SilentNodes, SpeakingNodes DEF Compute
<1>2. CASE Start /\ live' = {} /\ marks' = Cleared
  <2>1. PICK q \in Questions \cup {0} : Invoke(q)
    BY <1>0, <1>2 DEF Start, AgentState
  <2>2. /\ node' = "c1_intent" /\ values'.recs = <<>> /\ values'.recIds = <<>>
        /\ values'.route = "person" /\ values'.lastEvent = "none"
    BY <2>1 DEF Invoke, ResetValues, Unwritten
  <2> QED
    BY <1>2, <2>2 DEF Cleared, Early, Finished
<1>3. CASE Reopen /\ Undrafted
  <2>1. /\ live' = live /\ marks' = marks \ {"draft"}
        /\ node = Finished /\ values.route = "document" /\ values.recs # <<>> /\ values.qid # 0
        /\ node' = HandoffTarget
    BY <1>3 DEF Reopen, FallbackOffered, Undrafted, AfterC6
  <2>2. /\ values'.recs = values.recs /\ values'.recIds = values.recIds /\ values'.qid = values.qid
        /\ values'.route = "person" /\ values'.lastEvent = "none" /\ values'.fallbackReq = TRUE
        /\ values'.declined = values.declined
    BY <1>0, <1>3 DEF Reopen, AgentState
  <2>3. node' = IF CriticWired THEN "answerability" ELSE "c7_draft"
    BY <2>1 DEF HandoffTarget
  <2> QED
    BY <2>1, <2>2, <2>3 DEF Early, Finished
<1>4. CASE Resume /\ UNCHANGED <<live, marks>>
  <2>1. CASE Ask
    <3>1. /\ node = "ask" /\ node' = "c1_intent"
          /\ values' = [values EXCEPT !.followups = values.followups + 1]
      BY <2>1 DEF Ask
    <3> QED
      BY <1>0, <1>4, <3>1 DEF AgentState, Early, Finished
  <2>2. ASSUME NEW o \in Outcomes, Send(o) PROVE ReplayInv'
    <3>1. /\ node = "send" /\ values' = values
          /\ node' \in {"reroute", "c8_update", "c7_draft"}
      BY <2>2 DEF Send, AfterSend, Outcomes
    <3>2. values.recs # <<>>
      BY <3>1 DEF GraphSafe, HandoffHasCandidate
    <3> QED
      BY <1>4, <3>1, <3>2 DEF Early, Finished
  <2> QED
    BY <1>4, <2>1, <2>2 DEF Resume
<1>5. CASE Steer /\ UNCHANGED <<live, marks>>
  <2>1. /\ node = "send" /\ node' = node /\ values'.route = values.route
        /\ values'.declined = values.declined /\ values'.qid = values.qid
        /\ values'.lastEvent = values.lastEvent
    BY <1>0, <1>5 DEF Steer, Reselect, SeatReferral, AgentState
  <2>2. values.route # "document"
    BY <2>1 DEF GraphSafe, DocumentNeverWaits
  <2> QED
    BY <1>5, <2>1, <2>2 DEF Early, Finished
<1>6. CASE RecordSegment /\ UNCHANGED <<live, marks>>
  <2>1. /\ node' = node /\ values'.recs = values.recs /\ values'.route = values.route
        /\ values'.declined = values.declined /\ values'.qid = values.qid
        /\ node \in {"send", Finished}
        /\ node = "send" => values'.lastEvent = values.lastEvent
        /\ node = Finished => values.qid # 0 /\ values'.recIds = values.recIds
    <3> DEFINE ids == [i \in DOMAIN values.recs |-> i]
    <3>1. \/ node = "send" /\ WriteBack(ids, "none")
          \/ node = Finished /\ values.qid # 0 /\ \E e \in {"done", "message"} : WriteBack(<<>>, e)
      BY <1>6 DEF RecordSegment
    <3> HIDE DEF ids
    <3>2. CASE node = "send" /\ WriteBack(ids, "none")
      BY <1>0, <3>2 DEF WriteBack, AgentState, Finished
    <3>3. CASE node = Finished /\ values.qid # 0 /\ \E e \in {"done", "message"} : WriteBack(<<>>, e)
      BY <1>0, <3>3 DEF WriteBack, AgentState, Finished
    <3> QED
      BY <3>1, <3>2, <3>3
  <2>2. node = "send" => values.route # "document"
    BY DEF GraphSafe, DocumentNeverWaits
  <2> QED
    BY <1>6, <2>1, <2>2 DEF Early, Finished
<1>7. CASE UNCHANGED replayVars
  BY <1>7 DEF replayVars
<1> QED
  BY <1>1, <1>2, <1>3, <1>4, <1>5, <1>6, <1>7 DEF ReplayNext

\* The replay implements the graph, fairness included.
THEOREM ReplayImplementsGraph == ReplaySpec => GraphSpec
  BY ReplayNextIsGraphNext, PTL DEF ReplaySpec, GraphSpec, ReplayInit

\* The replay's invariant holds in every run.
LEMMA ReplayInvariant == ReplaySpec => [](GraphTypeOK /\ GraphSafe /\ ReplayInv)
<1>1. ReplayInit => ReplayInv
  BY DEF ReplayInit, GraphInit, Unwritten, Finished, ReplayInv, EarlyBlank, DocumentBlank,
    MarksLive, Understood, ToSurface, Recommended, Drafted, Early
<1> QED
  BY <1>1, NextReplay, ReplayImplementsGraph, GraphInvariant, PTL DEF ReplaySpec

\* Whoever comes back to a run, waiting or finished, is told what was streamed live, on
\* every path of declines, corrections and fallbacks (api/events.py progress_events).
THEOREM RevisitsAreFaithful == ReplaySpec => []RevisitFaithful
<1>1. GraphTypeOK /\ GraphSafe /\ ReplayInv => RevisitShowsTheSame
  <2> SUFFICES ASSUME GraphTypeOK, GraphSafe, ReplayInv, node \in InterruptNodes
               PROVE  Replayed = live
    BY DEF RevisitShowsTheSame
  <2>1. "understood" \in live
    BY DEF ReplayInv, Understood, InterruptNodes, Finished
  <2>2. CASE node = "ask"
    BY <2>1, <2>2 DEF ReplayInv, EarlyBlank, MarksLive, Replayed, Marks, Early
  <2>3. CASE node = "send"
    BY <2>1, <2>3 DEF ReplayInv, MarksLive, Recommended, Drafted, Replayed, Marks, GraphSafe,
      HandoffHasCandidate
  <2> QED
    BY <2>2, <2>3 DEF InterruptNodes
<1>2. GraphTypeOK /\ GraphSafe /\ ReplayInv => RevisitFinished
  BY DEF RevisitFinished, Replays, Replayed, ReplayInv, MarksLive, Understood, Recommended,
    Drafted, ToSurface, Marks, InterruptNodes, Finished
<1> QED
  BY <1>1, <1>2, ReplayInvariant, PTL DEF RevisitFaithful

-----------------------------------------------------------------------------
(* Answering: what the models' answers reach *)

\* The detailed steps are steps of the replay, and of the graph.
LEMMA AnsweringComputes == AnsweringCompute => Compute /\ Told
<1> SUFFICES ASSUME AnsweringCompute PROVE Compute /\ Told
  OBVIOUS
<1>1. CASE Understand
  <2>1. \A intent \in Intents : intent.topics \in BOOLEAN
    <3>1. \A raw \in RawIntent : Analyzed(raw).topics \in BOOLEAN
      BY DEF Analyzed
    <3>2. \A intent \in KeywordIntents : intent.topics \in BOOLEAN
      <4> SUFFICES ASSUME NEW intent \in KeywordIntents PROVE intent.topics \in BOOLEAN
        OBVIOUS
      <4> DEFINE Offs == [topics : BOOLEAN, off : {TRUE}, confident : {TRUE}]
                 Ons  == {KeywordIntent(t, p, q) : t, p, q \in BOOLEAN}
      <4>0. KeywordIntents = Offs \cup Ons
        BY DEF KeywordIntents
      <4>1. ASSUME intent \in Offs PROVE intent.topics \in BOOLEAN
        BY <4>1
      <4>2. \A t, p, q \in BOOLEAN : KeywordIntent(t, p, q).topics = t
        BY DEF KeywordIntent
      <4>3. ASSUME intent \in Ons PROVE intent.topics \in BOOLEAN
        <5>1. PICK t \in BOOLEAN, p \in BOOLEAN, q \in BOOLEAN : intent = KeywordIntent(t, p, q)
          BY <4>3
        <5> QED
          BY <4>2, <5>1, Zenon
      <4> QED
        <5> HIDE DEF Offs, Ons
        <5> QED
          BY <4>0, <4>1, <4>3
    <3> QED
      BY <3>1, <3>2 DEF Intents
  <2>2. C1Intent
    BY <1>1, <2>1 DEF Understand, C1Intent, Goto
  <2> QED
    BY <2>2 DEF Compute, AnsweringCompute
<1>2. CASE Suffice
  <2>1. C2Sufficiency
    <3>1. node = "c2_sufficiency" /\ values' = values
      BY <1>2 DEF Suffice
    <3>2. \/ values.topics /\ node' = "c3_embed"
          \/ \E s \in Sufficiencies : node' = AfterC2(s)
      BY <1>2 DEF Suffice, Goto
    <3> QED
      BY <3>1, <3>2 DEF AfterC2, C2Sufficiency, Goto
  <2> QED
    BY <2>1 DEF Compute, AnsweringCompute
<1>3. CASE TryKnowledge
  <2>1. KnowledgeAnswer
    BY <1>3 DEF TryKnowledge, KnowledgeAnswer, Goto
  <2> QED
    BY <2>1 DEF Compute, AnsweringCompute
<1>4. CASE AnswerDirectly
  <2>1. SelfAnswer
    BY <1>4 DEF AnswerDirectly, SelfAnswer, Goto
  <2> QED
    BY <2>1 DEF Compute, AnsweringCompute
<1>5. CASE Judge
  <2>1. Answerability
    BY <1>5 DEF Judge, Answerability, Goto
  <2> QED
    BY <2>1 DEF Compute, AnsweringCompute
<1>6. CASE Search \/ AnswerBeside \/ Write \/ Withdraw \/ Rest
  BY <1>6 DEF Search, AnswerBeside, Write, Withdraw, Rest, Compute, AnsweringCompute
<1> QED
  BY <1>1, <1>2, <1>3, <1>4, <1>5, <1>6 DEF AnsweringCompute

LEMMA AnsweringNextIsReplayNext == [AnsweringNext]_answeringVars => [ReplayNext]_replayVars
<1> SUFFICES ASSUME [AnsweringNext]_answeringVars PROVE [ReplayNext]_replayVars
  OBVIOUS
<1>1. CASE AnsweringCompute
  BY <1>1, AnsweringComputes DEF ReplayNext
<1>2. CASE NewQuestion
  BY <1>2 DEF NewQuestion, ReplayNext
<1>3. CASE Reply /\ UNCHANGED <<live, marks>>
  BY <1>3 DEF Reply, ReplayNext, Resume
<1>4. CASE Choose \/ SeatReferred
  BY <1>4 DEF Choose, SeatReferred, ReplayNext, Steer
<1>5. CASE Outcome
  BY <1>5 DEF Outcome, ReplayNext, Resume
<1>6. CASE FallBack
  BY <1>6 DEF FallBack, ReplayNext
<1>7. CASE RecordSegment /\ UNCHANGED <<live, marks, run>>
  BY <1>7 DEF ReplayNext
<1>8. CASE UNCHANGED answeringVars
  BY <1>8 DEF answeringVars, replayVars
<1> QED
  BY <1>1, <1>2, <1>3, <1>4, <1>5, <1>6, <1>7, <1>8 DEF AnsweringNext

\* With its models' answers in view the graph is still the one EventReplay, and through
\* it AgentGraph, describes: fairness included.
THEOREM AnsweringImplementsReplay == AnsweringSpec => ReplaySpec
  BY AnsweringNextIsReplayNext, PTL DEF AnsweringSpec, ReplaySpec, AnsweringInit

\* Every step with the models' answers in view is one that the replay allows.
THEOREM AnsweringStaysInTheGraph == AnsweringSpec => AnsweringRefines
  BY AnsweringNextIsReplayNext, PTL DEF AnsweringSpec, AnsweringRefines

\* A question that was refused has nobody to hand it to, so no fallback revives it.
RefusedBlank ==
  node \in {"off_topic", Finished} /\ Disallowed(run.question) => values.recs = <<>>

VettedInv == TextScreened /\ HandoffVetted /\ RefusedBlank

\* Whatever its values, run has its fields.
RunShaped ==
  DOMAIN run = {"question", "confident", "followup", "hits", "cited", "extra",
                "answerable", "judged", "draft"}

LEMMA NextShaped == RunShaped /\ [AnsweringNext]_answeringVars => RunShaped'
<1> SUFFICES ASSUME RunShaped, [AnsweringNext]_answeringVars PROVE DOMAIN run' = DOMAIN run
  BY DEF RunShaped
<1>1. CASE AnsweringCompute
  BY <1>1 DEF AnsweringCompute, Understand, Suffice, TryKnowledge, Search, AnswerDirectly,
    AnswerBeside, Judge, Write, Withdraw, Rest
<1>2. CASE NewQuestion
  BY <1>2 DEF NewQuestion, Blank, RunShaped
<1>3. CASE Reply /\ UNCHANGED <<live, marks>>
  BY <1>3 DEF Reply
<1>4. CASE Choose \/ FallBack
  BY <1>4 DEF Choose, FallBack
<1>5. CASE SeatReferred \/ Outcome
  BY <1>5 DEF SeatReferred, Outcome
<1> QED
  BY <1>1, <1>2, <1>3, <1>4, <1>5 DEF AnsweringNext, answeringVars

\* Reselecting shows the same people.
LEMMA MoveToFrontShowsTheSame ==
  ASSUME NEW S, NEW s \in Seq(S), NEW i \in DOMAIN s
  PROVE  /\ Range(MoveToFront(s, i)) = Range(s)
         /\ Head(MoveToFront(s, i)) = s[i]
<1>1. /\ DOMAIN s = 1..Len(s) /\ Len(s) \in Nat /\ i \in 1..Len(s)
      /\ DOMAIN MoveToFront(s, i) = 1..Len(s)
      /\ \A k \in 1..Len(s) :
           MoveToFront(s, i)[k] = IF k = 1 THEN s[i] ELSE IF k <= i THEN s[k - 1] ELSE s[k]
  BY LenProperties DEF MoveToFront
<1>2. ASSUME NEW j \in 1..Len(s) PROVE \E k \in 1..Len(s) : MoveToFront(s, i)[k] = s[j]
  <2>1. CASE j = i
    BY <1>1, <2>1
  <2>2. CASE j < i
    <3>1. j + 1 \in 1..Len(s) /\ j + 1 # 1 /\ j + 1 <= i /\ (j + 1) - 1 = j
      BY <1>1, <2>2
    <3>2. MoveToFront(s, i)[j + 1] = s[j]
      BY <1>1, <3>1
    <3> QED
      BY <3>1, <3>2
  <2>3. CASE j > i
    BY <1>1, <2>3
  <2> QED
    BY <1>1, <2>1, <2>2, <2>3
<1>3. Range(s) \subseteq Range(MoveToFront(s, i))
  <2> SUFFICES ASSUME NEW j \in 1..Len(s) PROVE s[j] \in Range(MoveToFront(s, i))
    BY <1>1 DEF Range
  <2>1. PICK k \in 1..Len(s) : MoveToFront(s, i)[k] = s[j]
    BY <1>2
  <2> QED
    BY <1>1, <2>1 DEF Range
<1>4. MoveToFront(s, i) \in Seq(S) /\ Len(MoveToFront(s, i)) = Len(s)
  BY MoveToFrontPermutes
<1>5. Head(MoveToFront(s, i)) = MoveToFront(s, i)[1]
  OBVIOUS
<1>6. MoveToFront(s, i)[1] = s[i]
  <2>1. 1 \in 1..Len(s)
    BY <1>1
  <2> QED
    BY <1>1, <2>1
<1> QED
  BY <1>3, <1>5, <1>6, MoveToFrontPermutes

\* C2 stops a run for a reply only with a question to ask.
LEMMA AskedHasQuestion ==
  ASSUME GraphTypeOK, NEW s \in Sufficiencies, AfterC2(s) = "ask"
  PROVE  s.followup = TRUE
<1>1. ~(values.followups >= MaxFollowups) /\ ~s.sufficient
  BY DEF AfterC2
<1>2. CASE s \in ModelSufficiencies
  BY <1>1, <1>2 DEF ModelSufficiencies, SchemaAccepts
<1>3. CASE s = RuleSufficiency
  <2>1. values.followups < MaxFollowups
    BY <1>1, GraphAssumption DEF GraphTypeOK, AgentState
  <2> QED
    BY <1>3, <2>1 DEF RuleSufficiency
<1> QED
  BY <1>2, <1>3 DEF Sufficiencies

\* The nodes keep what reaches people screened and vetted.
LEMMA ComputeVetted ==
  ASSUME GraphTypeOK, GraphSafe, ReplayInv, VettedInv, RunShaped, AnsweringCompute
  PROVE  VettedInv'
<1> USE DEF VettedInv, TextScreened, HandoffVetted, RefusedBlank
<1>0. values \in AgentState
  BY DEF GraphTypeOK
<1>a. DOMAIN run = {"question", "confident", "followup", "hits", "cited", "extra",
                    "answerable", "judged", "draft"}
  BY DEF RunShaped
<1>1. CASE Understand
  <2>1. node = "c1_intent" /\ values.recs = <<>>
    BY <1>a, <1>1 DEF Understand, ReplayInv, EarlyBlank, Early
  <2>2. /\ values'.recs = <<>> /\ run'.question = run.question
        /\ node' \in {"off_topic", "c2_sufficiency"}
        /\ node' = "c2_sufficiency" => ~Disallowed(run.question)
    BY <1>a, <1>0, <1>1, <2>1 DEF Understand, ScreenedOut, Goto, AgentState
  <2> QED
    BY <1>a, <2>2 DEF Finished
<1>2. CASE Suffice
  <2>1. /\ node = "c2_sufficiency" /\ values' = values /\ run'.question = run.question
        /\ node' \in {"c3_embed", "ask", "unresolved_intent"}
    BY <1>a, <1>2 DEF Suffice, Goto, AfterC2
  <2>2. ASSUME node' = "ask" PROVE run'.followup
    <3>1. PICK s \in Sufficiencies :
            /\ run' = [run EXCEPT !.confident = FALSE,
                                  !.followup = s.followup /\ AfterC2(s) = "ask"]
            /\ node' = AfterC2(s)
      BY <1>a, <1>2, <2>2 DEF Suffice, Goto
    <3>2. s.followup = TRUE
      BY <1>a, <2>2, <3>1, AskedHasQuestion
    <3> QED
      BY <1>a, <2>2, <3>1, <3>2
  <2> QED
    BY <1>a, <2>1, <2>2 DEF Finished
<1>3. CASE Judge
  <2>1. PICK score \in Scores(Len(values.recs)) :
          /\ run' = [run EXCEPT !.answerable = score >= AnswerabilityThreshold, !.judged = Shown]
          /\ node' = IF score >= AnswerabilityThreshold THEN "c7_draft" ELSE "no_expert"
    BY <1>a, <1>3 DEF Judge, Goto
  <2>2. node = "answerability" /\ values' = values /\ run'.question = run.question
    BY <1>a, <1>3, <2>1 DEF Judge
  <2> QED
    BY <1>a, <2>1, <2>2 DEF Finished, Shown
<1>4. CASE Write
  <2>1. /\ node = "c7_draft" /\ node' = "send" /\ values' = values
        /\ run' = [run EXCEPT !.draft = Head(values.recs)]
    BY <1>a, <1>4 DEF Write, C7Draft, Goto
  <2> QED
    BY <1>a, <2>1 DEF Finished, Shown
<1>5. CASE TryKnowledge \/ Search \/ AnswerDirectly \/ AnswerBeside \/ Withdraw
  <2>1. /\ run'.question = run.question
        /\ node \notin {"c1_intent", "off_topic", Finished}
        /\ node' \notin {"off_topic", Finished, "ask", "c7_draft", "send"}
    BY <1>a, <1>5 DEF TryKnowledge, Search, C4Retrieve, AnswerDirectly, AnswerBeside, AdditiveAnswer,
      Withdraw, Reroute, Goto, Finished
  <2> QED
    BY <1>a, <2>1
<1>6. CASE Rest
  <2>1. run' = run
    BY <1>a, <1>6 DEF Rest
  <2>2. CASE Terminal
    <3>1. node \in Terminals /\ node' = Finished /\ values'.recs = values.recs
      BY <1>a, <1>0, <2>2 DEF Terminal, Goto, AgentState
    <3> QED
      BY <1>a, <2>1, <3>1 DEF Terminals, Finished
  <2>3. CASE C6Score
    <3>1. /\ node = "c6_score" /\ node' \in {"document", "no_candidate", "answerability", "c7_draft"}
          /\ node' = "c7_draft" => ~CriticWired
      BY <1>a, <2>3, GraphAssumption DEF C6Score, AfterC6, HandoffTarget, Goto
    <3> QED
      BY <1>a, <2>1, <3>1 DEF Finished
  <2>4. CASE C3Embed \/ C5Route \/ PriorAnswer
    <3>1. /\ node \notin {"c1_intent", "off_topic", Finished}
          /\ node' \notin {"off_topic", Finished, "ask", "c7_draft", "send"}
      BY <1>a, <2>4 DEF C3Embed, C5Route, PriorAnswer, RouteTarget, Routes, Goto, Finished
    <3> QED
      BY <1>a, <2>1, <3>1
  <2> QED
    BY <1>a, <1>6, <2>2, <2>3, <2>4 DEF Rest
<1> QED
  BY <1>a, <1>1, <1>2, <1>3, <1>4, <1>5, <1>6 DEF AnsweringCompute

\* So does whatever the asker and the responders do to the run.
LEMMA NextVetted ==
  GraphTypeOK /\ GraphSafe /\ ReplayInv /\ VettedInv /\ RunShaped /\ [AnsweringNext]_answeringVars
    => VettedInv'
<1> SUFFICES ASSUME GraphTypeOK, GraphSafe, ReplayInv, VettedInv, RunShaped,
                    [AnsweringNext]_answeringVars
             PROVE  VettedInv'
  OBVIOUS
<1> USE DEF VettedInv, TextScreened, HandoffVetted, RefusedBlank
<1>0. values \in AgentState
  BY DEF GraphTypeOK
<1>a. DOMAIN run = {"question", "confident", "followup", "hits", "cited", "extra",
                    "answerable", "judged", "draft"}
  BY DEF RunShaped
<1>1. CASE AnsweringCompute
  BY <1>a, <1>1, ComputeVetted
<1>2. CASE NewQuestion
  <2>1. node' = "c1_intent"
    BY <1>a, <1>2 DEF NewQuestion, Start, Invoke, Goto
  <2> QED
    BY <1>a, <2>1 DEF Finished
<1>3. CASE Reply /\ UNCHANGED <<live, marks>>
  <2>1. node' = "c1_intent"
    BY <1>a, <1>3 DEF Reply, Ask, Goto
  <2> QED
    BY <1>a, <2>1 DEF Finished
<1>4. CASE Choose
  <2>1. PICK i \in DOMAIN values.recs : Reselect(i) /\ run' = [run EXCEPT !.draft = Redrafted(i)]
    BY <1>a, <1>4 DEF Choose
  <2>2. /\ node = "send" /\ node' = node /\ values'.recs = MoveToFront(values.recs, i)
        /\ run'.question = run.question /\ run'.draft = values.recs[i]
        /\ run'.answerable = run.answerable /\ run'.judged = run.judged
    BY <1>a, <1>0, <1>4, <2>1 DEF Choose, Reselect, Redrafted, AgentState
  <2>3. Range(values'.recs) = Range(values.recs) /\ Head(values'.recs) = values.recs[i]
    BY <1>a, <1>0, <2>2, MoveToFrontShowsTheSame DEF AgentState
  <2> QED
    BY <1>a, <2>2, <2>3 DEF Finished, Shown
<1>5. CASE SeatReferred
  <2>1. node = "send" /\ node' = node /\ values'.recs = values.recs /\ run' = run
    BY <1>a, <1>0, <1>5 DEF SeatReferred, SeatReferral, AgentState
  <2> QED
    BY <1>a, <2>1 DEF Finished, Shown
<1>6. CASE Outcome
  <2>1. /\ node = "send" /\ node' \in {"reroute", "c8_update", "c7_draft"}
        /\ values' = values /\ run' = run
    BY <1>a, <1>6 DEF Outcome, Send, AfterSend, Outcomes, Goto
  <2> QED
    BY <1>a, <2>1 DEF Finished, Shown
<1>7. CASE FallBack
  <2>1. /\ node = Finished /\ values.recs # <<>> /\ run'.question = run.question
        /\ node' = HandoffTarget
    BY <1>a, <1>7 DEF FallBack, Reopen, FallbackOffered, AfterC6, Goto
  <2>2. node' = "answerability" \/ (node' = "c7_draft" /\ ~CriticWired)
    BY <1>a, <2>1, GraphAssumption DEF HandoffTarget
  <2> QED
    BY <1>a, <2>1, <2>2 DEF Finished
<1>8. CASE RecordSegment /\ UNCHANGED <<live, marks, run>>
  <2>1. run' = run /\ node' = node /\ values'.recs = values.recs
    BY <1>a, <1>0, <1>8 DEF RecordSegment, WriteBack, AgentState
  <2> QED
    BY <1>a, <2>1 DEF Shown
<1>9. CASE UNCHANGED answeringVars
  BY <1>a, <1>9 DEF answeringVars, Shown
<1> QED
  BY <1>a, <1>1, <1>2, <1>3, <1>4, <1>5, <1>6, <1>7, <1>8, <1>9 DEF AnsweringNext

-----------------------------------------------------------------------------
(* Answering: what a direct answer cites *)

Sources == PastAnswers \cup Documents \cup Dailies

\* What C4 leaves in the checkpoint: three channels, each id at most once.
Hits == [qa : Seq(PastAnswers), document : Seq(Documents), daily : Seq(Dailies)]

HitsFit(hits) ==
  /\ hits \in Hits
  /\ IsInjective(hits.qa) /\ IsInjective(hits.document) /\ IsInjective(hits.daily)

\* Without its rows that are gone, a channel lists each of the others once.
LEMMA LeftIs ==
  ASSUME NEW S, NEW s \in Seq(S), IsInjective(s), NEW gone
  PROVE  LET left == Only(s, Range(s) \ gone)
         IN  left \in Seq(S) /\ IsInjective(left) /\ ToSet(left) \subseteq Range(s)
<1> DEFINE U == Range(s) \ gone
           left == Only(s, U)
<1>1. \A i, j \in DOMAIN s : s[i] = s[j] => i = j
  BY DEF IsInjective
<1> HIDE DEF U
<1>2. left \in Seq(S \cap U) /\ ToSet(left) = ToSet(s) \cap U
  BY OnlyList
<1>3. \A i, j \in DOMAIN left : left[i] = left[j] => i = j
  BY <1>1, OnlyList
<1> HIDE DEF left
<1>4. left \in Seq(S)
  BY <1>2, SeqWidens
<1>5. ToSet(left) \subseteq Range(s)
  BY <1>2 DEF ToSet, Range
<1> QED
  BY <1>3, <1>4, <1>5 DEF IsInjective, left, U

\* The composer is shown rows that were retrieved, each once, as many as fit.
LEMMA EvidenceIs ==
  ASSUME NEW hits, HitsFit(hits), NEW gone
  PROVE  /\ Evidence(hits, gone) \in Seq(Sources)
         /\ IsInjective(Evidence(hits, gone))
         /\ Len(Evidence(hits, gone)) <= MaxFragments
         /\ Range(Evidence(hits, gone)) \subseteq Retrieved(hits)
<1> DEFINE left(s) == Only(s, Range(s) \ gone)
           qa == left(hits.qa)
           document == left(hits.document)
           daily == left(hits.daily)
           lists == <<qa, document, daily>>
           turns == InTurns(lists)
           at == TurnOrder(lists)
           e == Cut(turns, MaxFragments)
<1>1. /\ hits.qa \in Seq(PastAnswers) /\ IsInjective(hits.qa)
      /\ hits.document \in Seq(Documents) /\ IsInjective(hits.document)
      /\ hits.daily \in Seq(Dailies) /\ IsInjective(hits.daily)
  BY DEF HitsFit, Hits
<1>2. qa \in Seq(PastAnswers) /\ IsInjective(qa) /\ ToSet(qa) \subseteq Range(hits.qa)
  BY <1>1, LeftIs
<1>3. /\ document \in Seq(Documents) /\ IsInjective(document)
      /\ ToSet(document) \subseteq Range(hits.document)
  BY <1>1, LeftIs
<1>4. daily \in Seq(Dailies) /\ IsInjective(daily) /\ ToSet(daily) \subseteq Range(hits.daily)
  BY <1>1, LeftIs
<1>5. Evidence(hits, gone) = e
  BY DEF Evidence
<1>6. MaxFragments \in Nat
  BY AnsweringAssumption
<1> HIDE DEF qa, document, daily
<1>7. /\ lists[1] = qa /\ lists[2] = document /\ lists[3] = daily /\ DOMAIN lists = 1..3
  OBVIOUS
<1>8. /\ lists[1] \in Seq(PastAnswers) /\ lists[2] \in Seq(Documents) /\ lists[3] \in Seq(Dailies)
  BY <1>2, <1>3, <1>4, <1>7
<1> HIDE DEF lists
<1>9. \A c \in 1..3 : lists[c] \in Seq(Sources)
  <2>1. lists[1] \in Seq(Sources)
    BY <1>8, SeqWidens DEF Sources
  <2>2. lists[2] \in Seq(Sources)
    BY <1>8, SeqWidens DEF Sources
  <2>3. lists[3] \in Seq(Sources)
    BY <1>8, SeqWidens DEF Sources
  <2> QED
    BY <2>1, <2>2, <2>3
<1>10. /\ turns \in Seq(Sources) /\ DOMAIN turns = 1..Len(turns)
       /\ \A k \in 1..Len(turns) :
            /\ at[k][2] \in 1..3 /\ at[k][1] \in 1..Len(lists[at[k][2]])
            /\ turns[k] = lists[at[k][2]][at[k][1]]
       /\ \A k, l \in 1..Len(turns) : at[k][1] = at[l][1] /\ at[k][2] = at[l][2] => k = l
  <2>1. 3 \in Nat
    OBVIOUS
  <2> QED
    BY <1>7, <1>9, <2>1, InTurnsList
<1> HIDE DEF turns, at
\* Ids of different channels differ, so a turn tells where its id is from.
<1>11. ASSUME NEW c \in 1..3, NEW d \in 1..3, NEW i \in 1..Len(lists[c]), NEW j \in 1..Len(lists[d]),
              lists[c][i] = lists[d][j]
       PROVE  c = d /\ i = j
  <2>1. /\ \A x \in 1..Len(lists[1]) : lists[1][x] \in PastAnswers
        /\ \A x \in 1..Len(lists[2]) : lists[2][x] \in Documents
        /\ \A x \in 1..Len(lists[3]) : lists[3][x] \in Dailies
    BY <1>8, ElementOfSeq
  <2>2. c = d
    <3>1. PastAnswers \cap Documents = {} /\ (PastAnswers \cup Documents) \cap Dailies = {}
      BY AnsweringAssumption
    <3>2. c = 1 \/ c = 2 \/ c = 3
      OBVIOUS
    <3>3. d = 1 \/ d = 2 \/ d = 3
      OBVIOUS
    <3> QED
      BY <1>11, <2>1, <3>1, <3>2, <3>3
  <2>3. IsInjective(lists[c]) /\ DOMAIN lists[c] = 1..Len(lists[c])
    BY <1>2, <1>3, <1>4, <1>7, <1>9
  <2>4. i = j
    BY <1>11, <2>2, <2>3 DEF IsInjective
  <2> QED
    BY <2>2, <2>4
<1>12. ASSUME NEW k \in 1..Len(turns), NEW l \in 1..Len(turns), turns[k] = turns[l]
       PROVE  k = l
  <2> DEFINE c == at[k][2]
             d == at[l][2]
             i == at[k][1]
             j == at[l][1]
  <2>1. c \in 1..3 /\ i \in 1..Len(lists[c]) /\ turns[k] = lists[c][i]
    BY <1>10
  <2>2. d \in 1..3 /\ j \in 1..Len(lists[d]) /\ turns[l] = lists[d][j]
    BY <1>10
  <2>3. c = d /\ i = j => k = l
    BY <1>10
  <2> HIDE DEF c, d, i, j
  <2>4. lists[c][i] = lists[d][j]
    BY <1>12, <2>1, <2>2
  <2>5. c = d /\ i = j
    <3>1. c \in 1..3 /\ d \in 1..3 /\ i \in 1..Len(lists[c]) /\ j \in 1..Len(lists[d])
      BY <2>1, <2>2
    <3> QED
      BY <1>11, <2>4, <3>1
  <2> QED
    BY <2>3, <2>5
<1>13. ASSUME NEW k \in 1..Len(turns) PROVE turns[k] \in Retrieved(hits)
  <2> DEFINE c == at[k][2]
             i == at[k][1]
  <2>1. c \in 1..3 /\ i \in 1..Len(lists[c]) /\ turns[k] = lists[c][i]
    BY <1>10
  <2> HIDE DEF c, i
  <2>2. turns[k] \in ToSet(lists[c])
    <3>1. i \in DOMAIN lists[c]
      BY <1>9, <2>1
    <3> QED
      BY <2>1, <3>1 DEF ToSet
  <2>3. c = 1 \/ c = 2 \/ c = 3
    BY <2>1
  <2> QED
    BY <1>2, <1>3, <1>4, <1>7, <2>2, <2>3 DEF Retrieved
<1> DEFINE m == AtMost(Len(turns), MaxFragments)
<1>14. /\ e \in Seq(Sources) /\ Len(e) = m /\ DOMAIN e = 1..m
       /\ m \in Nat /\ m <= Len(turns) /\ m <= MaxFragments
       /\ \A i \in 1..m : e[i] = turns[i]
  <2>1. turns \in Seq(Sources)
    BY <1>10
  <2> QED
    BY <1>6, <2>1, CutList
<1> HIDE DEF e, m
<1>15. \A i \in 1..m : i \in 1..Len(turns)
  BY <1>10, <1>14
<1>16. IsInjective(e)
  BY <1>12, <1>14, <1>15 DEF IsInjective
<1>17. Range(e) \subseteq Retrieved(hits)
  BY <1>13, <1>14, <1>15 DEF Range
<1> QED
  BY <1>5, <1>14, <1>16, <1>17

\* A list without repetitions of what another one has is no longer than that one.
LEMMA NoLonger ==
  ASSUME NEW S, NEW s \in Seq(S), NEW t \in Seq(S), IsInjective(t), Range(t) \subseteq Range(s)
  PROVE  Len(t) <= Len(s)
<1>1. /\ IsFiniteSet(DOMAIN s) /\ Cardinality(DOMAIN s) = Len(s) /\ Len(s) \in Nat
      /\ IsFiniteSet(DOMAIN t) /\ Cardinality(DOMAIN t) = Len(t) /\ Len(t) \in Nat
  <2>1. DOMAIN s = 1..Len(s) /\ Len(s) \in Nat /\ DOMAIN t = 1..Len(t) /\ Len(t) \in Nat
    OBVIOUS
  <2>2. \A n \in Nat : IsFiniteSet(1..n) /\ Cardinality(1..n) = n
    <3> SUFFICES ASSUME NEW n \in Nat PROVE IsFiniteSet(1..n) /\ Cardinality(1..n) = n
      OBVIOUS
    <3>1. IsFiniteSet(1..n) /\ Cardinality(1..n) = IF 1 > n THEN 0 ELSE n - 1 + 1
      BY FS_Interval
    <3> QED
      BY <3>1
  <2> QED
    BY <2>1, <2>2
<1>2. /\ IsFiniteSet({s[i] : i \in DOMAIN s})
      /\ Cardinality({s[i] : i \in DOMAIN s}) <= Cardinality(DOMAIN s)
  BY <1>1, FiniteImage
<1>3. Cardinality({t[i] : i \in DOMAIN t}) = Cardinality(DOMAIN t)
  <2>1. \A x, y \in DOMAIN t : t[x] = t[y] => x = y
    BY DEF IsInjective
  <2> QED
    BY <1>1, <2>1, FiniteImage
<1>4. {t[i] : i \in DOMAIN t} \subseteq {s[i] : i \in DOMAIN s}
  BY DEF Range
<1> DEFINE A == {s[i] : i \in DOMAIN s}
           B == {t[i] : i \in DOMAIN t}
<1> HIDE DEF A, B
<1>5. /\ IsFiniteSet(A) /\ Cardinality(A) <= Len(s) /\ Cardinality(B) = Len(t) /\ B \subseteq A
  BY <1>1, <1>2, <1>3, <1>4 DEF A, B
<1>6. Cardinality(B) <= Cardinality(A) /\ Cardinality(A) \in Nat
  BY <1>5, FS_Subset, FS_CardinalityType
<1> QED
  BY <1>1, <1>5, <1>6

\* Whatever a composer lists, the citations are rows it was shown, each once.
LEMMA ComposedIs ==
  ASSUME NEW e \in Seq(Sources), IsInjective(e), NEW cited \in Composed(e)
  PROVE  IsInjective(cited) /\ Len(cited) <= Len(e) /\ Range(cited) \subseteq Range(e)
<1>1. CASE cited = <<>>
  <2>1. DOMAIN cited = {} /\ Len(cited) = 0
    BY <1>1
  <2>2. Len(e) \in Nat
    OBVIOUS
  <2> QED
    BY <2>1, <2>2 DEF IsInjective, Range
<1>2. CASE cited = TemplateCited(e)
  BY <1>2 DEF TemplateCited
<1>3. ASSUME NEW listed \in Listings, cited = Cited(e, listed)
      PROVE  IsInjective(cited) /\ Len(cited) <= Len(e) /\ Range(cited) \subseteq Range(e)
  <2> DEFINE any == Sources \cup {Invented}
             kept == Only(listed, Range(e))
  <2>1. listed \in Seq(any)
    <3>1. PICK k \in 1..MaxCited : listed \in [1..k -> any]
      BY <1>3 DEF Listings, Sources
    <3>2. k \in Nat
      BY <3>1, AnsweringAssumption
    <3> HIDE DEF any
    <3> QED
      BY <3>1, <3>2, FunctionIsSeq
  <2> HIDE DEF any
  <2>2. kept \in Seq(any \cap Range(e))
    BY <2>1, OnlyList
  <2> HIDE DEF kept
  <2>3. kept \in Seq(Range(e))
    BY <2>2, SeqWidens
  <2>4. /\ Distinct(kept) \in Seq(Range(e))
        /\ \A i, j \in DOMAIN Distinct(kept) : Distinct(kept)[i] = Distinct(kept)[j] => i = j
    BY <2>3, DistinctList
  <2>5. cited = Distinct(kept)
    BY <1>3 DEF Cited, kept
  <2>6. cited \in Seq(Range(e)) /\ IsInjective(cited)
    BY <2>4, <2>5 DEF IsInjective
  <2>7. Range(cited) \subseteq Range(e)
    <3>1. ToSet(cited) \subseteq Range(e)
      BY <2>6, ToSetIs
    <3> QED
      BY <3>1 DEF ToSet, Range
  <2>8. e \in Seq(Range(e))
    BY ElementOfSeq DEF Range
  <2> QED
    BY <2>6, <2>7, <2>8, NoLonger
<1> QED
  BY <1>1, <1>2, <1>3 DEF Composed

\* Until C5 has chosen a route that asks for no answer of the system's own, or until
\* one was given, nothing is cited in this question.
Uncited ==
  node \in Early \cup {"self_answer", "additive_answer"}
    => ~values.grounded /\ run.extra = <<>>

CitedInv == AnswersCited /\ HitsFit(run.hits) /\ Uncited

\* An approved unit cited is one of the best.
LEMMA UnitsAre ==
  ASSUME NEW units \in KnowledgeAnswers
  PROVE  IsInjective(units) /\ Range(units) \subseteq KnowledgeUnits /\ Len(units) <= TopUnits
<1>1. PICK u \in Ranked(KnowledgeUnits) : units = Cut(u, TopUnits)
  BY DEF KnowledgeAnswers
<1>2. PICK k \in 0..Cardinality(KnowledgeUnits) : u \in Injection(1..k, KnowledgeUnits)
  BY <1>1 DEF Ranked
<1>3. k \in Nat /\ TopUnits \in Nat
  BY AnsweringAssumption
<1>4. u \in [1..k -> KnowledgeUnits] /\ IsInjective(u)
  BY <1>2 DEF Injection
<1>5. u \in Seq(KnowledgeUnits) /\ Len(u) = k
  BY <1>3, <1>4, FunctionIsSeq
<1> DEFINE m == AtMost(Len(u), TopUnits)
<1>6. /\ units \in Seq(KnowledgeUnits) /\ Len(units) = m /\ DOMAIN units = 1..m
      /\ m \in Nat /\ m <= Len(u) /\ m <= TopUnits
      /\ \A i \in 1..m : units[i] = u[i]
  BY <1>1, <1>3, <1>5, CutList
<1> HIDE DEF m
<1>7. \A i \in 1..m : i \in DOMAIN u
  BY <1>4, <1>5, <1>6
<1>8. IsInjective(units)
  BY <1>4, <1>6, <1>7 DEF IsInjective
<1>9. Range(units) \subseteq KnowledgeUnits
  BY <1>6, ElementOfSeq DEF Range
<1> QED
  BY <1>6, <1>8, <1>9

\* A channel of C4 lists each id once.
LEMMA RankedIs ==
  ASSUME NEW S, NEW s \in Ranked(S)
  PROVE  s \in Seq(S) /\ IsInjective(s)
<1>1. PICK k \in 0..Cardinality(S) : s \in Injection(1..k, S)
  BY DEF Ranked
<1>2. k \in Nat /\ s \in [1..k -> S] /\ IsInjective(s)
  BY <1>1 DEF Injection
<1> QED
  BY <1>2, FunctionIsSeq

\* A step that neither searches nor answers leaves the citations as they were.
SameCitations ==
  /\ run'.hits = run.hits /\ run'.cited = run.cited /\ run'.extra = run.extra
  /\ values'.grounded = values.grounded

LEMMA KeepsCited ==
  ASSUME CitedInv, SameCitations,
         node' \in Early \cup {"self_answer", "additive_answer"}
           => node \in Early \cup {"self_answer", "additive_answer"}
  PROVE  CitedInv'
<1>1. AnswersCited'
  BY DEF CitedInv, AnswersCited, SameCitations
<1>2. HitsFit(run.hits)'
  BY DEF CitedInv, SameCitations
<1>3. Uncited'
  BY DEF CitedInv, Uncited, SameCitations
<1> QED
  BY <1>1, <1>2, <1>3 DEF CitedInv

\* A blank run cites nothing.
LEMMA BlankCited ==
  ASSUME NEW text, run' = Blank(text), values'.grounded = FALSE
  PROVE  CitedInv'
<1>1. /\ run'.hits = NoHits /\ run'.cited = <<>> /\ run'.extra = <<>>
  BY DEF Blank
<1>2. IsInjective(<<>>) /\ Len(<<>>) = 0 /\ Range(<<>>) = {} /\ \A S : <<>> \in Seq(S)
  BY DEF IsInjective, Range
<1>3. MaxFragments >= 0
  BY AnsweringAssumption
<1>4. HitsFit(run.hits)'
  BY <1>1, <1>2 DEF HitsFit, Hits, NoHits
<1> QED
  BY <1>1, <1>2, <1>3, <1>4 DEF CitedInv, AnswersCited, Uncited

\* The three steps that cite: approved units, a direct answer, one beside a hand-off.
LEMMA CitesSoundly ==
  ASSUME GraphTypeOK, RunShaped, CitedInv, TryKnowledge \/ AnswerDirectly \/ AnswerBeside
  PROVE  CitedInv'
<1>0. values \in AgentState
  BY DEF GraphTypeOK
<1>a. DOMAIN run = {"question", "confident", "followup", "hits", "cited", "extra",
                    "answerable", "judged", "draft"}
  BY DEF RunShaped
<1>b. ~(node' \in Early) /\ ~(node' \in {"self_answer", "additive_answer"}) => Uncited'
  BY DEF Uncited
<1>1. CASE TryKnowledge
  <2>1. PICK units \in KnowledgeAnswers :
          /\ values' = [values EXCEPT !.grounded = units # <<>>]
          /\ run' = IF units = <<>> THEN run ELSE [run EXCEPT !.cited = units]
          /\ node' = IF units # <<>> THEN "self_answered" ELSE "c4_retrieve"
    BY <1>1 DEF TryKnowledge, Goto
  <2>2. ~values.grounded /\ run.extra = <<>>
    BY <1>1 DEF TryKnowledge, CitedInv, Uncited, Early
  <2>3. CASE units = <<>>
    <3>1. values'.grounded = values.grounded /\ run' = run
      BY <1>0, <2>1, <2>2, <2>3 DEF AgentState
    <3>2. node \in Early
      BY <1>1 DEF TryKnowledge, Early
    <3> QED
      BY <3>1, <3>2, KeepsCited DEF SameCitations
  <2>4. CASE units # <<>>
    <3>1. /\ run'.cited = units /\ run'.hits = run.hits /\ run'.extra = run.extra
          /\ values'.grounded = TRUE /\ node' = "self_answered"
      BY <1>0, <1>a, <2>1, <2>4 DEF AgentState
    <3>2. AnswersCited'
      BY <2>2, <2>4, <3>1, UnitsAre DEF CitedInv, AnswersCited
    <3>3. Uncited'
      BY <1>b, <3>1 DEF Early
    <3> QED
      BY <3>1, <3>2, <3>3 DEF CitedInv
  <2> QED
    BY <2>3, <2>4
<1>2. CASE AnswerDirectly
  <2>1. PICK gone \in Gone : \E cited \in Composed(Evidence(run.hits, gone)) :
          /\ values' = [values EXCEPT !.grounded = cited # <<>>]
          /\ run' = IF cited = <<>> THEN run ELSE [run EXCEPT !.cited = cited]
          /\ node' = IF cited # <<>> THEN "self_answered"
                     ELSE IF values.route = "document" THEN "c6_score" ELSE "prior_answer"
    BY <1>2 DEF AnswerDirectly, Goto
  <2>a. PICK cited \in Composed(Evidence(run.hits, gone)) :
          /\ values' = [values EXCEPT !.grounded = cited # <<>>]
          /\ run' = IF cited = <<>> THEN run ELSE [run EXCEPT !.cited = cited]
          /\ node' = IF cited # <<>> THEN "self_answered"
                     ELSE IF values.route = "document" THEN "c6_score" ELSE "prior_answer"
    BY <2>1
  <2>2. ~values.grounded /\ run.extra = <<>>
    BY <1>2 DEF AnswerDirectly, CitedInv, Uncited
  <2>3. IsInjective(cited) /\ Range(cited) \subseteq Retrieved(run.hits)
    <3>1. HitsFit(run.hits)
      BY DEF CitedInv
    <3> DEFINE e == Evidence(run.hits, gone)
    <3>2. e \in Seq(Sources) /\ IsInjective(e) /\ Range(e) \subseteq Retrieved(run.hits)
      BY <3>1, EvidenceIs
    <3> HIDE DEF e
    <3>3. cited \in Composed(e)
      BY <2>a DEF e
    <3>4. IsInjective(cited) /\ Range(cited) \subseteq Range(e)
      BY <3>2, <3>3, ComposedIs
    <3> QED
      BY <3>2, <3>4
  <2>4. Uncited'
    BY <1>b, <2>a DEF Early
  <2>5. CASE cited = <<>>
    <3>1. values'.grounded = values.grounded /\ run' = run
      BY <1>0, <2>a, <2>2, <2>5 DEF AgentState
    <3> QED
      BY <1>2, <3>1, KeepsCited DEF SameCitations, AnswerDirectly
  <2>6. CASE cited # <<>>
    <3>1. /\ run'.cited = cited /\ run'.hits = run.hits /\ run'.extra = run.extra
          /\ values'.grounded = TRUE
      BY <1>0, <1>a, <2>a, <2>6 DEF AgentState
    <3>2. AnswersCited'
      BY <2>2, <2>3, <2>6, <3>1 DEF CitedInv, AnswersCited
    <3> QED
      BY <2>4, <3>1, <3>2 DEF CitedInv
  <2> QED
    BY <2>5, <2>6
<1>3. CASE AnswerBeside
  <2>1. PICK gone \in Gone : \E cited \in {<<>>} \cup Composed(Evidence(run.hits, gone)) :
          run' = IF cited = <<>> THEN run ELSE [run EXCEPT !.extra = cited]
    BY <1>3 DEF AnswerBeside
  <2>a. PICK cited \in {<<>>} \cup Composed(Evidence(run.hits, gone)) :
          run' = IF cited = <<>> THEN run ELSE [run EXCEPT !.extra = cited]
    BY <2>1
  <2>2. node = "additive_answer" /\ node' = "c6_score" /\ values' = values
    BY <1>3 DEF AnswerBeside, AdditiveAnswer, Goto
  <2>3. ~values.grounded
    BY <2>2 DEF CitedInv, Uncited
  <2>4. CASE cited = <<>>
    BY <2>a, <2>2, <2>4, KeepsCited DEF SameCitations
  <2>5. CASE cited # <<>>
    <3>1. cited \in Composed(Evidence(run.hits, gone))
      BY <2>a, <2>5
    <3>2. /\ IsInjective(cited) /\ Range(cited) \subseteq Retrieved(run.hits)
          /\ Len(cited) <= MaxFragments
      <4>1. HitsFit(run.hits)
        BY DEF CitedInv
      <4> DEFINE e == Evidence(run.hits, gone)
      <4>2. /\ e \in Seq(Sources) /\ IsInjective(e) /\ Len(e) <= MaxFragments
            /\ Range(e) \subseteq Retrieved(run.hits)
        BY <4>1, EvidenceIs
      <4> HIDE DEF e
      <4>3. cited \in Composed(e)
        BY <3>1 DEF e
      <4>4. IsInjective(cited) /\ Len(cited) <= Len(e) /\ Range(cited) \subseteq Range(e)
        BY <4>2, <4>3, ComposedIs
      <4> QED
        BY <4>2, <4>4, AnsweringAssumption
    <3>3. run'.extra = cited /\ run'.hits = run.hits /\ run'.cited = run.cited
      BY <1>a, <2>a, <2>5
    <3>4. AnswersCited'
      BY <2>2, <2>3, <3>2, <3>3 DEF CitedInv, AnswersCited
    <3>5. Uncited'
      BY <1>b, <2>2 DEF Early
    <3> QED
      BY <3>3, <3>4, <3>5 DEF CitedInv
  <2> QED
    BY <2>4, <2>5
<1> QED
  BY <1>1, <1>2, <1>3

\* A new search brings new rows to a run that cites nothing yet.
LEMMA SearchCites ==
  ASSUME GraphTypeOK, RunShaped, CitedInv, Search
  PROVE  CitedInv'
<1>0. values \in AgentState
  BY DEF GraphTypeOK
<1>1. PICK a \in Ranked(PastAnswers), d \in Ranked(Documents), r \in Ranked(Dailies) :
        run' = [run EXCEPT !.hits = [qa |-> a, document |-> d, daily |-> r]]
  BY DEF Search
<1>2. /\ node = "c4_retrieve" /\ node' = "c5_route"
      /\ \E pool \in SUBSET People : values' = [values EXCEPT !.pool = pool]
  BY DEF Search, C4Retrieve, Goto
<1>3. values'.grounded = values.grounded
  BY <1>0, <1>2 DEF AgentState
<1>4. /\ run'.hits = [qa |-> a, document |-> d, daily |-> r]
      /\ run'.cited = run.cited /\ run'.extra = run.extra
  BY <1>1 DEF RunShaped
<1>5. ~values.grounded /\ run.extra = <<>>
  BY <1>2 DEF CitedInv, Uncited, Early
<1>6. HitsFit(run.hits)'
  <2>1. /\ a \in Seq(PastAnswers) /\ d \in Seq(Documents) /\ r \in Seq(Dailies)
        /\ IsInjective(a) /\ IsInjective(d) /\ IsInjective(r)
    BY RankedIs
  <2> QED
    BY <1>4, <2>1 DEF HitsFit, Hits
<1>7. AnswersCited'
  <2>1. IsInjective(<<>>) /\ Len(<<>>) = 0 /\ Range(<<>>) = {}
    BY DEF IsInjective, Range
  <2>2. MaxFragments >= 0
    BY AnsweringAssumption
  <2> QED
    BY <1>3, <1>4, <1>5, <2>1, <2>2 DEF AnswersCited
<1>8. Uncited'
  BY <1>3, <1>4, <1>5 DEF Uncited
<1> QED
  BY <1>6, <1>7, <1>8 DEF CitedInv

\* Every other node leaves the citations as they were.
LEMMA ComputeCites ==
  ASSUME GraphTypeOK, RunShaped, CitedInv, AnsweringCompute
  PROVE  CitedInv'
<1> DEFINE before == node \in Early \cup {"self_answer", "additive_answer"}
<1>0. values \in AgentState
  BY DEF GraphTypeOK
<1>1. CASE Understand
  <2>1. /\ node = "c1_intent"
        /\ \E t : values' = [values EXCEPT !.topics = t]
        /\ \E c : run' = [run EXCEPT !.confident = c]
    BY <1>1 DEF Understand
  <2>2. before
    BY <2>1 DEF Early
  <2>3. SameCitations
    BY <1>0, <2>1 DEF SameCitations, RunShaped, AgentState
  <2> QED
    BY <2>2, <2>3, KeepsCited
<1>2. CASE Suffice
  <2>1. before
    BY <1>2 DEF Suffice, Early
  <2>2. SameCitations
    BY <1>2 DEF SameCitations, RunShaped, Suffice
  <2> QED
    BY <2>1, <2>2, KeepsCited
<1>3. CASE Judge
  <2>1. node' \in {"c7_draft", "no_expert"}
    BY <1>3 DEF Judge, Goto
  <2>2. SameCitations
    BY <1>3 DEF SameCitations, RunShaped, Judge
  <2> QED
    BY <2>1, <2>2, KeepsCited DEF Early
<1>4. CASE Write
  <2>1. node' = "send" /\ SameCitations
    BY <1>4 DEF SameCitations, RunShaped, Write, C7Draft, Goto
  <2> QED
    BY <2>1, KeepsCited DEF Early
<1>5. CASE Withdraw
  <2>1. node' = "c6_score" /\ SameCitations
    BY <1>0, <1>5 DEF SameCitations, RunShaped, Withdraw, Reroute, Goto, AgentState
  <2> QED
    BY <2>1, KeepsCited DEF Early
<1>6. CASE Rest
  <2>1. run' = run
    BY <1>6 DEF Rest
  <2>2. CASE C3Embed
    <3>1. values' = values /\ before
      BY <2>2 DEF C3Embed, Early
    <3> QED
      BY <2>1, <3>1, KeepsCited DEF SameCitations
  <2>3. CASE C5Route
    <3>1. before /\ values'.grounded = values.grounded
      BY <1>0, <2>3 DEF C5Route, Early, AgentState
    <3> QED
      BY <2>1, <3>1, KeepsCited DEF SameCitations
  <2>4. CASE PriorAnswer
    <3>1. node' = "c6_score" /\ values'.grounded = values.grounded
      BY <1>0, <2>4 DEF PriorAnswer, Goto, AgentState
    <3> QED
      BY <2>1, <3>1, KeepsCited DEF SameCitations, Early
  <2>5. CASE C6Score
    <3>1. node' \in {"document", "no_candidate", "answerability", "c7_draft"}
      BY <2>5 DEF C6Score, AfterC6, HandoffTarget, Goto
    <3>2. values'.grounded = values.grounded
      BY <1>0, <2>5 DEF C6Score, AgentState
    <3> QED
      BY <2>1, <3>1, <3>2, KeepsCited DEF SameCitations, Early
  <2>6. CASE Terminal
    <3>1. node' = Finished /\ values'.grounded = values.grounded
      BY <1>0, <2>6 DEF Terminal, Goto, AgentState
    <3> QED
      BY <2>1, <3>1, KeepsCited DEF SameCitations, Early, Finished
  <2> QED
    BY <1>6, <2>2, <2>3, <2>4, <2>5, <2>6 DEF Rest
<1> QED
  BY <1>1, <1>2, <1>3, <1>4, <1>5, <1>6, CitesSoundly, SearchCites DEF AnsweringCompute

\* So does whatever the asker and the responders do to the run.
LEMMA NextCites ==
  GraphTypeOK /\ RunShaped /\ CitedInv /\ [AnsweringNext]_answeringVars => CitedInv'
<1> SUFFICES ASSUME GraphTypeOK, RunShaped, CitedInv, [AnsweringNext]_answeringVars
             PROVE  CitedInv'
  OBVIOUS
<1>0. values \in AgentState
  BY DEF GraphTypeOK
<1>1. CASE NewQuestion
  <2>1. /\ \E text \in Texts : run' = Blank(text)
        /\ \E q : values' = ResetValues(q)
    BY <1>1 DEF NewQuestion, Start, Invoke
  <2>2. values'.grounded = FALSE
    BY <2>1 DEF ResetValues, Unwritten
  <2> QED
    BY <2>1, <2>2, BlankCited
<1>2. CASE Reply
  <2>1. node = "ask" /\ values'.grounded = values.grounded
    BY <1>0, <1>2 DEF Reply, Ask, AgentState
  <2>2. SameCitations
    BY <1>2, <2>1 DEF SameCitations, RunShaped, Reply
  <2> QED
    BY <2>1, <2>2, KeepsCited DEF Early
<1>3. CASE Choose
  <2>1. node' = "send" /\ values'.grounded = values.grounded
    BY <1>0, <1>3 DEF Choose, Reselect, AgentState
  <2>2. SameCitations
    BY <1>3, <2>1 DEF SameCitations, RunShaped, Choose
  <2> QED
    BY <2>1, <2>2, KeepsCited DEF Early
<1>4. CASE SeatReferred
  <2>1. node' = "send" /\ values'.grounded = values.grounded /\ run' = run
    BY <1>0, <1>4 DEF SeatReferred, SeatReferral, AgentState
  <2> QED
    BY <2>1, KeepsCited DEF Early, SameCitations
<1>5. CASE Outcome
  <2>1. node' \in {"reroute", "c8_update", "c7_draft"} /\ values' = values /\ run' = run
    BY <1>5 DEF Outcome, Send, AfterSend, Outcomes, Goto
  <2> QED
    BY <2>1, KeepsCited DEF Early, SameCitations
<1>6. CASE FallBack
  <2>1. node' \in {"answerability", "c7_draft", "no_candidate"}
    BY <1>6 DEF FallBack, Reopen, AfterC6, HandoffTarget, Goto
  <2>2. values'.grounded = values.grounded
    BY <1>0, <1>6 DEF FallBack, Reopen, AgentState
  <2>3. SameCitations
    BY <1>6, <2>2 DEF SameCitations, RunShaped, FallBack
  <2> QED
    BY <2>1, <2>3, KeepsCited DEF Early
<1>7. CASE RecordSegment /\ UNCHANGED run
  <2>1. node' = node /\ values'.grounded = values.grounded
    BY <1>0, <1>7 DEF RecordSegment, WriteBack, AgentState
  <2> QED
    BY <1>7, <2>1, KeepsCited DEF SameCitations
<1>8. CASE UNCHANGED answeringVars
  BY <1>8, KeepsCited DEF answeringVars, SameCitations
<1> QED
  BY <1>1, <1>2, <1>3, <1>4, <1>5, <1>6, <1>7, <1>8, ComputeCites DEF AnsweringNext

\* Everything that is kept while a question is answered.
AnsweringInv ==
  /\ GraphTypeOK /\ GraphSafe /\ ReplayInv
  /\ RunShaped /\ VettedInv /\ CitedInv

LEMMA AnsweringStarts == AnsweringInit => AnsweringInv
<1> SUFFICES ASSUME AnsweringInit PROVE AnsweringInv
  OBVIOUS
<1>1. GraphTypeOK /\ GraphSafe /\ ReplayInv
  <2>1. ReplayInv
    BY DEF AnsweringInit, ReplayInit, GraphInit, Unwritten, Finished, ReplayInv, EarlyBlank,
      DocumentBlank, MarksLive, Understood, ToSurface, Recommended, Drafted, Early
  <2> QED
    BY <2>1, InitSafe DEF AnsweringInit, ReplayInit
<1>2. RunShaped /\ VettedInv
  BY DEF AnsweringInit, ReplayInit, GraphInit, Unwritten, Finished, Blank, VettedInv,
    TextScreened, HandoffVetted, RefusedBlank, RunShaped
<1>3. CitedInv
  <2>1. /\ run.hits = NoHits /\ run.cited = <<>> /\ run.extra = <<>> /\ values.grounded = FALSE
    BY DEF AnsweringInit, ReplayInit, GraphInit, Unwritten, Blank
  <2>2. IsInjective(<<>>) /\ Len(<<>>) = 0 /\ Range(<<>>) = {} /\ \A S : <<>> \in Seq(S)
    BY DEF IsInjective, Range
  <2>3. MaxFragments >= 0
    BY AnsweringAssumption
  <2>4. HitsFit(run.hits)
    BY <2>1, <2>2 DEF HitsFit, Hits, NoHits
  <2> QED
    BY <2>1, <2>2, <2>3, <2>4 DEF CitedInv, AnswersCited, Uncited
<1> QED
  BY <1>1, <1>2, <1>3 DEF AnsweringInv

LEMMA AnsweringKeeps == AnsweringInv /\ [AnsweringNext]_answeringVars => AnsweringInv'
  BY AnsweringNextIsReplayNext, ReplayNextIsGraphNext, NextSafe, NextReplay, NextShaped, NextVetted,
    NextCites DEF AnsweringInv

\* Whatever reaches a person was screened and vetted first (agent/safety.py,
\* agent/answerability.py): no refused text goes past the screen, a run that asks has a
\* question, the critic's favourable verdict is about exactly the candidates shown, and
\* the draft addresses the first of them.
THEOREM PeopleSeeOnlyVetted == AnsweringSpec => []PeopleSeeVetted
<1>1. AnsweringInv => PeopleSeeVetted
  BY DEF AnsweringInv, VettedInv, PeopleSeeVetted
<1> QED
  BY <1>1, AnsweringStarts, AnsweringKeeps, PTL DEF AnsweringSpec

\* A direct answer, and one shown beside a hand-off, cites at least one source, each
\* once, all retrieved for this question or all of them approved units: whatever list
\* the composing model returns (retrieval/fragments.py, knowledge/answer.py), however
\* many questions the thread has seen, and whatever was deleted since the search.
THEOREM AnswersAreCited == AnsweringSpec => []AnswersCited
<1>1. AnsweringInv => AnswersCited
  BY DEF AnsweringInv, CitedInv
<1> QED
  BY <1>1, AnsweringStarts, AnsweringKeeps, PTL DEF AnsweringSpec

\* Both hold in the instance TLC explores, whatever values its constants are given.
THEOREM AnsweringIsSafe == MCSpec => []AnsweringSafe
<1> DEFINE Inv == detailed => AnsweringInv
           Step == [Replaying \/ Detailing]_<<answeringVars, detailed>>
<1>1. MCInit => Inv
  BY AnsweringStarts DEF MCInit
<1>2. Inv /\ Step => Inv'
  <2> SUFFICES ASSUME Inv, Step, detailed' PROVE AnsweringInv'
    OBVIOUS
  <2>1. detailed /\ [AnsweringNext]_answeringVars
    BY DEF Replaying, Detailing, answeringVars
  <2> QED
    BY <2>1, AnsweringKeeps
<1>3. Inv => AnsweringSafe
  BY DEF AnsweringInv, VettedInv, CitedInv, PeopleSeeVetted, AnsweringSafe
<1> QED
  BY <1>1, <1>2, <1>3, PTL DEF MCSpec
=============================================================================
