----------------------------- MODULE SlackProofs -----------------------------
(***************************************************************************)
(* Proofs about the three modules that talk to Slack and about the batches *)
(* that read what was said, for any number of people, messages, deliveries *)
(* and faults.                                                             *)
(*                                                                         *)
(* SolveCapture: the draft is well typed, the pair is asked at most once   *)
(* and always about a draft that is there, and a discarded draft comes     *)
(* back through an approval only.  That the pair is asked once does not    *)
(* follow from the row alone: a reaction stores the draft while an         *)
(* utterance is being worked on, which then asks about it.  What excludes  *)
(* a second question is the advisory lock, held from the look at the row   *)
(* to the commit (Owner), together with the fact that an utterance that    *)
(* has committed, or has asked, left a row behind which the next one sees  *)
(* (Drafted).                                                              *)
(*                                                                         *)
(* PairChannel: one channel for the pair, posts that reach both, captures  *)
(* of the thread a message is stored in; a race to set the channel up that *)
(* leaves one behind, and messages stored once.  Where a post goes was     *)
(* decided some steps before, by a row or by the name the thread created:  *)
(* ChannelInv says what a channel id is good for at each step of a         *)
(* background thread.                                                      *)
(*                                                                         *)
(* DirectorySync: links stay one to one, and a sync attaches only a sole   *)
(* claimant and cuts only a departure.  A sync plans from rows that are    *)
(* out of date when it writes; what still holds of them then is SyncInv:   *)
(* employees only come, and an account was linked to an employee when the  *)
(* rows were read.                                                         *)
(*                                                                         *)
(* Curation: group_rows makes exactly the conversations of its reference,  *)
(* and reviews hold.  The reference knows the whole history, the loop only *)
(* the rows it has read: what ties them is that a message's talk up to it  *)
(* can be counted (UpTo), that its quotient by the limit only grows, and   *)
(* that what a later row adds is no part of it.  HeldFits says so: the     *)
(* buffer is the last piece of talk, what was put out are the first        *)
(* conversations.  That a review holds rests on the id of a unit, which    *)
(* names two messages: its transcript lies between them (UnitsFit).        *)
(***************************************************************************)
EXTENDS SolveCapture, PairChannel, DirectorySync, Curation, ListProofs

-----------------------------------------------------------------------------
(* SolveCapture *)

\* A draft has at least one version.
Versions == unit.status # "none" => unit.ver # 0

Typed == CaptureTypeOK /\ Versions

\* Asks next: committed, and not yet posted.
Asking(a) == att[a].at = "post" /\ att[a].result = "stored"

\* The lock is held by the attempt between its look at the row and its commit.
Owner == \A a \in Attempts : lock = a <=> att[a].at \in {"work", "commit"}

\* Whoever holds the lock comes before every question.
OwnerIsFirst == lock # NoAttempt => prompts = 0 /\ \A a \in Attempts : ~Asking(a)

\* One attempt at most will ask, and only where nobody has asked.
OneAsks ==
  \A a \in Attempts : Asking(a) =>
    prompts = 0 /\ \A b \in Attempts : Asking(b) => a = b

\* A question, asked or about to be, has its row.
Drafted ==
  \/ unit.status # "none"
  \/ prompts = 0 /\ box = "none" /\ clicks = {} /\ \A a \in Attempts : ~Asking(a)

CaptureInv ==
  Typed /\ Owner /\ OwnerIsFirst /\ OneAsks /\ Drafted /\ PromptedOnce

-----------------------------------------------------------------------------
(* Types *)

\* The initial state is well typed.
LEMMA InitTypes == CaptureInit => Typed
<1> SUFFICES ASSUME CaptureInit PROVE Typed
  OBVIOUS
<1>1. unit \in Unit /\ unit.emb <= unit.ver /\ unit.status = "none"
  BY DEF CaptureInit, Unit
<1>2. att \in [Attempts -> Attempt]
  BY DEF CaptureInit, Attempt, Results
<1>3. embeds \in [waiting : Nat, encoding : SUBSET (1..unit.ver)]
  BY DEF CaptureInit
<1>4. progress \in BOOLEAN /\ noCase \in BOOLEAN /\ open \in BOOLEAN
  BY DEF CaptureInit
<1> QED
  BY <1>1, <1>2, <1>3, <1>4, CaptureAssumption DEF CaptureInit, Typed, CaptureTypeOK, Versions

\* The upsert yields a unit with one version more, and the same embedding.
LEMMA UpsertedUnit ==
  ASSUME NEW u \in Unit
  PROVE  /\ Upserted(u) \in Unit
         /\ Upserted(u).status # "none"
         /\ Upserted(u).ver = u.ver + 1 /\ Upserted(u).emb = u.emb
         /\ u.status # "none" => Upserted(u).status = u.status
  BY DEF Upserted, Unit

\* Every step keeps the types.
LEMMA NextTypes == Typed /\ [CaptureNext]_captureVars => Typed'
<1> SUFFICES ASSUME Typed, [CaptureNext]_captureVars PROVE Typed'
  OBVIOUS
<1> USE CaptureAssumption DEF Typed, Versions
<1>1. ASSUME NEW a \in Attempts, Utter(a) \/ Capture(a) \/ CommitFails(a)
      PROVE  Typed'
  <2>1. CASE Utter(a)
    BY <2>1 DEF Utter, CaptureTypeOK, Attempt, claimVars, slackVars, clickVars
  <2>2. CASE Enter(a)
    <3>1. CASE unit.status # "none"
      BY <2>2, <3>1 DEF Enter, CaptureTypeOK, Attempt, clickVars
    <3>2. CASE unit.status = "none"
      <4>1. att' \in [Attempts -> Attempt]
        BY <2>2, <3>2 DEF Enter, CaptureTypeOK, Attempt
      <4>2. progress' \in BOOLEAN /\ open' \in BOOLEAN
        BY <2>2, <3>2 DEF Enter, CaptureTypeOK
      <4> QED
        BY <2>2, <3>2, <4>1, <4>2 DEF Enter, CaptureTypeOK, clickVars
    <3> QED
      BY <3>1, <3>2
  <2>3. CASE ExtractRaises(a)
    BY <2>3 DEF ExtractRaises, Released, CaptureTypeOK, Attempt, clickVars
  <2>4. CASE Commit(a)
    <3>1. /\ unit' \in Unit /\ unit'.emb = unit.emb
          /\ unit'.ver = unit.ver + 1 \/ unit' = unit
      BY <2>4, UpsertedUnit DEF Commit, CaptureTypeOK
    <3>2. shown' \subseteq 1..unit'.ver /\ embeds' \in [waiting : Nat, encoding : SUBSET (1..unit'.ver)]
      BY <2>4, <3>1 DEF Commit, CaptureTypeOK, Unit, slackVars
    <3> QED
      BY <2>4, <3>1, <3>2 DEF Commit, CaptureTypeOK, Unit, Attempt, claimVars, slackVars, clickVars
  <2>5. CASE PostPrompt(a)
    <3>1. att' \in [Attempts -> Attempt]
      BY <2>5 DEF PostPrompt, Posting, CaptureTypeOK, Attempt
    <3>2. open' \in BOOLEAN
      BY <2>5 DEF PostPrompt
    <3> QED
      BY <2>5, <3>1, <3>2 DEF PostPrompt, Posting, CaptureTypeOK, claimVars, clickVars
  <2>6. CASE PostNoCase(a)
    BY <2>6 DEF PostNoCase, Posting, CaptureTypeOK, Attempt, clickVars
  <2>7. CASE PostFailed(a)
    BY <2>7 DEF PostFailed, Posting, Released, CaptureTypeOK, Attempt, clickVars
  <2>8. ASSUME NEW res \in Results, Extract(a, res) PROVE Typed'
    BY <2>8 DEF Extract, CaptureTypeOK, Attempt, claimVars, slackVars, clickVars
  <2>9. CASE CommitFails(a)
    BY <2>9 DEF CommitFails, CaptureTypeOK, Attempt, claimVars, slackVars, clickVars
  <2> QED
    BY <1>1, <2>1, <2>2, <2>3, <2>4, <2>5, <2>6, <2>7, <2>8, <2>9 DEF Capture
<1>2. ASSUME NEW r \in Reactions, React(r) PROVE Typed'
  BY <1>2 DEF React, CaptureTypeOK, claimVars, slackVars, clickVars
<1>3. ASSUME NEW r \in Reactions, NEW kept \in BOOLEAN, ReactionCaptured(r, kept)
      PROVE  Typed'
  <2>1. /\ unit' \in Unit /\ unit'.emb = unit.emb
        /\ unit'.ver = unit.ver + 1 \/ unit' = unit
    BY <1>3, UpsertedUnit DEF ReactionCaptured, CaptureTypeOK
  <2>2. shown' \subseteq 1..unit'.ver /\ embeds' \in [waiting : Nat, encoding : SUBSET (1..unit'.ver)]
    BY <1>3, <2>1 DEF ReactionCaptured, CaptureTypeOK, Unit, slackVars
  <2> QED
    BY <1>3, <2>1, <2>2 DEF ReactionCaptured, CaptureTypeOK, Unit, claimVars, slackVars, clickVars
<1>4. ASSUME NEW p \in Parties, NEW b \in Buttons, Press(p, b) PROVE Typed'
  BY <1>4 DEF Press, CaptureTypeOK, storeVars, claimVars, slackVars
<1>5. ASSUME NEW p \in Parties, Keep(p) \/ Approve(p) \/ Discard(p) PROVE Typed'
  <2>1. CASE Keep(p)
    <3>1. unit.status # "none" => unit.ver \in 1..unit.ver
      BY DEF CaptureTypeOK, Unit
    <3>2. shown' \subseteq 1..unit'.ver /\ box' \in {"none", "ask", "review", "done"}
      BY <2>1, <3>1 DEF Keep, CaptureTypeOK
    <3> QED
      BY <2>1, <3>2 DEF Keep, Handled, CaptureTypeOK, claimVars
  <2>2. CASE Approve(p)
    BY <2>2 DEF Approve, Handled, Indexing, CaptureTypeOK, Unit, claimVars
  <2>3. CASE Discard(p)
    BY <2>3 DEF Discard, Handled, CaptureTypeOK, Unit, claimVars
  <2> QED
    BY <1>5, <2>1, <2>2, <2>3
<1>6. CASE EmbedReads
  <2>1. ToEncode(unit) => unit.ver \in 1..unit.ver
    BY DEF ToEncode, CaptureTypeOK, Unit
  <2>2. embeds' \in [waiting : Nat, encoding : SUBSET (1..unit'.ver)]
    BY <1>6, <2>1 DEF EmbedReads, CaptureTypeOK, storeVars
  <2> QED
    BY <1>6, <2>2 DEF EmbedReads, CaptureTypeOK, storeVars, claimVars, slackVars, clickVars
<1>7. CASE EmbedWrites
  BY <1>7 DEF EmbedWrites, CaptureTypeOK, Unit, claimVars, slackVars, clickVars
<1>8. CASE EmbedFails
  BY <1>8 DEF EmbedFails, CaptureTypeOK, storeVars, claimVars, slackVars, clickVars
<1>9. CASE Crash
  <2>1. att' \in [Attempts -> Attempt]
    BY <1>9 DEF Crash, CaptureTypeOK, Attempt
  <2>2. progress' \in BOOLEAN /\ noCase' \in BOOLEAN
    BY <1>9 DEF Crash
  <2> QED
    BY <1>9, <2>1, <2>2 DEF Crash, CaptureTypeOK, slackVars
<1>10. CASE UNCHANGED captureVars
  BY <1>10 DEF captureVars, storeVars, claimVars, slackVars, clickVars, CaptureTypeOK
<1> QED
  BY <1>1, <1>2, <1>3, <1>4, <1>5, <1>6, <1>7, <1>8, <1>9, <1>10 DEF CaptureNext

\* The draft, its versions and the threads are well typed in every run.
THEOREM CaptureTyped == CaptureSpec => []CaptureTypeOK
<1>1. CaptureInit => Typed
  BY InitTypes
<1>2. Typed /\ [CaptureNext]_captureVars => Typed'
  BY NextTypes
<1>3. Typed => CaptureTypeOK
  BY DEF Typed
<1> QED
  BY <1>1, <1>2, <1>3, PTL DEF CaptureSpec

-----------------------------------------------------------------------------
(* One question, about a draft that is there *)

\* The invariant holds at the start.
LEMMA InitAsked == CaptureInit => CaptureInv
<1> SUFFICES ASSUME CaptureInit PROVE CaptureInv
  OBVIOUS
<1>1. Typed
  BY InitTypes
<1>2. \A a \in Attempts : att[a].at = "off"
  BY DEF CaptureInit
<1> QED
  BY <1>1, <1>2, CaptureAssumption
     DEF CaptureInit, CaptureInv, Owner, OwnerIsFirst, OneAsks, Drafted, PromptedOnce, Asking

\* A step that moves no attempt, prompt or box and keeps the row and the clicks,
\* or adds to the row, or answers clicks, or offers some where a row is.
LEMMA AskedElsewhere ==
  ASSUME CaptureInv, Typed',
         UNCHANGED <<lock, att, prompts>>,
         unit.status # "none" => unit'.status # "none",
         clicks' # {} => clicks # {} \/ unit.status # "none",
         box' # "none" => box # "none"
  PROVE  CaptureInv'
<1>1. \A a \in Attempts : Asking(a)' <=> Asking(a)
  BY DEF Asking
<1> QED
  BY <1>1 DEF CaptureInv, Owner, OwnerIsFirst, OneAsks, Drafted, PromptedOnce

\* A step of one attempt that neither takes the lock nor comes to ask.
LEMMA AskedAside ==
  ASSUME CaptureInv, Typed', NEW a \in Attempts,
         \A b \in Attempts \ {a} : att'[b] = att[b],
         att'[a].at \in {"off", "wait", "over"},
         lock' = IF lock = a THEN NoAttempt ELSE lock,
         UNCHANGED <<unit, prompts, box, clicks>>
  PROVE  CaptureInv'
<1>1. \A b \in Attempts : Asking(b)' => Asking(b) /\ b # a
  BY DEF Asking
<1>2. Owner'
  BY CaptureAssumption DEF CaptureInv, Owner
<1>3. lock' # NoAttempt => lock # NoAttempt
  OBVIOUS
<1> QED
  BY <1>1, <1>2, <1>3 DEF CaptureInv, OwnerIsFirst, OneAsks, Drafted, PromptedOnce

\* Every step keeps the invariant.
LEMMA NextAsked == CaptureInv /\ [CaptureNext]_captureVars => CaptureInv'
<1> SUFFICES ASSUME CaptureInv, [CaptureNext]_captureVars PROVE CaptureInv'
  OBVIOUS
<1>0. Typed /\ Typed'
  BY NextTypes DEF CaptureInv
<1>t. /\ att \in [Attempts -> Attempt] /\ prompts \in Nat /\ NoAttempt \notin Attempts
      /\ unit \in Unit
  BY <1>0, CaptureAssumption DEF Typed, CaptureTypeOK
<1>1. ASSUME NEW a \in Attempts, Utter(a) \/ Capture(a) \/ CommitFails(a)
      PROVE  CaptureInv'
  <2>1. CASE Utter(a)
    <3>1. lock # a
      BY <2>1, <1>t DEF Utter, CaptureInv, Owner
    <3> QED
      BY <2>1, <3>1, <1>0, <1>t, AskedAside
         DEF Utter, Attempt, claimVars, slackVars, clickVars
  <2>2. CASE Enter(a)
    <3>1. CASE unit.status # "none"
      <4>1. lock = NoAttempt
        BY <2>2 DEF Enter, Free
      <4> QED
        BY <2>2, <3>1, <4>1, <1>0, <1>t, AskedAside DEF Enter, Attempt, clickVars
    <3>2. CASE unit.status = "none"
      <4>1. lock = NoAttempt /\ lock' = a /\ UNCHANGED <<unit, prompts, box, clicks>>
        BY <2>2, <3>2 DEF Enter, Free, clickVars
      <4>2. /\ \A b \in Attempts \ {a} : att'[b] = att[b]
            /\ att'[a].at = "work"
        BY <2>2, <3>2, <1>t DEF Enter, Attempt
      <4>3. \A b \in Attempts : Asking(b)' <=> Asking(b) /\ b # a
        BY <4>2 DEF Asking
      <4>4. prompts = 0 /\ \A b \in Attempts : ~Asking(b)
        BY <3>2 DEF CaptureInv, Drafted
      <4>5. Owner'
        BY <4>1, <4>2, <1>t DEF CaptureInv, Owner
      <4> QED
        BY <4>1, <4>3, <4>4, <4>5, <1>0
           DEF CaptureInv, OwnerIsFirst, OneAsks, Drafted, PromptedOnce
    <3> QED
      BY <3>1, <3>2
  <2>3. CASE ExtractRaises(a)
    <3>1. lock = a
      BY <2>3 DEF ExtractRaises, CaptureInv, Owner
    <3> QED
      BY <2>3, <3>1, <1>0, <1>t, AskedAside DEF ExtractRaises, Attempt, clickVars
  <2>4. CASE CommitFails(a)
    <3>1. lock = a
      BY <2>4 DEF CommitFails, CaptureInv, Owner
    <3> QED
      BY <2>4, <3>1, <1>0, <1>t, AskedAside
         DEF CommitFails, Attempt, claimVars, slackVars, clickVars
  <2>5. ASSUME NEW res \in Results, Extract(a, res) PROVE CaptureInv'
    <3>1. UNCHANGED <<unit, lock, prompts, box, clicks>>
      BY <2>5 DEF Extract, slackVars, clickVars
    <3>2. /\ \A b \in Attempts \ {a} : att'[b] = att[b]
          /\ att[a].at = "work" /\ att'[a].at = "commit"
      BY <2>5, <1>t DEF Extract, Attempt
    <3>3. \A b \in Attempts : Asking(b)' <=> Asking(b)
      BY <3>2 DEF Asking
    <3>4. Owner'
      BY <3>1, <3>2 DEF CaptureInv, Owner
    <3> QED
      BY <3>1, <3>3, <3>4, <1>0
         DEF CaptureInv, OwnerIsFirst, OneAsks, Drafted, PromptedOnce
  <2>6. CASE Commit(a)
    <3>1. lock = a /\ lock' = NoAttempt /\ UNCHANGED <<prompts, box, clicks>>
      BY <2>6 DEF Commit, CaptureInv, Owner, slackVars, clickVars
    <3>2. /\ \A b \in Attempts \ {a} : att'[b] = att[b]
          /\ att'[a].at = "post" /\ att'[a].result = att[a].result
      BY <2>6, <1>t DEF Commit, Attempt
    <3>3. prompts = 0 /\ \A b \in Attempts : ~Asking(b)
      BY <3>1, <1>t DEF CaptureInv, OwnerIsFirst
    <3>4. \A b \in Attempts : Asking(b)' => b = a
      BY <3>2, <3>3 DEF Asking
    <3>5. Asking(a)' => unit'.status # "none"
      BY <2>6, <3>2, <1>t, UpsertedUnit DEF Commit, Asking
    <3>6. unit.status # "none" => unit'.status # "none"
      BY <2>6, <1>t, UpsertedUnit DEF Commit
    <3>7. Owner'
      <4>1. ASSUME NEW b \in Attempts PROVE att'[b].at \notin {"work", "commit"}
        BY <3>1, <3>2 DEF CaptureInv, Owner
      <4> QED
        BY <4>1, <3>1, <1>t DEF Owner
    <3> QED
      BY <3>1, <3>3, <3>4, <3>5, <3>6, <3>7, <1>0
         DEF CaptureInv, OwnerIsFirst, OneAsks, Drafted, PromptedOnce
  <2>7. CASE PostPrompt(a)
    <3>1. /\ Asking(a) /\ prompts' = prompts + 1
          /\ UNCHANGED <<unit, lock, clicks>>
      BY <2>7 DEF PostPrompt, Posting, Asking, clickVars
    <3>2. /\ \A b \in Attempts \ {a} : att'[b] = att[b]
          /\ att[a].at = "post" /\ att'[a].at = "over"
      BY <2>7, <1>t DEF PostPrompt, Posting, Attempt
    <3>3. \A b \in Attempts : ~Asking(b)'
      BY <3>1, <3>2 DEF CaptureInv, OneAsks, Asking
    <3>4. prompts = 0 /\ lock = NoAttempt /\ unit.status # "none"
      BY <3>1 DEF CaptureInv, OneAsks, OwnerIsFirst, Drafted
    <3>5. Owner'
      BY <3>1, <3>2 DEF CaptureInv, Owner
    <3> QED
      BY <3>1, <3>3, <3>4, <3>5, <1>0
         DEF CaptureInv, OwnerIsFirst, OneAsks, Drafted, PromptedOnce
  <2>8. CASE PostNoCase(a)
    <3>1. lock # a
      BY <2>8, <1>t DEF PostNoCase, Posting, CaptureInv, Owner
    <3> QED
      BY <2>8, <3>1, <1>0, <1>t, AskedAside DEF PostNoCase, Posting, Attempt, clickVars
  <2>9. CASE PostFailed(a)
    <3>1. lock # a
      BY <2>9, <1>t DEF PostFailed, Posting, CaptureInv, Owner
    <3> QED
      BY <2>9, <3>1, <1>0, <1>t, AskedAside DEF PostFailed, Posting, Attempt, clickVars
  <2> QED
    BY <1>1, <2>1, <2>2, <2>3, <2>4, <2>5, <2>6, <2>7, <2>8, <2>9 DEF Capture
<1>2. ASSUME NEW r \in Reactions, React(r) PROVE CaptureInv'
  BY <1>2, <1>0, AskedElsewhere DEF React, slackVars, clickVars
<1>3. ASSUME NEW r \in Reactions, NEW kept \in BOOLEAN, ReactionCaptured(r, kept)
      PROVE  CaptureInv'
  <2>1. unit.status # "none" => unit'.status # "none"
    BY <1>3, <1>t, UpsertedUnit DEF ReactionCaptured
  <2> QED
    BY <1>3, <2>1, <1>0, AskedElsewhere DEF ReactionCaptured, slackVars, clickVars
<1>4. ASSUME NEW p \in Parties, NEW b \in Buttons, Press(p, b) PROVE CaptureInv'
  <2>1. box # "none"
    BY <1>4 DEF Press, Offered
  <2>2. unit.status # "none"
    BY <2>1 DEF CaptureInv, Drafted
  <2> QED
    BY <1>4, <2>2, <1>0, AskedElsewhere DEF Press, storeVars, slackVars
<1>5. ASSUME NEW p \in Parties, Keep(p) \/ Approve(p) \/ Discard(p) PROVE CaptureInv'
  <2>1. clicks # {}
    BY <1>5 DEF Keep, Approve, Discard, Handled
  <2>2. unit.status # "none"
    BY <2>1 DEF CaptureInv, Drafted
  <2>3. unit'.status # "none"
    BY <1>5, <2>2, <1>t DEF Keep, Approve, Discard, Unit
  <2>4. UNCHANGED <<lock, att, prompts>>
    BY <1>5 DEF Keep, Approve, Discard, Handled
  <2>5. \A a \in Attempts : Asking(a)' <=> Asking(a)
    BY <2>4 DEF Asking
  <2> QED
    BY <2>3, <2>4, <2>5, <1>0
       DEF CaptureInv, Owner, OwnerIsFirst, OneAsks, Drafted, PromptedOnce
<1>6. CASE EmbedReads
  BY <1>6, <1>0, AskedElsewhere DEF EmbedReads, storeVars, slackVars, clickVars
<1>7. CASE EmbedWrites
  <2>1. unit'.status = unit.status
    BY <1>7, <1>t DEF EmbedWrites, Unit
  <2> QED
    BY <1>7, <2>1, <1>0, AskedElsewhere DEF EmbedWrites, slackVars, clickVars
<1>8. CASE EmbedFails
  BY <1>8, <1>0, AskedElsewhere DEF EmbedFails, storeVars, slackVars, clickVars
<1>9. CASE Crash
  <2>1. lock' = NoAttempt /\ clicks' = {} /\ UNCHANGED <<unit, prompts, box>>
    BY <1>9 DEF Crash, slackVars
  <2>2. \A a \in Attempts : att'[a].at \in {"off", "over"}
    BY <1>9, <1>t DEF Crash, Attempt
  <2>3. \A a \in Attempts : ~Asking(a)'
    BY <2>2 DEF Asking
  <2>4. Owner'
    BY <2>1, <2>2, <1>t DEF Owner
  <2> QED
    BY <2>1, <2>3, <2>4, <1>0
       DEF CaptureInv, OwnerIsFirst, OneAsks, Drafted, PromptedOnce
<1>10. CASE UNCHANGED captureVars
  BY <1>10, <1>0, AskedElsewhere DEF captureVars, storeVars, slackVars, clickVars
<1> QED
  BY <1>1, <1>2, <1>3, <1>4, <1>5, <1>6, <1>7, <1>8, <1>9, <1>10 DEF CaptureNext

\* The invariant holds in every run.
LEMMA SpecAsked == CaptureSpec => []CaptureInv
  BY InitAsked, NextAsked, PTL DEF CaptureSpec

\* The pair is asked at most once, whatever number of utterances, reactions and
\* restarts there are.
THEOREM AskedOnce == CaptureSpec => []PromptedOnce
<1>1. CaptureInv => PromptedOnce
  BY DEF CaptureInv
<1> QED
  BY <1>1, SpecAsked, PTL

\* A button always finds the draft it is about.
THEOREM ButtonsFindDraft == CaptureSpec => []PromptHasDraft
<1>1. CaptureInv => PromptHasDraft
  BY DEF CaptureInv, Drafted, PromptHasDraft
<1> QED
  BY <1>1, SpecAsked, PTL

\* The pair is prompted once, and never about nothing.
THEOREM PromptsAreSound == CaptureSpec => []PromptSound
  BY AskedOnce, ButtonsFindDraft, PTL DEF PromptSound

-----------------------------------------------------------------------------
(* Decisions last *)

DiscardKept ==
  unit.status = "rejected" /\ unit'.status # "rejected" =>
    /\ unit'.status = "approved"
    /\ \E p \in Parties : <<p, "approve">> \in clicks \ clicks'

\* Only a handled approval takes a unit out of the rejected state.
LEMMA StepKeepsDiscard == Typed /\ [CaptureNext]_captureVars => DiscardKept
<1> SUFFICES ASSUME Typed, [CaptureNext]_captureVars PROVE DiscardKept
  OBVIOUS
<1>t. unit \in Unit
  BY DEF Typed, CaptureTypeOK
<1>1. ASSUME NEW a \in Attempts, Utter(a) \/ Capture(a) \/ CommitFails(a)
      PROVE  unit'.status = unit.status \/ unit.status = "none"
  <2>1. CASE Commit(a)
    BY <2>1, <1>t, UpsertedUnit DEF Commit
  <2>2. CASE ~Commit(a)
    BY <1>1, <2>2 DEF Utter, Capture, CommitFails, Enter, ExtractRaises, Extract,
      PostPrompt, PostNoCase, PostFailed, Posting
  <2> QED
    BY <2>1, <2>2
<1>2. ASSUME NEW r \in Reactions, NEW kept \in BOOLEAN,
             React(r) \/ ReactionCaptured(r, kept)
      PROVE  unit'.status = unit.status \/ unit.status = "none"
  BY <1>2, <1>t, UpsertedUnit DEF React, ReactionCaptured
<1>3. ASSUME NEW p \in Parties, NEW b \in Buttons, Press(p, b) \/ Keep(p)
      PROVE  unit'.status = unit.status
  BY <1>3 DEF Press, Keep, storeVars
<1>4. ASSUME NEW p \in Parties, Approve(p) PROVE DiscardKept
  <2>1. <<p, "approve">> \in clicks \ clicks'
    BY <1>4 DEF Approve, Handled
  <2>2. unit.status = "rejected" => unit'.status = "approved"
    BY <1>4, <1>t DEF Approve, Unit
  <2> QED
    BY <2>1, <2>2 DEF DiscardKept
<1>5. ASSUME NEW p \in Parties, Discard(p)
      PROVE  unit.status = "rejected" => unit'.status = "rejected"
  BY <1>5, <1>t DEF Discard, Unit
<1>6. ASSUME EmbedReads \/ EmbedWrites \/ EmbedFails \/ Crash \/ UNCHANGED captureVars
      PROVE  unit'.status = unit.status
  BY <1>6, <1>t DEF EmbedReads, EmbedWrites, EmbedFails, Crash, captureVars, storeVars, Unit
<1> QED
  BY <1>1, <1>2, <1>3, <1>4, <1>5, <1>6 DEF CaptureNext, DiscardKept, Buttons

\* What was discarded stays so until somebody presses approve.
THEOREM DiscardLasts == CaptureSpec => DiscardIsDurable
<1>1. Typed /\ [CaptureNext]_captureVars => [DiscardKept]_captureVars
  BY StepKeepsDiscard
<1>2. CaptureSpec => []Typed
  BY InitTypes, NextTypes, PTL DEF CaptureSpec
<1>3. CaptureSpec => [][DiscardKept]_captureVars
  BY <1>1, <1>2, PTL DEF CaptureSpec
<1> QED
  BY <1>3 DEF DiscardIsDurable, DiscardKept

-----------------------------------------------------------------------------
(* The notices and the review *)

\* An attempt under way that announced itself and has not said how it ended.
Announced(a) == att[a].claimed /\ att[a].at \in {"work", "commit", "post"}

\* While nothing failed, a progress claim has its attempt or its outcome.
ClaimHeld ==
  progress => noCase \/ unit.status # "none" \/ \E a \in Attempts : Announced(a)

\* While nothing failed, an open announcement has an attempt that will follow it up.
OpenHeld == open => noCase \/ \E a \in Attempts : Announced(a)

\* Whoever can approve, or has approved, does so after a version was shown.
Reviewed ==
  box = "review" \/ unit.status = "approved" \/ (\E p \in Parties : <<p, "approve">> \in clicks)
    => shown # {}

Informed == (faults = 0 => ClaimHeld /\ OpenHeld) /\ Reviewed

\* A step beside the attempts that lets the row, the claims and the notices be.
LEMMA HeldElsewhere ==
  ASSUME faults = 0 => ClaimHeld /\ OpenHeld, faults' = 0 => faults = 0,
         UNCHANGED <<att, progress, noCase, open>>,
         unit.status # "none" => unit'.status # "none"
  PROVE  faults' = 0 => ClaimHeld' /\ OpenHeld'
<1>1. \A a \in Attempts : Announced(a)' <=> Announced(a)
  BY DEF Announced
<1> QED
  BY <1>1 DEF ClaimHeld, OpenHeld

\* A step of one attempt that goes on, or that had nothing to follow up, and
\* leaves the claims and the notices as they are.
LEMMA HeldByOthers ==
  ASSUME NEW a \in Attempts,
         faults = 0 => ClaimHeld /\ OpenHeld, faults' = 0 => faults = 0,
         UNCHANGED <<progress, noCase, open>>,
         \A b \in Attempts \ {a} : att'[b] = att[b],
         Announced(a) => Announced(a)',
         unit.status # "none" => unit'.status # "none"
  PROVE  faults' = 0 => ClaimHeld' /\ OpenHeld'
<1>1. \A b \in Attempts : Announced(b) => Announced(b)'
  BY DEF Announced
<1> QED
  BY <1>1 DEF ClaimHeld, OpenHeld

\* Every step keeps the claims and the announcements accounted for.
LEMMA NextHeld ==
  ASSUME CaptureInv, faults = 0 => ClaimHeld /\ OpenHeld, [CaptureNext]_captureVars
  PROVE  faults' = 0 => ClaimHeld' /\ OpenHeld'
<1>t. /\ att \in [Attempts -> Attempt] /\ faults \in Nat /\ unit \in Unit
      /\ progress \in BOOLEAN /\ open \in BOOLEAN /\ noCase \in BOOLEAN
  BY CaptureAssumption DEF CaptureInv, Typed, CaptureTypeOK
<1>1. ASSUME NEW a \in Attempts, Utter(a) \/ Capture(a) \/ CommitFails(a)
      PROVE  faults' = 0 => ClaimHeld' /\ OpenHeld'
  <2>1. CASE Utter(a)
    BY <2>1, <1>t, HeldByOthers DEF Utter, Attempt, Announced, claimVars, slackVars
  <2>2. CASE Enter(a)
    <3>0. /\ UNCHANGED <<faults, unit, noCase>> /\ ~Announced(a)
          /\ \A b \in Attempts \ {a} : att'[b] = att[b]
      BY <2>2, <1>t DEF Enter, Attempt, Announced
    <3>1. CASE unit.status # "none" \/ progress
      <4>1. UNCHANGED <<progress, open>>
        BY <2>2, <3>1, <1>t DEF Enter
      <4> QED
        BY <3>0, <4>1, HeldByOthers
    <3>2. CASE unit.status = "none" /\ ~progress
      <4>1. Announced(a)'
        BY <2>2, <3>2, <1>t DEF Enter, Attempt, Announced
      <4> QED
        BY <4>1 DEF ClaimHeld, OpenHeld
    <3> QED
      BY <3>1, <3>2
  <2>3. CASE ExtractRaises(a)
    <3>1. /\ UNCHANGED <<faults, unit, noCase>>
          /\ \A b \in Attempts \ {a} : att'[b] = att[b]
      BY <2>3, <1>t DEF ExtractRaises
    <3>2. CASE att[a].claimed
      BY <2>3, <3>2 DEF ExtractRaises, Released, ClaimHeld, OpenHeld
    <3>3. CASE ~att[a].claimed
      <4>1. UNCHANGED <<progress, open>> /\ ~Announced(a)
        BY <2>3, <3>3, <1>t DEF ExtractRaises, Released, Announced
      <4> QED
        BY <3>1, <4>1, HeldByOthers
    <3> QED
      BY <3>2, <3>3
  <2>4. CASE Commit(a)
    <3>1. Announced(a) => Announced(a)'
      BY <2>4, <1>t DEF Commit, Attempt, Announced
    <3>2. unit.status # "none" => unit'.status # "none"
      BY <2>4, <1>t, UpsertedUnit DEF Commit
    <3> QED
      BY <2>4, <3>1, <3>2, <1>t, HeldByOthers DEF Commit, claimVars, slackVars
  <2>5. CASE PostPrompt(a)
    <3>1. Asking(a) /\ ~open' /\ UNCHANGED unit
      BY <2>5 DEF PostPrompt, Posting, Asking
    <3>2. unit.status # "none"
      BY <3>1 DEF CaptureInv, Drafted
    <3> QED
      BY <3>1, <3>2 DEF ClaimHeld, OpenHeld
  <2>6. CASE PostNoCase(a)
    BY <2>6 DEF PostNoCase, ClaimHeld, OpenHeld
  <2>7. CASE PostFailed(a)
    <3>1. /\ UNCHANGED <<faults, unit, noCase>>
          /\ \A b \in Attempts \ {a} : att'[b] = att[b]
      BY <2>7, <1>t DEF PostFailed, Posting
    <3>2. CASE att[a].claimed
      BY <2>7, <3>2 DEF PostFailed, Released, ClaimHeld, OpenHeld
    <3>3. CASE ~att[a].claimed
      <4>1. UNCHANGED <<progress, open>> /\ ~Announced(a)
        BY <2>7, <3>3, <1>t DEF PostFailed, Released, Announced
      <4> QED
        BY <3>1, <4>1, HeldByOthers
    <3> QED
      BY <3>2, <3>3
  <2>8. ASSUME NEW res \in Results, Extract(a, res)
        PROVE  faults' = 0 => ClaimHeld' /\ OpenHeld'
    BY <2>8, <1>t, HeldByOthers DEF Extract, Attempt, Announced, claimVars, slackVars
  <2>9. CASE CommitFails(a)
    BY <2>9, <1>t DEF CommitFails
  <2> QED
    BY <1>1, <2>1, <2>2, <2>3, <2>4, <2>5, <2>6, <2>7, <2>8, <2>9 DEF Capture
<1>2. ASSUME NEW r \in Reactions, NEW kept \in BOOLEAN,
             React(r) \/ ReactionCaptured(r, kept)
      PROVE  faults' = 0 => ClaimHeld' /\ OpenHeld'
  <2>1. unit.status # "none" => unit'.status # "none"
    BY <1>2, <1>t, UpsertedUnit DEF React, ReactionCaptured
  <2> QED
    BY <1>2, <2>1, HeldElsewhere DEF React, ReactionCaptured, claimVars, slackVars
<1>3. ASSUME NEW p \in Parties, NEW b \in Buttons,
             Press(p, b) \/ Keep(p) \/ Approve(p) \/ Discard(p)
      PROVE  faults' = 0 => ClaimHeld' /\ OpenHeld'
  <2>1. unit.status # "none" => unit'.status # "none"
    BY <1>3, <1>t DEF Press, Keep, Approve, Discard, storeVars, Unit
  <2>2. UNCHANGED <<att, progress, noCase, open, faults>>
    BY <1>3 DEF Press, Keep, Approve, Discard, Handled, storeVars, claimVars, slackVars
  <2> QED
    BY <2>1, <2>2, HeldElsewhere
<1>4. CASE EmbedReads \/ EmbedWrites \/ UNCHANGED captureVars
  <2>1. unit.status # "none" => unit'.status # "none"
    BY <1>4, <1>t DEF EmbedReads, EmbedWrites, captureVars, storeVars, Unit
  <2>2. UNCHANGED <<att, progress, noCase, open, faults>>
    BY <1>4 DEF EmbedReads, EmbedWrites, captureVars, storeVars, claimVars, slackVars
  <2> QED
    BY <2>1, <2>2, HeldElsewhere
<1>5. CASE EmbedFails \/ Crash
  BY <1>5, <1>t DEF EmbedFails, Crash
<1> QED
  BY <1>1, <1>2, <1>3, <1>4, <1>5 DEF CaptureNext, Buttons

\* What was shown stays shown.
LEMMA StaysReviewed ==
  ASSUME Reviewed, shown \subseteq shown',
         box' = "review" => box = "review" \/ shown' # {},
         unit'.status = "approved" => unit.status = "approved" \/ shown # {},
         \A p \in Parties : <<p, "approve">> \in clicks' =>
           <<p, "approve">> \in clicks \/ shown # {}
  PROVE  Reviewed'
  BY DEF Reviewed

\* Every step keeps approvals behind a review.
LEMMA NextReviewed == CaptureInv /\ Reviewed /\ [CaptureNext]_captureVars => Reviewed'
<1> SUFFICES ASSUME CaptureInv, Reviewed, [CaptureNext]_captureVars PROVE Reviewed'
  OBVIOUS
<1>t. unit \in Unit
  BY DEF CaptureInv, Typed, CaptureTypeOK
<1>1. ASSUME NEW a \in Attempts, Utter(a) \/ Capture(a) \/ CommitFails(a)
      PROVE  Reviewed'
  <2>1. UNCHANGED <<shown, clicks>> /\ (box' = box \/ box' = "ask")
    BY <1>1 DEF Utter, Capture, CommitFails, Enter, ExtractRaises, Extract, Commit,
      PostPrompt, PostNoCase, PostFailed, Posting, slackVars, clickVars
  <2>2. unit'.status = "approved" => unit.status = "approved"
    <3>1. CASE Commit(a)
      BY <3>1, <1>t DEF Commit, Upserted, Unit
    <3>2. CASE ~Commit(a)
      BY <1>1, <3>2 DEF Utter, Capture, CommitFails, Enter, ExtractRaises, Extract,
        PostPrompt, PostNoCase, PostFailed, Posting
    <3> QED
      BY <3>1, <3>2
  <2> QED
    BY <2>1, <2>2, StaysReviewed
<1>2. ASSUME NEW r \in Reactions, NEW kept \in BOOLEAN,
             React(r) \/ ReactionCaptured(r, kept)
      PROVE  Reviewed'
  <2>1. unit'.status = "approved" => unit.status = "approved"
    BY <1>2, <1>t DEF React, ReactionCaptured, Upserted, Unit
  <2> QED
    BY <1>2, <2>1, StaysReviewed DEF React, ReactionCaptured, slackVars, clickVars
<1>3. ASSUME NEW p \in Parties, NEW b \in Buttons, Press(p, b) PROVE Reviewed'
  <2>1. b = "approve" => shown # {}
    BY <1>3 DEF Press, Offered, Reviewed
  <2> QED
    BY <1>3, <2>1, StaysReviewed DEF Press, storeVars, slackVars
<1>4. ASSUME NEW p \in Parties, Keep(p) PROVE Reviewed'
  BY <1>4, StaysReviewed DEF Keep, Handled
<1>5. ASSUME NEW p \in Parties, Approve(p) PROVE Reviewed'
  <2>1. shown # {}
    BY <1>5 DEF Approve, Handled, Reviewed
  <2> QED
    BY <1>5, <2>1, StaysReviewed DEF Approve, Handled
<1>6. ASSUME NEW p \in Parties, Discard(p) PROVE Reviewed'
  BY <1>6, <1>t, StaysReviewed DEF Discard, Handled, Unit
<1>7. CASE EmbedReads \/ EmbedWrites \/ EmbedFails \/ Crash \/ UNCHANGED captureVars
  <2>1. unit'.status = unit.status
    BY <1>7, <1>t DEF EmbedReads, EmbedWrites, EmbedFails, Crash, captureVars, storeVars, Unit
  <2>2. UNCHANGED <<box, shown>> /\ clicks' \subseteq clicks
    BY <1>7 DEF EmbedReads, EmbedWrites, EmbedFails, Crash, captureVars, slackVars, clickVars
  <2> QED
    BY <2>1, <2>2, StaysReviewed
<1> QED
  BY <1>1, <1>2, <1>3, <1>4, <1>5, <1>6, <1>7 DEF CaptureNext, Buttons

\* The claims, the announcements and the reviews are accounted for in every run.
LEMMA SpecInformed == CaptureSpec => [](CaptureInv /\ Informed)
<1>1. CaptureInit => Informed
  BY DEF CaptureInit, Informed, ClaimHeld, OpenHeld, Reviewed
<1>2. CaptureInv /\ Informed /\ [CaptureNext]_captureVars => Informed'
  BY NextHeld, NextReviewed DEF Informed
<1> QED
  BY <1>1, <1>2, InitAsked, NextAsked, PTL DEF CaptureSpec

\* Every announced start of a capture is followed up and every claim answered for,
\* whatever number of attempts share it, and nothing is approved unread.
THEOREM PairHears == CaptureSpec => []PairInformed
<1>1. CaptureInv /\ Informed => NoticesAgree
  <2> SUFFICES ASSUME Informed, Idle, faults = 0
               PROVE  (progress => noCase \/ unit.status # "none") /\ (open => noCase)
    BY DEF NoticesAgree, ClaimIsJustified, StartedIsClosed
  <2>1. \A a \in Attempts : ~Announced(a)
    BY DEF Idle, Announced
  <2> QED
    BY <2>1 DEF Informed, ClaimHeld, OpenHeld
<1>2. Informed => ApprovedAfterReview
  BY DEF Informed, Reviewed, ApprovedAfterReview
<1>3. CaptureInv /\ Informed => PairInformed
  BY <1>1, <1>2 DEF PairInformed
<1> QED
  BY <1>3, SpecInformed, PTL

-----------------------------------------------------------------------------
(* PairChannel *)

\* A channel of the configured workspace, for the pair.
Made(c) == c \in DOMAIN chans /\ chans[c].name = PairName

\* Both have joined it.
Reached(c) == Made(c) /\ chans[c].joined

ChannelInv ==
  /\ \A c \in DOMAIN chans : chans[c].name \in {PairName, Elsewhere}
  /\ \A c, d \in DOMAIN chans : Made(c) /\ Made(d) => c = d
  /\ link.ours => Reached(link.chan)
  /\ \A j \in Kinds \X Threads :
       /\ jobs[j].at = "invite" => Made(jobs[j].chan)
       /\ jobs[j].at \in {"save", "post"} => Reached(jobs[j].chan)
  /\ \A post \in Announcements : Reached(post[1])

-----------------------------------------------------------------------------
(* Types of the channel's part *)

LEMMA InitChannel == PairInit => ChannelTypeOK /\ ChannelInv
<1> SUFFICES ASSUME PairInit PROVE ChannelTypeOK /\ ChannelInv
  OBVIOUS
<1> DEFINE Channel == [name : {PairName, Elsewhere} \cup Threads, joined : BOOLEAN]
           other == [name |-> Elsewhere, joined |-> TRUE]
<1>1. chans \in Seq(Channel)
  <2>1. other \in Channel
    OBVIOUS
  <2>2. chans = <<>> \/ chans = <<other>>
    BY DEF PairInit
  <2>3. <<>> \in Seq(Channel)
    OBVIOUS
  <2>4. <<other>> \in Seq(Channel)
    BY <2>1
  <2> QED
    BY <2>2, <2>3, <2>4
<1>2. link \in Link /\ ~link.ours
  <2>1. CASE link = NoLink
    BY <2>1 DEF NoLink, Link
  <2>2. CASE link = [chan |-> 1, ours |-> FALSE, thread |-> NoThread]
    BY <2>2 DEF Link
  <2> QED
    BY <2>1, <2>2 DEF PairInit
<1>3. jobs \in [Kinds \X Threads -> Job] /\ \A j \in Kinds \X Threads : jobs[j].at = "off"
  BY DEF PairInit, Job, Off
<1>4. \A c \in DOMAIN chans : chans[c].name = Elsewhere
  BY DEF PairInit
<1>5. PairName # Elsewhere
  BY DEF PairName, Elsewhere
<1>6. hand \in ThreadSets /\ feed = {} /\ relays = {}
  BY DEF PairInit, ThreadSets
<1> QED
  BY <1>1, <1>2, <1>3, <1>4, <1>5, <1>6 DEF ChannelTypeOK, ChannelInv, Made, Announcements

\* A channel is a record of this kind; appending and joining keep the kind.
Channel == [name : {PairName, Elsewhere} \cup Threads, joined : BOOLEAN]

\* What a background thread does is well typed.
LEMMA JobTypes ==
  ASSUME ChannelTypeOK, ChannelInv, NEW k \in Kinds, NEW t \in Threads, JobStep(k, t) \/ JobEnds(k, t)
  PROVE  ChannelTypeOK'
<1>t. /\ <<k, t>> \in Kinds \X Threads
      /\ jobs \in [Kinds \X Threads -> Job] /\ jobs[<<k, t>>] \in Job
      /\ link \in Link /\ chans \in Seq(Channel) /\ hand \in ThreadSets
      /\ feed \subseteq Nat \X {"draft", "buttons", "accepted", "chat"} \X Threads
  BY DEF ChannelTypeOK, Channel
<1>1. CASE LookUp(k, t)
  <2>1. link' \in Link
    BY <1>1, <1>t DEF LookUp, Link
  <2>2. [at |-> "post", chan |-> link.chan, had |-> TRUE] \in Job
    BY <1>t DEF Link, Job
  <2>3. [at |-> "make", chan |-> 0, had |-> link # NoLink] \in Job
    BY DEF Job
  <2>4. jobs' \in [Kinds \X Threads -> Job]
    BY <1>1, <1>t, <2>2, <2>3 DEF LookUp
  <2> QED
    BY <1>1, <1>t, <2>1, <2>4 DEF LookUp, ChannelTypeOK, Channel
<1>2. CASE MakeChannel(k, t)
  <2>1. CASE \E c \in DOMAIN chans : chans[c].name = ChannelName(t)
    <3>0. jobs' = [jobs EXCEPT ![<<k, t>>].at = "over"]
      BY <1>2, <2>1 DEF MakeChannel
    <3>1. jobs' \in [Kinds \X Threads -> Job]
      BY <3>0, <1>t DEF Job
    <3> QED
      BY <1>2, <2>1, <1>t, <3>1 DEF MakeChannel, ChannelTypeOK, Channel
  <2>2. CASE ~\E c \in DOMAIN chans : chans[c].name = ChannelName(t)
    <3> DEFINE new == [name |-> ChannelName(t), joined |-> FALSE]
    <3>1. new \in Channel
      BY DEF ChannelName, Channel
    <3>2. chans' = Append(chans, new)
      BY <1>2, <2>2 DEF MakeChannel
    <3>3. chans' \in Seq(Channel)
      <4> HIDE DEF new
      <4> QED
        BY <3>1, <3>2, <1>t, AppendProperties
    <3>4. Len(chans) + 1 \in Nat
      BY <1>t, LenProperties
    <3>0. jobs' = [jobs EXCEPT ![<<k, t>>].at = "invite", ![<<k, t>>].chan = Len(chans) + 1]
      BY <1>2, <2>2 DEF MakeChannel
    <3>5. jobs' \in [Kinds \X Threads -> Job]
      BY <3>0, <1>t, <3>4 DEF Job
    <3> QED
      BY <1>2, <2>2, <1>t, <3>3, <3>5 DEF MakeChannel, ChannelTypeOK, Channel
  <2> QED
    BY <2>1, <2>2
<1>3. CASE Invite(k, t)
  <2>1. jobs' \in [Kinds \X Threads -> Job]
    BY <1>3, <1>t DEF Invite, Job
  <2>2. chans' \in Seq(Channel)
    <3> DEFINE i == jobs[<<k, t>>].chan
    <3>1. i \in 1..Len(chans)
      BY <1>3, <1>t, LenProperties DEF Invite, ChannelInv, Made
    <3>2. chans[i] \in Channel
      BY <3>1, <1>t, ElementOfSeq
    <3>3. [chans[i] EXCEPT !.joined = TRUE] \in Channel
      BY <3>2 DEF Channel
    <3>4. chans' = [chans EXCEPT ![i] = [chans[i] EXCEPT !.joined = TRUE]]
      BY <1>3 DEF Invite
    <3> HIDE DEF i
    <3> QED
      BY <3>1, <3>3, <3>4, <1>t, ExceptSeq
  <2> QED
    BY <1>3, <1>t, <2>1, <2>2 DEF Invite, ChannelTypeOK, Channel
<1>4. CASE SaveLink(k, t)
  <2>1. SavedLink(k, t) \in Link
    BY <1>t DEF SavedLink, Link, Job
  <2>2. jobs' \in [Kinds \X Threads -> Job]
    BY <1>4, <1>t DEF SaveLink, Job
  <2> QED
    BY <1>4, <1>t, <2>1, <2>2 DEF SaveLink, ChannelTypeOK, Channel
<1>5. CASE PostToChannel(k, t)
  <2>1. jobs[<<k, t>>].chan \in Nat /\ Posts(k, t) \subseteq {"draft", "buttons", "accepted"}
    BY <1>t DEF Job, Posts
  <2>2. feed' \subseteq Nat \X {"draft", "buttons", "accepted", "chat"} \X Threads
    BY <1>5, <1>t, <2>1 DEF PostToChannel
  <2>3. jobs' \in [Kinds \X Threads -> Job]
    BY <1>5, <1>t DEF PostToChannel, Job
  <2> QED
    BY <1>5, <1>t, <2>2, <2>3 DEF PostToChannel, ChannelTypeOK, Channel
<1>6. CASE JobEnds(k, t)
  <2>1. jobs' \in [Kinds \X Threads -> Job]
    BY <1>6, <1>t DEF JobEnds, Job
  <2> QED
    BY <1>6, <1>t, <2>1 DEF JobEnds, ChannelTypeOK, Channel
<1> QED
  BY <1>1, <1>2, <1>3, <1>4, <1>5, <1>6 DEF JobStep

-----------------------------------------------------------------------------
(* One channel, and both in it *)

\* Steps that leave the channel's variables alone leave the invariant alone.
LEMMA ChannelAside ==
  ASSUME ChannelInv, UNCHANGED <<link, chans, feed>>,
         \A j \in Kinds \X Threads :
           jobs'[j] = jobs[j] \/ jobs'[j].at \in {"off", "look", "make", "over"}
  PROVE  ChannelInv'
<1>1. \A c \in Nat : (Made(c)' <=> Made(c)) /\ (Reached(c)' <=> Reached(c))
  BY DEF Made, Reached
<1> QED
  BY <1>1 DEF ChannelInv, Made, Reached, Announcements

\* What a background thread does keeps the invariant.
LEMMA JobKeepsChannel ==
  ASSUME ChannelTypeOK, ChannelInv, NEW k \in Kinds, NEW t \in Threads,
         JobStep(k, t) \/ JobEnds(k, t)
  PROVE  ChannelInv'
<1>t. /\ <<k, t>> \in Kinds \X Threads
      /\ jobs \in [Kinds \X Threads -> Job] /\ jobs[<<k, t>>] \in Job
      /\ link \in Link /\ chans \in Seq(Channel)
  BY DEF ChannelTypeOK, Channel
<1>1. CASE LookUp(k, t)
  <2>1. CASE Usable
    <3>1. /\ link' = [link EXCEPT !.thread = t] /\ UNCHANGED <<chans, feed>>
          /\ jobs' = [jobs EXCEPT ![<<k, t>>] =
                       [at |-> "post", chan |-> link.chan, had |-> TRUE]]
      BY <1>1, <2>1 DEF LookUp
    <3>2. Reached(link.chan)
      BY <2>1 DEF Usable, ChannelInv
    <3>3. \A j \in Kinds \X Threads :
            \/ j # <<k, t>> /\ jobs'[j] = jobs[j]
            \/ jobs'[j].at = "post" /\ jobs'[j].chan = link.chan
      BY <3>1, <1>t
    <3>4. link'.ours = link.ours /\ link'.chan = link.chan
      BY <3>1, <1>t DEF Link
    <3> QED
      BY <3>1, <3>2, <3>3, <3>4 DEF ChannelInv, Made, Reached, Announcements
  <2>2. CASE ~Usable
    <3>1. /\ UNCHANGED <<link, chans, feed>>
          /\ jobs' = [jobs EXCEPT ![<<k, t>>] =
                       [at |-> "make", chan |-> 0, had |-> link # NoLink]]
      BY <1>1, <2>2 DEF LookUp
    <3>2. \A j \in Kinds \X Threads : jobs'[j] = jobs[j] \/ jobs'[j].at = "make"
      BY <3>1, <1>t
    <3> QED
      BY <3>1, <3>2, ChannelAside
  <2> QED
    BY <2>1, <2>2
<1>2. CASE MakeChannel(k, t)
  <2>1. CASE \E c \in DOMAIN chans : chans[c].name = ChannelName(t)
    <3>1. /\ UNCHANGED <<link, chans, feed>>
          /\ jobs' = [jobs EXCEPT ![<<k, t>>].at = "over"]
      BY <1>2, <2>1 DEF MakeChannel
    <3>2. \A j \in Kinds \X Threads : jobs'[j] = jobs[j] \/ jobs'[j].at = "over"
      BY <3>1, <1>t DEF Job
    <3> QED
      BY <3>1, <3>2, ChannelAside
  <2>2. CASE ~\E c \in DOMAIN chans : chans[c].name = ChannelName(t)
    <3>0. PICK n \in Nat \ {0} : n = Len(chans) + 1
      BY <1>t, LenProperties
    <3>1. /\ chans' = Append(chans, [name |-> PairName, joined |-> FALSE])
          /\ jobs' = [jobs EXCEPT ![<<k, t>>].at = "invite", ![<<k, t>>].chan = n]
          /\ UNCHANGED <<link, feed>>
      BY <1>2, <2>2, <3>0 DEF MakeChannel, ChannelName
    <3>2. [name |-> PairName, joined |-> FALSE] \in Channel
      BY DEF Channel
    <3>3. /\ DOMAIN chans' = 1..n /\ n \in Nat /\ DOMAIN chans = 1..(n - 1)
          /\ \A c \in 1..(n - 1) : chans'[c] = chans[c]
          /\ chans'[n].name = PairName
      BY <3>0, <3>1, <3>2, <1>t, AppendProperties, LenProperties
    <3>4. \A c \in DOMAIN chans : ~Made(c)
      BY <2>2 DEF ChannelName, Made
    <3>5. \A c : Reached(c) => c \in DOMAIN chans /\ Reached(c)'
      BY <3>3 DEF Made, Reached
    <3>6. \A c \in DOMAIN chans' : Made(c)' => c = n
      BY <3>3, <3>4 DEF Made
    <3>7. \A j \in Kinds \X Threads :
            \/ j # <<k, t>> /\ jobs'[j] = jobs[j]
            \/ jobs'[j].at = "invite" /\ jobs'[j].chan = n
      BY <3>1, <1>t DEF Job
    <3>8. Made(n)'
      BY <3>3 DEF Made
    <3>9. \A j \in Kinds \X Threads :
            /\ jobs'[j].at = "invite" => Made(jobs[j].chan)'
            /\ jobs'[j].at \in {"save", "post"} => Reached(jobs[j].chan)'
      <4>1. ASSUME NEW j \in Kinds \X Threads
            PROVE  /\ jobs[j].at # "invite"
                   /\ jobs[j].at \notin {"save", "post"}
        BY <3>4 DEF ChannelInv, Reached, Made
      <4> QED
        BY <4>1, <3>7, <3>8
    <3>10. \A c \in DOMAIN chans' : chans'[c].name \in {PairName, Elsewhere}
      BY <3>3 DEF ChannelInv
    <3> QED
      BY <3>1, <3>5, <3>6, <3>9, <3>10 DEF ChannelInv, Announcements
  <2> QED
    BY <2>1, <2>2
<1>3. CASE Invite(k, t)
  <2>0. PICK i \in Nat : i = jobs[<<k, t>>].chan
    BY <1>t DEF Job
  <2>1. Made(i)
    BY <1>3, <1>t, <2>0 DEF Invite, ChannelInv
  <2>2. /\ chans' = [chans EXCEPT ![i].joined = TRUE]
        /\ jobs' = [jobs EXCEPT ![<<k, t>>].at = "save"]
        /\ UNCHANGED <<link, feed>>
    BY <1>3, <2>0 DEF Invite
  <2>3. chans[i] \in Channel
    BY <2>1, <1>t, ElementOfSeq, LenProperties DEF Made
  <2>4. /\ DOMAIN chans' = DOMAIN chans
        /\ \A c \in DOMAIN chans :
             /\ chans'[c].name = chans[c].name
             /\ chans'[c].joined = (chans[c].joined \/ c = i)
    <3>1. \A c \in DOMAIN chans : chans[c] \in Channel
      BY <1>t, ElementOfSeq, LenProperties
    <3> QED
      BY <3>1, <2>1, <2>2 DEF Channel, Made
  <2>5. \A c : (Made(c)' <=> Made(c)) /\ (Reached(c) => Reached(c)')
    BY <2>4 DEF Made, Reached
  <2>6. Reached(i)'
    BY <2>1, <2>4 DEF Made, Reached
  <2>7. \A j \in Kinds \X Threads :
          \/ j # <<k, t>> /\ jobs'[j] = jobs[j]
          \/ jobs'[j].at = "save" /\ jobs'[j].chan = i
    BY <2>0, <2>2, <1>t DEF Job
  <2>8. \A c \in DOMAIN chans' : chans'[c].name \in {PairName, Elsewhere}
    BY <2>4 DEF ChannelInv
  <2> QED
    BY <2>2, <2>4, <2>5, <2>6, <2>7, <2>8 DEF ChannelInv, Announcements
<1>4. CASE SaveLink(k, t)
  <2>1. /\ link'.chan = jobs[<<k, t>>].chan /\ UNCHANGED <<chans, feed>>
        /\ jobs' = [jobs EXCEPT ![<<k, t>>].at = "post"]
    BY <1>4 DEF SaveLink, SavedLink
  <2>2. Reached(jobs[<<k, t>>].chan)
    BY <1>4, <1>t DEF SaveLink, ChannelInv
  <2>3. \A j \in Kinds \X Threads :
          \/ j # <<k, t>> /\ jobs'[j] = jobs[j]
          \/ jobs'[j].at = "post" /\ jobs'[j].chan = jobs[<<k, t>>].chan
    BY <2>1, <1>t DEF Job
  <2> QED
    BY <2>1, <2>2, <2>3 DEF ChannelInv, Made, Reached, Announcements
<1>5. CASE PostToChannel(k, t)
  <2>1. /\ UNCHANGED <<link, chans>>
        /\ jobs' = [jobs EXCEPT ![<<k, t>>].at = "over"]
        /\ feed' = feed \cup ({jobs[<<k, t>>].chan} \X Posts(k, t) \X {t})
    BY <1>5 DEF PostToChannel
  <2>2. Reached(jobs[<<k, t>>].chan)
    BY <1>5, <1>t DEF PostToChannel, ChannelInv
  <2>3. \A j \in Kinds \X Threads : jobs'[j] = jobs[j] \/ jobs'[j].at = "over"
    BY <2>1, <1>t DEF Job
  <2>4. \A post \in Announcements' : post \in Announcements \/ post[1] = jobs[<<k, t>>].chan
    BY <2>1 DEF Announcements
  <2> QED
    BY <2>1, <2>2, <2>3, <2>4 DEF ChannelInv, Made, Reached, Announcements
<1>6. CASE JobEnds(k, t)
  <2>1. UNCHANGED <<link, chans, feed>> /\ jobs' = [jobs EXCEPT ![<<k, t>>].at = "over"]
    BY <1>6 DEF JobEnds
  <2>2. \A j \in Kinds \X Threads : jobs'[j] = jobs[j] \/ jobs'[j].at = "over"
    BY <2>1, <1>t DEF Job
  <2> QED
    BY <2>1, <2>2, ChannelAside
<1> QED
  BY <1>1, <1>2, <1>3, <1>4, <1>5, <1>6 DEF JobStep

\* Every step keeps the types of the channel's part and the invariant.
LEMMA NextChannel ==
  ChannelTypeOK /\ ChannelInv /\ [PairNext]_pairVars => ChannelTypeOK' /\ ChannelInv'
<1> SUFFICES ASSUME ChannelTypeOK, ChannelInv, [PairNext]_pairVars
             PROVE  ChannelTypeOK' /\ ChannelInv'
  OBVIOUS
<1>t. jobs \in [Kinds \X Threads -> Job]
  BY DEF ChannelTypeOK
<1>1. ASSUME UNCHANGED <<link, chans, feed>>, hand' \in ThreadSets,
             relays' \subseteq Threads \X Nat,
             jobs' \in [Kinds \X Threads -> Job],
             \A j \in Kinds \X Threads : jobs'[j] = jobs[j] \/ jobs'[j].at = "look"
      PROVE  ChannelTypeOK' /\ ChannelInv'
  <2>1. ChannelInv'
    BY <1>1, ChannelAside
  <2> QED
    BY <1>1, <2>1 DEF ChannelTypeOK
<1>2. ASSUME NEW t \in Threads, NEW k \in Kinds, hand' \in ThreadSets,
             Spawn(k, t), UNCHANGED <<link, chans, feed, relays>>
      PROVE  ChannelTypeOK' /\ ChannelInv'
  <2>1. jobs' = [jobs EXCEPT ![<<k, t>>].at = "look"] /\ <<k, t>> \in Kinds \X Threads
    BY <1>2 DEF Spawn
  <2>2. jobs' \in [Kinds \X Threads -> Job]
    BY <2>1, <1>t DEF Job
  <2>3. \A j \in Kinds \X Threads : jobs'[j] = jobs[j] \/ jobs'[j].at = "look"
    BY <2>1, <1>t DEF Job
  <2> QED
    BY <1>1, <1>2, <2>2, <2>3 DEF ChannelTypeOK
<1>3. ASSUME NEW t \in Threads,
             SendDraft(t) \/ AcceptStarts(t) \/ AcceptCommits(t) \/ AcceptRollsBack(t)
               \/ Decline(t) \/ PostFromWeb(t)
      PROVE  ChannelTypeOK' /\ ChannelInv'
  <2>1. UNCHANGED <<link, chans, feed>> /\ relays' \subseteq Threads \X Nat
    BY <1>3 DEF SendDraft, AcceptStarts, AcceptCommits, AcceptRollsBack, Decline,
      PostFromWeb, channelVars, ChannelTypeOK
  <2>2. hand' \in ThreadSets
    BY <1>3 DEF SendDraft, AcceptStarts, AcceptCommits, AcceptRollsBack, Decline,
      PostFromWeb, ChannelTypeOK, ThreadSets
  <2>3. CASE SendDraft(t) \/ AcceptStarts(t)
    BY <2>1, <2>2, <2>3, <1>2 DEF SendDraft, AcceptStarts, Kinds
  <2>4. CASE ~(SendDraft(t) \/ AcceptStarts(t))
    <3>1. jobs' = jobs
      BY <1>3, <2>4 DEF AcceptCommits, AcceptRollsBack, Decline, PostFromWeb, channelVars
    <3> QED
      BY <1>1, <1>t, <2>1, <2>2, <3>1
  <2> QED
    BY <2>3, <2>4
<1>4. ASSUME NEW k \in Kinds, NEW t \in Threads, JobStep(k, t) \/ JobEnds(k, t)
      PROVE  ChannelTypeOK' /\ ChannelInv'
  BY <1>4, JobTypes, JobKeepsChannel
<1>5. CASE UNCHANGED <<hand, channelVars>>
  BY <1>1, <1>t, <1>5 DEF channelVars, ChannelTypeOK
<1>6. ASSUME NEW c \in DOMAIN chans, Say(c) PROVE UNCHANGED <<hand, channelVars>>
  BY <1>6 DEF Say
<1>7. ASSUME NEW m \in Messages,
             \/ DeliverMessage(m) \/ HandleFails(m) \/ CheckMark(m) \/ CaptureReacted(m)
             \/ \E p \in Pair, x \in Texts : HandleMessage(m, p, x)
      PROVE  UNCHANGED <<hand, channelVars>>
  BY <1>7 DEF DeliverMessage, HandleFails, CheckMark, CaptureReacted, HandleMessage
<1>8. UNCHANGED pairVars => UNCHANGED <<hand, channelVars>>
  BY DEF pairVars
<1>9. ASSUME NEW r \in relays, RelayLooks(r) \/ RelayPosts(r) \/ RelayFails(r)
      PROVE  ChannelTypeOK' /\ ChannelInv'
  <2>1. /\ r \in Threads \X Nat /\ link.chan \in Nat
        /\ r[1] \in Threads /\ r[2] \in Nat
    BY DEF ChannelTypeOK, Link
  <2>2. UNCHANGED <<hand, link, chans, jobs>> /\ relays' \subseteq Threads \X Nat
    <3>1. <<r[1], link.chan>> \in Threads \X Nat /\ relays \subseteq Threads \X Nat
      BY <2>1 DEF ChannelTypeOK
    <3>2. relays' \subseteq relays \cup {<<r[1], link.chan>>}
      BY <1>9 DEF RelayLooks, RelayPosts, RelayFails
    <3>3. UNCHANGED <<hand, link, chans, jobs>>
      BY <1>9 DEF RelayLooks, RelayPosts, RelayFails
    <3> QED
      BY <3>1, <3>2, <3>3
  <2>3. CASE UNCHANGED feed
    BY <1>1, <1>t, <2>2, <2>3 DEF ChannelTypeOK
  <2>4. CASE RelayPosts(r)
    <3>1. feed' = feed \cup {<<r[2], "chat", r[1]>>}
      BY <2>4 DEF RelayPosts
    <3>2. Announcements' = Announcements
      BY <3>1 DEF Announcements
    <3>3. ChannelTypeOK'
      BY <2>1, <2>2, <3>1 DEF ChannelTypeOK
    <3> QED
      BY <2>2, <3>2, <3>3 DEF ChannelInv, Made, Reached
  <2> QED
    BY <1>9, <2>3, <2>4 DEF RelayLooks, RelayFails
<1> QED
  BY <1>3, <1>4, <1>5, <1>6, <1>7, <1>8, <1>9 DEF PairNext

\* The invariant holds in every run.
LEMMA SpecChannel == PairSpec => [](ChannelTypeOK /\ ChannelInv)
  BY InitChannel, NextChannel, PTL DEF PairSpec

\* At most one channel is made for the pair, however many hand-offs it has and
\* however their background threads interleave and fail.
THEOREM PairHasOneChannel == PairSpec => []OneChannel
<1>1. ChannelTypeOK /\ ChannelInv => OneChannel
  <2> SUFFICES ASSUME ChannelTypeOK, ChannelInv PROVE OneChannel
    OBVIOUS
  <2> DEFINE Own == {c \in DOMAIN chans : chans[c].name # Elsewhere}
  <2>1. \A c, d \in Own : c = d
    BY DEF ChannelInv, Made
  <2>2. CASE Own = {}
    BY <2>2, FS_EmptySet DEF OneChannel
  <2>3. CASE Own # {}
    <3>1. PICK c \in Own : Own = {c}
      BY <2>1, <2>3
    <3> QED
      BY <3>1, FS_Singleton DEF OneChannel
  <2> QED
    BY <2>2, <2>3
<1> QED
  BY <1>1, SpecChannel, PTL

-----------------------------------------------------------------------------
(* Relays *)

\* A channel of any workspace, which both have joined.
Joined(c) == c \in DOMAIN chans /\ chans[c].joined

\* The row, the relays that looked it up and all posts lead to joined channels, and
\* a thread comes to its posts over a row of the configured workspace.
RelayInv ==
  /\ link # NoLink => Joined(link.chan)
  /\ \A r \in relays : r[2] # 0 => Joined(r[2])
  /\ \A post \in feed : Joined(post[1])
  /\ Announcements # {} \/ (\E j \in Kinds \X Threads : jobs[j].at = "post") => link.ours

\* A step that leaves row and posts alone keeps it when channels only get members.
LEMMA RelayAside ==
  ASSUME RelayInv, UNCHANGED <<link, feed, relays>>,
         \A c : Joined(c) => Joined(c)',
         \A j \in Kinds \X Threads : jobs'[j].at = "post" => jobs[j].at = "post"
  PROVE  RelayInv'
  BY DEF RelayInv, Announcements

\* What a background thread does keeps it.
LEMMA JobKeepsRelay ==
  ASSUME ChannelTypeOK, ChannelInv, RelayInv, NEW k \in Kinds, NEW t \in Threads,
         JobStep(k, t) \/ JobEnds(k, t)
  PROVE  RelayInv'
<1>t. /\ <<k, t>> \in Kinds \X Threads
      /\ jobs \in [Kinds \X Threads -> Job] /\ jobs[<<k, t>>] \in Job
      /\ link \in Link /\ chans \in Seq(Channel)
  BY DEF ChannelTypeOK, Channel
<1>1. CASE LookUp(k, t)
  <2>1. CASE Usable
    <3>1. /\ link' = [link EXCEPT !.thread = t] /\ UNCHANGED <<chans, feed, relays>>
      BY <1>1, <2>1 DEF LookUp
    <3>2. link'.ours /\ link'.chan = link.chan /\ link # NoLink
      BY <2>1, <3>1, <1>t DEF Link, Usable
    <3> QED
      BY <3>1, <3>2 DEF RelayInv, Joined, Announcements
  <2>2. CASE ~Usable
    <3>1. /\ UNCHANGED <<link, chans, feed, relays>>
          /\ jobs' = [jobs EXCEPT ![<<k, t>>] =
                       [at |-> "make", chan |-> 0, had |-> link # NoLink]]
      BY <1>1, <2>2 DEF LookUp
    <3>2. \A j \in Kinds \X Threads : jobs'[j] = jobs[j] \/ jobs'[j].at = "make"
      BY <3>1, <1>t
    <3> QED
      BY <3>1, <3>2, RelayAside DEF Joined
  <2> QED
    BY <2>1, <2>2
<1>2. CASE MakeChannel(k, t)
  <2>1. CASE UNCHANGED chans /\ jobs' = [jobs EXCEPT ![<<k, t>>].at = "over"]
    <3>1. \A j \in Kinds \X Threads : jobs'[j] = jobs[j] \/ jobs'[j].at = "over"
      BY <2>1, <1>t DEF Job
    <3> QED
      BY <1>2, <2>1, <3>1, RelayAside DEF MakeChannel, Joined
  <2>2. CASE /\ chans' = Append(chans, [name |-> ChannelName(t), joined |-> FALSE])
             /\ jobs' = [jobs EXCEPT ![<<k, t>>].at = "invite", ![<<k, t>>].chan = Len(chans) + 1]
    <3> DEFINE new == [name |-> ChannelName(t), joined |-> FALSE]
    <3>1. new \in Channel
      BY DEF ChannelName, Channel
    <3>2. \A c : Joined(c) => Joined(c)'
      <4>1. chans' = Append(chans, new)
        BY <2>2
      <4> HIDE DEF new
      <4>2. /\ DOMAIN chans = 1..Len(chans) /\ Len(chans) \in Nat
            /\ DOMAIN chans' = 1..(Len(chans) + 1)
            /\ \A c \in 1..Len(chans) : chans'[c] = chans[c]
        BY <3>1, <4>1, <1>t, AppendProperties, LenProperties
      <4> QED
        BY <4>2 DEF Joined
    <3>3. \A j \in Kinds \X Threads : jobs'[j] = jobs[j] \/ jobs'[j].at = "invite"
      BY <2>2, <1>t DEF Job
    <3> QED
      BY <1>2, <3>2, <3>3, RelayAside DEF MakeChannel
  <2> QED
    BY <1>2, <2>1, <2>2 DEF MakeChannel
<1>3. CASE Invite(k, t)
  <2> DEFINE i == jobs[<<k, t>>].chan
  <2>1. /\ chans' = [chans EXCEPT ![i].joined = TRUE] /\ UNCHANGED <<link, feed, relays>>
        /\ jobs' = [jobs EXCEPT ![<<k, t>>].at = "save"]
    BY <1>3 DEF Invite
  <2>2. i \in DOMAIN chans /\ chans[i] \in Channel
    <3>1. i \in 1..Len(chans)
      BY <1>3, <1>t, LenProperties DEF Invite, ChannelInv, Made
    <3> QED
      BY <3>1, <1>t, ElementOfSeq, LenProperties
  <2>3. \A c : Joined(c) => Joined(c)'
    <3> HIDE DEF i
    <3> QED
      BY <2>1, <2>2, <1>t DEF Joined, Channel
  <2>4. \A j \in Kinds \X Threads : jobs'[j] = jobs[j] \/ jobs'[j].at = "save"
    BY <2>1, <1>t DEF Job
  <2> QED
    BY <2>1, <2>3, <2>4, RelayAside
<1>4. CASE SaveLink(k, t)
  <2>1. /\ link'.chan = jobs[<<k, t>>].chan /\ link'.ours /\ UNCHANGED <<chans, feed, relays>>
    BY <1>4 DEF SaveLink, SavedLink
  <2>2. Joined(jobs[<<k, t>>].chan)
    BY <1>4, <1>t DEF SaveLink, ChannelInv, Reached, Made, Joined
  <2> QED
    BY <2>1, <2>2 DEF RelayInv, Joined
<1>5. CASE PostToChannel(k, t)
  <2>1. /\ UNCHANGED <<link, chans, relays>> /\ jobs[<<k, t>>].at = "post"
        /\ feed' = feed \cup ({jobs[<<k, t>>].chan} \X Posts(k, t) \X {t})
    BY <1>5 DEF PostToChannel
  <2>2. Joined(jobs[<<k, t>>].chan) /\ link.ours
    BY <2>1, <1>t DEF ChannelInv, Reached, Made, Joined, RelayInv
  <2>3. \A post \in feed' : post \in feed \/ post[1] = jobs[<<k, t>>].chan
    BY <2>1
  <2> QED
    BY <2>1, <2>2, <2>3 DEF RelayInv, Joined
<1>6. CASE JobEnds(k, t)
  <2>1. UNCHANGED <<link, chans, feed, relays>> /\ jobs' = [jobs EXCEPT ![<<k, t>>].at = "over"]
    BY <1>6 DEF JobEnds
  <2>2. \A j \in Kinds \X Threads : jobs'[j] = jobs[j] \/ jobs'[j].at = "over"
    BY <2>1, <1>t DEF Job
  <2> QED
    BY <2>1, <2>2, RelayAside DEF Joined
<1> QED
  BY <1>1, <1>2, <1>3, <1>4, <1>5, <1>6 DEF JobStep

\* Every step keeps it.
LEMMA NextRelay ==
  ChannelTypeOK /\ ChannelInv /\ RelayInv /\ [PairNext]_pairVars => RelayInv'
<1> SUFFICES ASSUME ChannelTypeOK, ChannelInv, RelayInv, [PairNext]_pairVars PROVE RelayInv'
  OBVIOUS
<1>t. jobs \in [Kinds \X Threads -> Job]
  BY DEF ChannelTypeOK
<1>1. ASSUME NEW k \in Kinds, NEW t \in Threads, Spawn(k, t), UNCHANGED <<link, chans, feed, relays>>
      PROVE  RelayInv'
  <2>1. jobs' = [jobs EXCEPT ![<<k, t>>].at = "look"] /\ <<k, t>> \in Kinds \X Threads
    BY <1>1 DEF Spawn
  <2>2. \A j \in Kinds \X Threads : jobs'[j] = jobs[j] \/ jobs'[j].at = "look"
    BY <2>1, <1>t DEF Job
  <2> QED
    BY <1>1, <2>2, RelayAside DEF Joined
<1>2. CASE UNCHANGED <<link, chans, jobs, feed, relays>>
  BY <1>2, RelayAside DEF Joined
<1>3. ASSUME NEW t \in Threads,
             \/ SendDraft(t) \/ AcceptStarts(t) \/ AcceptCommits(t) \/ AcceptRollsBack(t)
             \/ Decline(t)
      PROVE  RelayInv'
  <2>1. CASE SendDraft(t) \/ AcceptStarts(t)
    BY <2>1, <1>1 DEF SendDraft, AcceptStarts, Kinds
  <2>2. CASE AcceptCommits(t) \/ AcceptRollsBack(t) \/ Decline(t)
    BY <2>2, <1>2 DEF AcceptCommits, AcceptRollsBack, Decline, channelVars
  <2> QED
    BY <1>3, <2>1, <2>2
<1>4. ASSUME NEW t \in Threads, PostFromWeb(t) PROVE RelayInv'
  <2>1. UNCHANGED <<link, chans, jobs, feed>> /\ relays' = relays \cup {<<t, 0>>}
    BY <1>4 DEF PostFromWeb
  <2> QED
    BY <2>1 DEF RelayInv, Joined, Announcements
<1>5. ASSUME NEW r \in relays, RelayLooks(r) PROVE RelayInv'
  <2>1. /\ UNCHANGED <<link, chans, jobs, feed>>
        /\ relays' \subseteq relays \cup {<<r[1], link.chan>>}
        /\ link = NoLink => relays' \subseteq relays
    BY <1>5 DEF RelayLooks
  <2> QED
    BY <2>1 DEF RelayInv, Joined, Announcements
<1>6. ASSUME NEW r \in relays, RelayPosts(r) PROVE RelayInv'
  <2>1. /\ UNCHANGED <<link, chans, jobs>> /\ relays' = relays \ {r} /\ r[2] # 0
        /\ feed' = feed \cup {<<r[2], "chat", r[1]>>}
    BY <1>6 DEF RelayPosts
  <2>2. Announcements' = Announcements
    BY <2>1 DEF Announcements
  <2>3. Joined(r[2])
    BY <2>1 DEF RelayInv
  <2> QED
    BY <2>1, <2>2, <2>3 DEF RelayInv, Joined
<1>7. ASSUME NEW r \in relays, RelayFails(r) PROVE RelayInv'
  <2>1. UNCHANGED <<link, chans, jobs, feed>> /\ relays' = relays \ {r}
    BY <1>7 DEF RelayFails
  <2> QED
    BY <2>1 DEF RelayInv, Joined, Announcements
<1>8. ASSUME NEW k \in Kinds, NEW t \in Threads, JobStep(k, t) \/ JobEnds(k, t) PROVE RelayInv'
  BY <1>8, JobKeepsRelay
<1>9. ASSUME NEW c \in DOMAIN chans, Say(c) PROVE UNCHANGED <<link, chans, jobs, feed, relays>>
  BY <1>9 DEF Say, channelVars
<1>10. ASSUME NEW m \in Messages,
              \/ DeliverMessage(m) \/ HandleFails(m) \/ CheckMark(m) \/ CaptureReacted(m)
              \/ \E p \in Pair, x \in Texts : HandleMessage(m, p, x)
       PROVE  UNCHANGED <<link, chans, jobs, feed, relays>>
  BY <1>10 DEF DeliverMessage, HandleFails, CheckMark, CaptureReacted, HandleMessage, channelVars
<1>11. UNCHANGED pairVars => UNCHANGED <<link, chans, jobs, feed, relays>>
  BY DEF pairVars, channelVars
<1> QED
  BY <1>2, <1>3, <1>4, <1>5, <1>6, <1>7, <1>8, <1>9, <1>10, <1>11 DEF PairNext

\* Every post, a relayed one too, is in a channel both joined; what is posted about
\* a hand-off is in the configured workspace, and from then on the row leads there.
THEOREM PairReadsPosts == PairSpec => []PostsReachBoth
<1>1. PairInit => RelayInv
  <2> SUFFICES ASSUME PairInit PROVE RelayInv
    OBVIOUS
  <2>1. link # NoLink => Joined(link.chan)
    BY DEF PairInit, Joined
  <2>2. \A j \in Kinds \X Threads : jobs[j].at = "off"
    BY DEF PairInit, Off
  <2> QED
    BY <2>1, <2>2 DEF PairInit, RelayInv, Announcements
<1>2. PairSpec => [](ChannelTypeOK /\ ChannelInv /\ RelayInv)
  BY <1>1, SpecChannel, NextRelay, PTL DEF PairSpec
<1>3. PairName # Elsewhere
  BY DEF PairName, Elsewhere
<1>4. ChannelTypeOK /\ ChannelInv /\ RelayInv => PostsReachBoth
  BY <1>3 DEF ChannelInv, RelayInv, Joined, Made, Reached, PostsReachBoth
<1> QED
  BY <1>2, <1>4, PTL

\* One channel in the workspace, and every post where both read it, for any number
\* of hand-offs, relays and failing threads.
THEOREM PairSharesPlace == PairSpec => []PairMeets
  BY PairHasOneChannel, PairReadsPosts, PTL DEF PairMeets

-----------------------------------------------------------------------------
(* Captures belong to the message *)

\* An anchor names a thread its message is stored in.
AnchorInv ==
  \A m \in Messages : anchors[m] # NoThread => anchors[m] \in ToSet(stored[m])

\* Storing a message in a thread loses none it is stored in.
LEMMA StoredGrows ==
  ASSUME NEW s \in Seq(Threads), NEW t \in Threads
  PROVE  /\ Append(s, t) \in Seq(Threads)
         /\ ToSet(s) \subseteq ToSet(Append(s, t)) /\ t \in ToSet(Append(s, t))
<1>1. /\ DOMAIN s = 1..Len(s) /\ Len(s) \in Nat /\ Append(s, t) \in Seq(Threads)
      /\ DOMAIN Append(s, t) = 1..(Len(s) + 1)
      /\ \A i \in 1..Len(s) : Append(s, t)[i] = s[i]
      /\ Append(s, t)[Len(s) + 1] = t
  BY AppendProperties, LenProperties
<1>2. Len(s) + 1 \in 1..(Len(s) + 1)
  BY <1>1
<1> QED
  BY <1>1, <1>2 DEF ToSet

CaptureStep ==
  \A mark \in marks' \ marks :
    anchors[mark[1]] # NoThread => mark[2] \in ToSet(stored'[mark[1]])

MessageInv == MessageTypeOK /\ AnchorInv

\* Messages, anchors and captures stay typed and consistent, and what a step
\* captures belongs to the message.
LEMMA NextMessage ==
  ChannelTypeOK /\ MessageInv /\ [PairNext]_pairVars => MessageInv' /\ CaptureStep
<1> SUFFICES ASSUME ChannelTypeOK, MessageInv, [PairNext]_pairVars PROVE MessageInv' /\ CaptureStep
  OBVIOUS
<1>t. /\ stored \in [Messages -> Seq(Threads)]
      /\ anchors \in [Messages -> Threads \cup {NoThread}]
      /\ link.thread \in Threads \cup {NoThread} /\ link.chan \in Nat
      /\ log \in Seq([bot : BOOLEAN, chan : Nat])
      /\ Len(log) \in Nat /\ MaxMessages \in Nat
  BY LenProperties, ChannelAssumption DEF ChannelTypeOK, MessageInv, MessageTypeOK, Link
<1>1. CASE UNCHANGED <<log, stored, anchors, marks>> /\ busy' \subseteq Messages
             /\ reacting' \subseteq Messages
  BY <1>1 DEF MessageInv, MessageTypeOK, AnchorInv, CaptureStep
<1>2. ASSUME NEW bot \in BOOLEAN, NEW c \in Nat, Write(bot, c)
      PROVE  log' \in Seq([bot : BOOLEAN, chan : Nat]) /\ Len(log') <= MaxMessages
               /\ Len(log) + 1 \in Messages
  <2> DEFINE e == [bot |-> bot, chan |-> c]
  <2>1. e \in [bot : BOOLEAN, chan : Nat]
    OBVIOUS
  <2>2. log' = Append(log, e) /\ Len(log) < MaxMessages
    BY <1>2 DEF Write
  <2> HIDE DEF e
  <2> QED
    BY <2>1, <2>2, <1>t, AppendProperties DEF Messages
<1>3. ASSUME NEW c \in DOMAIN chans, Say(c) PROVE MessageInv' /\ CaptureStep
  <2>1. c \in Nat
    BY LenProperties DEF ChannelTypeOK
  <2>2. log' \in Seq([bot : BOOLEAN, chan : Nat]) /\ Len(log') <= MaxMessages
    BY <1>2, <1>3, <2>1 DEF Say
  <2> QED
    BY <1>3, <2>2 DEF Say, MessageInv, MessageTypeOK, AnchorInv, CaptureStep
<1>4. ASSUME NEW r \in relays, RelayPosts(r) PROVE MessageInv' /\ CaptureStep
  <2>0. r[1] \in Threads /\ r[2] \in Nat
    BY DEF ChannelTypeOK
  <2>1. /\ log' \in Seq([bot : BOOLEAN, chan : Nat]) /\ Len(log') <= MaxMessages
        /\ Len(log) + 1 \in Messages
    BY <1>2, <1>4, <2>0 DEF RelayPosts
  <2>2. stored' = [stored EXCEPT ![Len(log) + 1] = Append(@, r[1])]
          /\ UNCHANGED <<busy, anchors, reacting, marks>>
    BY <1>4 DEF RelayPosts
  <2>3. /\ stored' \in [Messages -> Seq(Threads)]
        /\ \A m \in Messages : ToSet(stored[m]) \subseteq ToSet(stored'[m])
    BY <2>0, <2>1, <2>2, <1>t, StoredGrows
  <2> QED
    BY <2>1, <2>2, <2>3 DEF MessageInv, MessageTypeOK, AnchorInv, CaptureStep
<1>5. ASSUME NEW m \in Messages, NEW p \in Pair, NEW x \in Texts, HandleMessage(m, p, x)
      PROVE  MessageInv' /\ CaptureStep
  <2>1. busy' \subseteq Messages /\ UNCHANGED <<log, reacting>>
    BY <1>5 DEF HandleMessage, MessageInv, MessageTypeOK
  <2>2. CASE Mirrored(m)
    <3>1. link.thread \in Threads
      BY <2>2, <1>t DEF Mirrored, Conversing
    <3>2. /\ stored' = [stored EXCEPT ![m] = Append(@, link.thread)]
          /\ anchors' = [anchors EXCEPT ![m] = link.thread]
          /\ marks' \subseteq marks \cup {<<m, link.thread>>}
      BY <1>5, <2>2 DEF HandleMessage
    <3>3. /\ stored' \in [Messages -> Seq(Threads)]
          /\ \A n \in Messages : ToSet(stored[n]) \subseteq ToSet(stored'[n])
          /\ link.thread \in ToSet(stored'[m])
      BY <3>1, <3>2, <1>t, StoredGrows
    <3>4. anchors' \in [Messages -> Threads \cup {NoThread}]
      BY <3>1, <3>2, <1>t
    <3>5. AnchorInv'
      BY <3>2, <3>3, <1>t DEF MessageInv, AnchorInv
    <3>6. CaptureStep
      BY <3>2, <3>3 DEF CaptureStep
    <3> QED
      BY <2>1, <3>1, <3>2, <3>3, <3>4, <3>5, <3>6 DEF MessageInv, MessageTypeOK
  <2>3. CASE ~Mirrored(m)
    BY <1>1, <1>5, <2>1, <2>3 DEF HandleMessage, MessageInv, MessageTypeOK
  <2> QED
    BY <2>2, <2>3
<1>6. ASSUME NEW m \in Messages, CaptureReacted(m) PROVE MessageInv' /\ CaptureStep
  <2>1. reacting' \subseteq Messages /\ UNCHANGED <<log, busy, stored, anchors>>
    BY <1>6 DEF CaptureReacted, MessageInv, MessageTypeOK
  <2>2. \/ marks' = marks
        \/ /\ marks' = marks \cup {<<m, ReactedThread(m)>>}
           /\ ReactedThread(m) # NoThread
    BY <1>6 DEF CaptureReacted, Conversing
  <2>3. ReactedThread(m) \in Threads \cup {NoThread}
    BY <1>t DEF ReactedThread
  <2>4. marks' \subseteq Messages \X Threads
    BY <2>2, <2>3 DEF MessageInv, MessageTypeOK
  <2>5. anchors[m] # NoThread => ReactedThread(m) \in ToSet(stored'[m])
    BY <2>1 DEF MessageInv, AnchorInv, ReactedThread
  <2>6. CaptureStep
    BY <2>2, <2>5 DEF CaptureStep
  <2> QED
    BY <2>1, <2>4, <2>6 DEF MessageInv, MessageTypeOK, AnchorInv
<1>7. ASSUME NEW m \in Messages, DeliverMessage(m) \/ HandleFails(m) \/ CheckMark(m)
      PROVE  MessageInv' /\ CaptureStep
  BY <1>1, <1>7 DEF DeliverMessage, HandleFails, CheckMark, MessageInv, MessageTypeOK
<1>8. CASE UNCHANGED eventVars
  BY <1>1, <1>8 DEF eventVars, MessageInv, MessageTypeOK
<1>9. ASSUME NEW t \in Threads,
             SendDraft(t) \/ AcceptStarts(t) \/ AcceptCommits(t) \/ AcceptRollsBack(t)
               \/ Decline(t) \/ PostFromWeb(t)
      PROVE  UNCHANGED eventVars
  BY <1>9 DEF SendDraft, AcceptStarts, AcceptCommits, AcceptRollsBack, Decline, PostFromWeb
<1>10. ASSUME NEW k \in Kinds, NEW t \in Threads, JobStep(k, t) \/ JobEnds(k, t)
       PROVE  UNCHANGED eventVars
  BY <1>10 DEF JobStep, JobEnds, LookUp, MakeChannel, Invite, SaveLink, PostToChannel
<1>11. UNCHANGED pairVars => UNCHANGED eventVars
  BY DEF pairVars
<1>12. ASSUME NEW r \in relays, RelayLooks(r) \/ RelayFails(r) PROVE UNCHANGED eventVars
  BY <1>12 DEF RelayLooks, RelayFails
<1> QED
  BY <1>3, <1>4, <1>5, <1>6, <1>7, <1>8, <1>9, <1>10, <1>11, <1>12 DEF PairNext

\* A capture triggered by a mirrored message or by a reaction to one is of a
\* thread the message is stored in, for any number of threads and messages.
THEOREM CapturesKeepThread == PairSpec => CaptureOnItsThread
<1>1. PairInit => MessageInv
  BY ChannelAssumption DEF PairInit, MessageInv, MessageTypeOK, AnchorInv
<1>2. PairSpec => [](ChannelTypeOK /\ MessageInv)
  BY <1>1, SpecChannel, NextMessage, PTL DEF PairSpec
<1>3. ChannelTypeOK /\ MessageInv /\ [PairNext]_pairVars => [CaptureStep]_pairVars
  BY NextMessage
<1>4. PairSpec => [][CaptureStep]_pairVars
  BY <1>2, <1>3, PTL DEF PairSpec
<1> QED
  BY <1>4 DEF CaptureOnItsThread, CaptureStep

-----------------------------------------------------------------------------
(* A race to create the channel leaves one to use *)

\* The thread made the channel, and has not saved it yet.
Making(j) == jobs[j].at \in {"invite", "save"}

\* While nothing failed: where a channel was made, or a thread got as far as its
\* posts, the row names it, or the thread that made it will save it.
RaceInv ==
  (\E c \in DOMAIN chans : Made(c)) \/ (\E j \in Kinds \X Threads : jobs[j].at \in {"post", "over"})
    => link.ours \/ \E j \in Kinds \X Threads : Making(j)

\* Steps that leave the channel alone and take nobody to its posts.
LEMMA RaceAside ==
  ASSUME failures = 0 => RaceInv, failures' = 0 => failures = 0,
         UNCHANGED <<link, chans>>,
         \A j \in Kinds \X Threads :
           jobs'[j] = jobs[j] \/ (jobs'[j].at = "look" /\ jobs[j].at = "off")
  PROVE  failures' = 0 => RaceInv'
<1>1. \A c : Made(c)' <=> Made(c)
  BY DEF Made
<1> QED
  BY <1>1 DEF RaceInv, Making

\* Every step of a background thread that does not fail keeps it.
LEMMA JobKeepsRace ==
  ASSUME ChannelTypeOK, ChannelInv, RaceInv,
         NEW k \in Kinds, NEW t \in Threads, JobStep(k, t)
  PROVE  RaceInv'
<1>t. /\ <<k, t>> \in Kinds \X Threads
      /\ jobs \in [Kinds \X Threads -> Job] /\ jobs[<<k, t>>] \in Job
      /\ link \in Link /\ chans \in Seq(Channel)
  BY DEF ChannelTypeOK, Channel
<1>1. CASE LookUp(k, t)
  <2>1. /\ UNCHANGED chans /\ (Usable \/ UNCHANGED link) /\ link'.ours = link.ours
        /\ \A j \in Kinds \X Threads : j # <<k, t>> => jobs'[j] = jobs[j]
    BY <1>1, <1>t DEF LookUp, Link
  <2>2. CASE Usable
    BY <2>1, <2>2 DEF Usable, RaceInv
  <2>3. CASE ~Usable
    <3>1. jobs[<<k, t>>].at = "look" /\ jobs'[<<k, t>>].at = "make"
      BY <1>1, <1>t, <2>3 DEF LookUp
    <3>2. \A c : Made(c)' <=> Made(c)
      BY <2>1 DEF Made
    <3> QED
      BY <2>1, <2>3, <3>1, <3>2 DEF RaceInv, Making
  <2> QED
    BY <2>2, <2>3
<1>2. CASE MakeChannel(k, t)
  <2>1. CASE \E c \in DOMAIN chans : chans[c].name = ChannelName(t)
    <3>1. \E c \in DOMAIN chans : Made(c)
      BY <2>1 DEF ChannelName, Made
    <3>2. /\ UNCHANGED <<link, chans>> /\ jobs[<<k, t>>].at = "make"
          /\ \A j \in Kinds \X Threads : j # <<k, t>> => jobs'[j] = jobs[j]
      BY <1>2, <1>t, <2>1 DEF MakeChannel
    <3> QED
      BY <3>1, <3>2 DEF RaceInv, Making
  <2>2. CASE ~\E c \in DOMAIN chans : chans[c].name = ChannelName(t)
    <3>1. jobs'[<<k, t>>].at = "invite"
      BY <1>2, <1>t, <2>2 DEF MakeChannel, Job
    <3> QED
      BY <1>t, <3>1 DEF RaceInv, Making
  <2> QED
    BY <2>1, <2>2
<1>3. CASE Invite(k, t)
  <2>1. jobs'[<<k, t>>].at = "save"
    BY <1>3, <1>t DEF Invite, Job
  <2> QED
    BY <1>t, <2>1 DEF RaceInv, Making
<1>4. CASE SaveLink(k, t)
  <2>1. link'.ours
    BY <1>4 DEF SaveLink, SavedLink
  <2> QED
    BY <2>1 DEF RaceInv
<1>5. CASE PostToChannel(k, t)
  <2>1. /\ UNCHANGED <<link, chans>> /\ jobs[<<k, t>>].at = "post"
        /\ \A j \in Kinds \X Threads : j # <<k, t>> => jobs'[j] = jobs[j]
    BY <1>5, <1>t DEF PostToChannel
  <2> QED
    BY <1>t, <2>1 DEF RaceInv, Making
<1> QED
  BY <1>1, <1>2, <1>3, <1>4, <1>5 DEF JobStep

\* Every step keeps it, as long as nothing fails; and the failures are counted.
LEMMA NextRace ==
  ASSUME ChannelTypeOK, ChannelInv, failures \in Nat, failures = 0 => RaceInv, [PairNext]_pairVars
  PROVE  failures' \in Nat /\ (failures' = 0 => RaceInv')
<1>t. jobs \in [Kinds \X Threads -> Job]
  BY DEF ChannelTypeOK
<1>1. ASSUME NEW k \in Kinds, NEW t \in Threads, Spawn(k, t), jobs[<<k, t>>] = Off,
             UNCHANGED <<link, chans, failures>>
      PROVE  failures' \in Nat /\ (failures' = 0 => RaceInv')
  <2>1. jobs' = [jobs EXCEPT ![<<k, t>>].at = "look"] /\ <<k, t>> \in Kinds \X Threads
    BY <1>1 DEF Spawn
  <2>2. jobs'[<<k, t>>].at = "look" /\ jobs[<<k, t>>].at = "off"
    BY <1>1, <1>t, <2>1 DEF Off, Job
  <2>3. \A j \in Kinds \X Threads : j # <<k, t>> => jobs'[j] = jobs[j]
    BY <1>t, <2>1
  <2> QED
    BY <1>1, <2>2, <2>3, RaceAside
<1>2. CASE UNCHANGED <<link, chans, jobs, failures>>
  <2>1. \A j \in Kinds \X Threads : jobs'[j] = jobs[j]
    BY <1>2
  <2>2. UNCHANGED <<link, chans>> /\ (failures' = 0 => failures = 0) /\ failures' \in Nat
    BY <1>2
  <2> QED
    BY <2>1, <2>2, RaceAside
<1>3. ASSUME NEW t \in Threads,
             SendDraft(t) \/ AcceptStarts(t) \/ AcceptCommits(t) \/ AcceptRollsBack(t)
               \/ Decline(t) \/ PostFromWeb(t)
      PROVE  failures' \in Nat /\ (failures' = 0 => RaceInv')
  <2>1. CASE SendDraft(t) \/ AcceptStarts(t)
    BY <2>1, <1>1 DEF SendDraft, AcceptStarts, Kinds
  <2>2. CASE AcceptRollsBack(t)
    BY <2>2 DEF AcceptRollsBack
  <2>3. CASE ~(SendDraft(t) \/ AcceptStarts(t) \/ AcceptRollsBack(t))
    BY <1>2, <1>3, <2>3 DEF AcceptCommits, Decline, PostFromWeb, channelVars
  <2> QED
    BY <2>1, <2>2, <2>3
<1>4. ASSUME NEW k \in Kinds, NEW t \in Threads, JobStep(k, t)
      PROVE  failures' \in Nat /\ (failures' = 0 => RaceInv')
  <2>1. failures' = failures
    BY <1>4 DEF JobStep, LookUp, MakeChannel, Invite, SaveLink, PostToChannel
  <2> QED
    BY <1>4, <2>1, JobKeepsRace
<1>5. ASSUME NEW k \in Kinds, NEW t \in Threads, JobEnds(k, t)
      PROVE  failures' \in Nat /\ (failures' = 0 => RaceInv')
  BY <1>5 DEF JobEnds
<1>6. ASSUME NEW c \in DOMAIN chans, Say(c) PROVE UNCHANGED <<link, chans, jobs, failures>>
  BY <1>6 DEF Say, channelVars
<1>7. ASSUME NEW m \in Messages,
             \/ DeliverMessage(m) \/ CheckMark(m) \/ CaptureReacted(m)
             \/ \E p \in Pair, x \in Texts : HandleMessage(m, p, x)
      PROVE  UNCHANGED <<link, chans, jobs, failures>>
  BY <1>7 DEF DeliverMessage, CheckMark, CaptureReacted, HandleMessage, channelVars
<1>8. ASSUME NEW m \in Messages, HandleFails(m)
      PROVE  failures' \in Nat /\ (failures' = 0 => RaceInv')
  BY <1>8 DEF HandleFails
<1>9. UNCHANGED pairVars => UNCHANGED <<link, chans, jobs, failures>>
  BY DEF pairVars, channelVars
<1>10. ASSUME NEW r \in relays, RelayLooks(r) \/ RelayPosts(r) \/ RelayFails(r)
       PROVE  UNCHANGED <<link, chans, jobs, failures>>
  BY <1>10 DEF RelayLooks, RelayPosts, RelayFails
<1> QED
  BY <1>2, <1>3, <1>4, <1>5, <1>6, <1>7, <1>8, <1>9, <1>10 DEF PairNext

\* Whichever threads race to make the pair's channel, as long as nothing fails
\* one of them saves it, and both are in it.
THEOREM RaceIsWon == PairSpec => []RaceLeavesChannel
<1>1. PairInit => failures \in Nat /\ (failures = 0 => RaceInv)
  <2> SUFFICES ASSUME PairInit PROVE failures \in Nat /\ RaceInv
    OBVIOUS
  <2>1. \A j \in Kinds \X Threads : jobs[j].at = "off"
    BY DEF PairInit, Off
  <2>2. \A c \in DOMAIN chans : chans[c].name = Elsewhere
    BY DEF PairInit
  <2> QED
    BY <2>1, <2>2 DEF PairInit, RaceInv, Made, PairName, Elsewhere
<1>2. ChannelTypeOK /\ ChannelInv /\ (failures \in Nat /\ (failures = 0 => RaceInv)) /\ [PairNext]_pairVars
        => (failures \in Nat /\ (failures = 0 => RaceInv))'
  BY NextRace
<1>3. PairSpec => [](ChannelTypeOK /\ ChannelInv /\ (failures \in Nat /\ (failures = 0 => RaceInv)))
  BY <1>1, <1>2, SpecChannel, NextChannel, PTL DEF PairSpec
<1>4. ChannelTypeOK /\ ChannelInv /\ (failures \in Nat /\ (failures = 0 => RaceInv))
        => RaceLeavesChannel
  <2> SUFFICES ASSUME ChannelTypeOK, ChannelInv, failures \in Nat, failures = 0 => RaceInv,
                      ~(failures > 0), NEW j \in DOMAIN jobs, jobs[j].at # "off",
                      \A i \in DOMAIN jobs : ~Running(i)
               PROVE  Usable /\ chans[link.chan].joined
    BY DEF RaceLeavesChannel
  <2>1. failures = 0 /\ DOMAIN jobs = Kinds \X Threads
    BY DEF ChannelTypeOK
  <2>2. \A i \in Kinds \X Threads : jobs[i].at \in {"off", "over"}
    BY <2>1 DEF Running
  <2>3. link.ours
    BY <2>1, <2>2 DEF RaceInv, Making
  <2> QED
    BY <2>3 DEF ChannelInv, Reached, Usable, NoLink
<1> QED
  BY <1>3, <1>4, PTL

-----------------------------------------------------------------------------
(* Each message is stored once *)

\* The ids remembered are different ones, and no more than fit.
SeenInv ==
  /\ seen \in Seq(Messages) /\ Len(seen) <= MaxSeen
  /\ \A i, j \in 1..Len(seen) : seen[i] = seen[j] => i = j

\* Where all messages fit in, a new id evicts none.
LEMMA SeenHasRoom ==
  ASSUME SeenInv, MaxMessages <= MaxSeen, NEW m \in Messages, m \notin ToSet(seen)
  PROVE  Len(seen) # MaxSeen
<1> DEFINE S == 1..Len(seen)
           T == Messages \ {m}
<1>1. Len(seen) \in Nat /\ seen \in [S -> Messages]
  BY LenProperties DEF SeenInv
<1>2. seen \in [S -> T]
  BY <1>1 DEF ToSet
<1>3. IsFiniteSet(S) /\ Cardinality(S) = Len(seen)
  BY <1>1, FS_Interval
<1>4. IsFiniteSet(T) /\ Cardinality(T) = MaxMessages - 1
  <2>1. MaxMessages \in Nat /\ IsFiniteSet(Messages) /\ Cardinality(Messages) = MaxMessages
    BY ChannelAssumption, FS_Interval DEF Messages
  <2> QED
    BY <2>1, FS_RemoveElement
<1>5. ~(Cardinality(T) < Cardinality(S))
  <2> SUFFICES ASSUME Cardinality(T) < Cardinality(S) PROVE FALSE
    OBVIOUS
  <2>1. \E x, y \in S : x # y /\ seen[x] = seen[y]
    <3> HIDE DEF S, T
    <3> QED
      BY <1>2, <1>3, <1>4, FS_PigeonHole
  <2> QED
    BY <2>1 DEF SeenInv
<1>6. MaxMessages \in Nat /\ MaxSeen \in Nat
  BY ChannelAssumption
<1> HIDE DEF S, T
<1> QED
  BY <1>1, <1>3, <1>4, <1>5, <1>6

\* What SeenEventIds makes of an id: it is remembered from now on, nothing is
\* twice, and nothing is forgotten where all messages fit in.
LEMMA RememberedIds ==
  ASSUME SeenInv, NEW m \in Messages
  PROVE  /\ Remembered(m) \in Seq(Messages) /\ Len(Remembered(m)) <= MaxSeen
         /\ \A i, j \in 1..Len(Remembered(m)) : Remembered(m)[i] = Remembered(m)[j] => i = j
         /\ ToSet(Remembered(m)) \subseteq ToSet(seen) \cup {m}
         /\ MaxMessages <= MaxSeen => ToSet(Remembered(m)) = ToSet(seen) \cup {m}
<1>t. /\ seen \in Seq(Messages) /\ Len(seen) \in Nat /\ DOMAIN seen = 1..Len(seen)
      /\ MaxSeen \in Nat /\ MaxSeen > 0 /\ Len(seen) <= MaxSeen
      /\ \A i \in 1..Len(seen) : seen[i] \in Messages
  BY LenProperties, ChannelAssumption DEF SeenInv
<1>1. ASSUME NEW rest \in Seq(Messages), Remembered(m) = Append(rest, m),
             Len(rest) < MaxSeen, ToSet(rest) \subseteq ToSet(seen) \ {m},
             \A i, j \in 1..Len(rest) : rest[i] = rest[j] => i = j
      PROVE  /\ Remembered(m) \in Seq(Messages) /\ Len(Remembered(m)) <= MaxSeen
             /\ \A i, j \in 1..Len(Remembered(m)) :
                  Remembered(m)[i] = Remembered(m)[j] => i = j
             /\ ToSet(Remembered(m)) = ToSet(rest) \cup {m}
  <2> DEFINE r == Remembered(m)
  <2>1. /\ r \in Seq(Messages) /\ Len(rest) \in Nat /\ Len(r) = Len(rest) + 1
        /\ \A i \in 1..Len(rest) : r[i] = rest[i]
        /\ r[Len(rest) + 1] = m
        /\ DOMAIN r = 1..Len(r) /\ DOMAIN rest = 1..Len(rest)
    BY <1>1, AppendProperties, LenProperties
  <2>2. \A i \in 1..Len(rest) : rest[i] # m
    BY <1>1, <2>1 DEF ToSet
  <2> HIDE DEF r
  <2>3. \A i, j \in 1..Len(r) : r[i] = r[j] => i = j
    BY <1>1, <2>1, <2>2
  <2>4. ToSet(r) = ToSet(rest) \cup {m}
    <3>1. \A i \in 1..Len(r) : r[i] \in ToSet(rest) \cup {m}
      BY <2>1 DEF ToSet
    <3>2. \A i \in 1..Len(rest) : rest[i] \in ToSet(r)
      <4> TAKE i \in 1..Len(rest)
      <4>1. i \in 1..Len(r) /\ r[i] = rest[i]
        BY <2>1
      <4> QED
        BY <4>1, <2>1 DEF ToSet
    <3>3. m \in ToSet(r)
      <4>1. Len(rest) + 1 \in 1..Len(r)
        BY <2>1
      <4> QED
        BY <4>1, <2>1 DEF ToSet
    <3> QED
      BY <3>1, <3>2, <3>3, <2>1 DEF ToSet
  <2> QED
    BY <1>1, <1>t, <2>1, <2>3, <2>4 DEF r
<1>2. CASE m \in ToSet(seen)
  <2>1. PICK p \in 1..Len(seen) : p = CHOOSE i \in DOMAIN seen : seen[i] = m
    BY <1>2, <1>t DEF ToSet
  <2>2. seen[p] = m /\ p \in Nat
    BY <2>1, <1>2, <1>t DEF ToSet
  <2> DEFINE rest == RemoveAt(seen, p)
             n == Len(seen) - 1
  <2>3. /\ rest \in Seq(Messages) /\ Len(rest) = n
        /\ \A i \in 1..n : rest[i] = IF i < p THEN seen[i] ELSE seen[i + 1]
    <3> DEFINE a == SubSeq(seen, 1, p - 1)
               b == SubSeq(seen, p + 1, Len(seen))
    <3>1. /\ a \in Seq(Messages) /\ Len(a) = p - 1
          /\ \A i \in 1..(p - 1) : a[i] = seen[i]
      <4>1. \A i \in 1..(p - 1) : seen[i] \in Messages
        BY <1>t, <2>2
      <4> QED
        BY <1>t, <2>2, <4>1, SubSeqProperties
    <3>2. /\ b \in Seq(Messages) /\ Len(b) = Len(seen) - p
          /\ \A i \in 1..(Len(seen) - p) : b[i] = seen[p + i]
      <4>1. \A i \in (p + 1)..Len(seen) : seen[i] \in Messages
        BY <1>t, <2>2
      <4> DEFINE k == p + 1
                 l == Len(seen)
      <4>2. k \in Int /\ l \in Int /\ k <= l + 1 /\ k = p + 1 /\ p \in Nat
        BY <1>t, <2>2
      <4>3. b = SubSeq(seen, k, l) /\ \A i \in k..l : seen[i] \in Messages
        BY <4>1
      <4> HIDE DEF b, k, l
      <4>4. /\ b \in Seq(Messages) /\ Len(b) = IF k <= l THEN l - k + 1 ELSE 0
            /\ \A i \in 1..(l - k + 1) : b[i] = seen[k + i - 1]
        BY <4>2, <4>3, SubSeqProperties
      <4>5. Len(b) = l - p
        BY <4>2, <4>4
      <4>6. \A i \in 1..(l - p) : i \in 1..(l - k + 1) /\ k + i - 1 = p + i
        BY <4>2
      <4>7. \A i \in 1..(l - p) : b[i] = seen[p + i]
        BY <4>4, <4>6
      <4> QED
        BY <4>4, <4>5, <4>7 DEF l
    <3>3. rest = a \o b
      BY DEF RemoveAt
    <3> HIDE DEF a, b, rest
    <3>4. /\ a \o b \in Seq(Messages) /\ Len(a \o b) = Len(a) + Len(b)
          /\ \A i \in 1..(Len(a) + Len(b)) :
               (a \o b)[i] = IF i <= Len(a) THEN a[i] ELSE b[i - Len(a)]
      BY <3>1, <3>2, ConcatProperties
    <3>5. Len(a) + Len(b) = n
      BY <3>1, <3>2, <1>t, <2>2
    <3>6. ASSUME NEW i \in 1..n
          PROVE  (a \o b)[i] = IF i < p THEN seen[i] ELSE seen[i + 1]
      <4>1. CASE i < p
        BY <4>1, <3>1, <3>4, <3>5, <2>2, <1>t
      <4>2. CASE ~(i < p)
        <5>1. (a \o b)[i] = b[i - (p - 1)] /\ i - (p - 1) \in 1..(Len(seen) - p)
          BY <4>2, <3>1, <3>4, <3>5, <2>2, <1>t
        <5>2. p + (i - (p - 1)) = i + 1
          BY <2>2
        <5> QED
          BY <4>2, <5>1, <5>2, <3>2
      <4> QED
        BY <4>1, <4>2
    <3> QED
      BY <3>3, <3>4, <3>5, <3>6
  <2> HIDE DEF rest
  <2>4. Remembered(m) = Append(rest, m)
    BY <1>2, <2>1 DEF Remembered, rest
  <2>5. /\ n \in Nat /\ n < MaxSeen /\ DOMAIN rest = 1..n
    BY <1>t, <2>1, <2>3, LenProperties
  <2>6. \A i \in 1..n : \E j \in 1..Len(seen) : j # p /\ rest[i] = seen[j]
    <3> SUFFICES ASSUME NEW i \in 1..n PROVE \E j \in 1..Len(seen) : j # p /\ rest[i] = seen[j]
      OBVIOUS
    <3>1. CASE i < p
      BY <3>1, <2>3, <1>t
    <3>2. CASE ~(i < p)
      <4>1. i + 1 \in 1..Len(seen) /\ i + 1 # p
        BY <3>2, <1>t, <2>2
      <4> QED
        BY <3>2, <4>1, <2>3
    <3> QED
      BY <3>1, <3>2
  <2>7. ToSet(rest) \subseteq ToSet(seen) \ {m}
    <3> SUFFICES ASSUME NEW i \in 1..n PROVE rest[i] \in ToSet(seen) \ {m}
      BY <2>5 DEF ToSet
    <3>1. PICK j \in 1..Len(seen) : j # p /\ rest[i] = seen[j]
      BY <2>6
    <3> QED
      BY <3>1, <2>1, <2>2, <1>t DEF SeenInv, ToSet
  <2>8. \A i, j \in 1..n : rest[i] = rest[j] => i = j
    <3> SUFFICES ASSUME NEW i \in 1..n, NEW j \in 1..n, rest[i] = rest[j] PROVE i = j
      OBVIOUS
    <3>1. PICK i1 \in 1..Len(seen) :
            i1 = (IF i < p THEN i ELSE i + 1) /\ rest[i] = seen[i1]
      BY <2>3, <1>t
    <3>2. PICK j1 \in 1..Len(seen) :
            j1 = (IF j < p THEN j ELSE j + 1) /\ rest[j] = seen[j1]
      BY <2>3, <1>t
    <3>3. i1 = j1
      BY <3>1, <3>2 DEF SeenInv
    <3> QED
      BY <3>1, <3>2, <3>3, <2>2
  <2>9. ToSet(seen) \subseteq ToSet(rest) \cup {m}
    <3> SUFFICES ASSUME NEW j \in 1..Len(seen), j # p PROVE seen[j] \in ToSet(rest)
      BY <2>2, <1>t DEF ToSet
    <3>1. CASE j < p
      <4>1. j \in 1..n /\ rest[j] = seen[j]
        BY <3>1, <2>1, <2>2, <2>3, <1>t
      <4> QED
        BY <4>1, <2>5 DEF ToSet
    <3>2. CASE ~(j < p)
      <4>1. j - 1 \in 1..n /\ ~(j - 1 < p) /\ (j - 1) + 1 = j
        BY <3>2, <2>1, <2>2, <1>t
      <4>2. rest[j - 1] = seen[j]
        BY <4>1, <2>3
      <4> QED
        BY <4>1, <4>2, <2>5 DEF ToSet
    <3> QED
      BY <3>1, <3>2
  <2> HIDE DEF n
  <2>10. Len(rest) = n /\ rest \in Seq(Messages)
    BY <2>3
  <2> QED
    BY <1>1, <2>4, <2>5, <2>7, <2>8, <2>9, <2>10
<1>3. CASE m \notin ToSet(seen) /\ Len(seen) # MaxSeen
  <2>1. Remembered(m) = Append(seen, m)
    BY <1>3 DEF Remembered
  <2>2. Len(seen) < MaxSeen
    <3>1. Len(seen) # MaxSeen
      BY <1>3
    <3>2. Len(seen) \in Nat /\ MaxSeen \in Nat /\ Len(seen) <= MaxSeen
      BY <1>t
    <3> QED
      BY <3>1, <3>2
  <2>3. ToSet(seen) \subseteq ToSet(seen) \ {m}
    BY <1>3
  <2>4. \A i, j \in 1..Len(seen) : seen[i] = seen[j] => i = j
    BY DEF SeenInv
  <2>5. ToSet(Remembered(m)) = ToSet(seen) \cup {m}
    BY <1>1, <2>1, <2>2, <2>3, <2>4, <1>t
  <2> QED
    BY <1>1, <2>1, <2>2, <2>3, <2>4, <2>5, <1>t
<1>4. CASE m \notin ToSet(seen) /\ Len(seen) = MaxSeen
  <2> DEFINE rest == Tail(seen)
  <2>1. Remembered(m) = Append(rest, m) /\ seen # <<>>
    BY <1>4, <1>t DEF Remembered
  <2>2. /\ rest \in Seq(Messages) /\ Len(rest) = Len(seen) - 1
        /\ \A i \in 1..Len(rest) : rest[i] = seen[i + 1]
    BY <2>1, <1>t, HeadTailProperties
  <2>3. DOMAIN rest = 1..Len(rest)
    BY <2>2, LenProperties
  <2> HIDE DEF rest
  <2>4. \A i \in 1..Len(rest) : i + 1 \in 1..Len(seen)
    BY <2>2, <1>t
  <2>5. \A i, j \in 1..Len(rest) : rest[i] = rest[j] => i = j
    <3> SUFFICES ASSUME NEW i \in 1..Len(rest), NEW j \in 1..Len(rest), rest[i] = rest[j]
                 PROVE  i = j
      OBVIOUS
    <3>1. i + 1 = j + 1
      BY <2>2, <2>4 DEF SeenInv
    <3> QED
      BY <3>1
  <2>6. ToSet(rest) \subseteq ToSet(seen) \ {m}
    BY <1>4, <2>2, <2>3, <2>4, <1>t DEF ToSet
  <2>7. Len(rest) < MaxSeen
    BY <1>4, <2>2, <1>t
  <2>8. ~(MaxMessages <= MaxSeen)
    BY <1>4, SeenHasRoom
  <2> QED
    BY <1>1, <2>1, <2>2, <2>5, <2>6, <2>7, <2>8
<1> QED
  BY <1>2, <1>3, <1>4

\* A message is stored at most once; one that is not written yet is not stored, one
\* of a person is not stored before its event was handled.
OnceInv ==
  \A m \in Messages :
    /\ Len(stored[m]) <= 1
    /\ m \notin DOMAIN log => stored[m] = <<>> /\ m \notin ToSet(seen)
    /\ m \in busy => m \in ToSet(seen)
    /\ m \in DOMAIN log /\ ~log[m].bot /\ (m \in ToSet(seen) => m \in busy) => stored[m] = <<>>

\* The ids remembered stay few and different in every run.
LEMMA NextSeen == SeenInv /\ [PairNext]_pairVars => SeenInv'
<1> SUFFICES ASSUME SeenInv, [PairNext]_pairVars PROVE SeenInv'
  OBVIOUS
<1>1. ASSUME NEW m \in Messages, DeliverMessage(m) PROVE SeenInv'
  <2>1. seen' = Remembered(m)
    BY <1>1 DEF DeliverMessage
  <2> QED
    BY <2>1, RememberedIds DEF SeenInv
<1>2. CASE UNCHANGED seen
  BY <1>2 DEF SeenInv
<1>3. ASSUME NEW t \in Threads,
             SendDraft(t) \/ AcceptStarts(t) \/ AcceptCommits(t) \/ AcceptRollsBack(t)
               \/ Decline(t) \/ PostFromWeb(t)
      PROVE  UNCHANGED seen
  BY <1>3 DEF SendDraft, AcceptStarts, AcceptCommits, AcceptRollsBack, Decline,
    PostFromWeb, eventVars
<1>4. ASSUME NEW k \in Kinds, NEW t \in Threads, JobStep(k, t) \/ JobEnds(k, t)
      PROVE  UNCHANGED seen
  BY <1>4 DEF JobStep, JobEnds, LookUp, MakeChannel, Invite, SaveLink, PostToChannel, eventVars
<1>5. ASSUME NEW c \in DOMAIN chans, Say(c) PROVE UNCHANGED seen
  BY <1>5 DEF Say
<1>6. ASSUME NEW m \in Messages,
             \/ HandleFails(m) \/ CheckMark(m) \/ CaptureReacted(m)
             \/ \E p \in Pair, x \in Texts : HandleMessage(m, p, x)
      PROVE  UNCHANGED seen
  BY <1>6 DEF HandleFails, CheckMark, CaptureReacted, HandleMessage
<1>7. UNCHANGED pairVars => UNCHANGED seen
  BY DEF pairVars, eventVars
<1>8. ASSUME NEW r \in relays, RelayLooks(r) \/ RelayPosts(r) \/ RelayFails(r)
      PROVE  UNCHANGED seen
  BY <1>8 DEF RelayLooks, RelayPosts, RelayFails, eventVars
<1> QED
  BY <1>1, <1>2, <1>3, <1>4, <1>5, <1>6, <1>7, <1>8 DEF PairNext

\* The first message of the log after the ones there are.
LEMMA Written ==
  ASSUME MessageTypeOK, NEW bot \in BOOLEAN, NEW c \in Nat, Write(bot, c)
  PROVE  /\ Len(log) + 1 \in Messages \ DOMAIN log
         /\ DOMAIN log' = DOMAIN log \cup {Len(log) + 1}
         /\ \A m \in DOMAIN log : log'[m] = log[m]
         /\ log'[Len(log) + 1].bot = bot
<1> DEFINE e == [bot |-> bot, chan |-> c]
<1>1. e \in [bot : BOOLEAN, chan : Nat] /\ e.bot = bot
  OBVIOUS
<1>2. log' = Append(log, e) /\ Len(log) < MaxMessages
  BY DEF Write
<1>3. log \in Seq([bot : BOOLEAN, chan : Nat])
  BY DEF MessageTypeOK
<1> HIDE DEF e
<1>4. /\ Len(log) \in Nat /\ DOMAIN log = 1..Len(log) /\ DOMAIN log' = 1..(Len(log) + 1)
      /\ \A m \in 1..Len(log) : log'[m] = log[m]
      /\ log'[Len(log) + 1] = e
  <2>1. /\ log' \in Seq([bot : BOOLEAN, chan : Nat]) /\ Len(log') = Len(log) + 1
        /\ \A m \in 1..Len(log) : log'[m] = log[m]
        /\ log'[Len(log) + 1] = e
    BY <1>1, <1>2, <1>3, AppendProperties
  <2> QED
    BY <2>1, <1>3, LenProperties
<1>5. MaxMessages \in Nat
  BY ChannelAssumption
<1> QED
  BY <1>1, <1>2, <1>4, <1>5 DEF Messages

\* Every step stores a message once, where no event is forgotten before its last retry.
LEMMA NextOnce ==
  ASSUME MaxMessages <= MaxSeen, ChannelTypeOK, MessageTypeOK, SeenInv, OnceInv, [PairNext]_pairVars
  PROVE  OnceInv'
<1>t. /\ stored \in [Messages -> Seq(Threads)] /\ busy \subseteq Messages
      /\ link.thread \in Threads \cup {NoThread} /\ link.chan \in Nat
  BY DEF ChannelTypeOK, MessageTypeOK, Link
<1>1. ASSUME UNCHANGED <<log, stored, seen>>, busy' = busy PROVE OnceInv'
  BY <1>1 DEF OnceInv
<1>2. ASSUME NEW c \in DOMAIN chans, Say(c) PROVE OnceInv'
  <2>1. c \in Nat
    BY LenProperties DEF ChannelTypeOK
  <2>2. /\ DOMAIN log' = DOMAIN log \cup {Len(log) + 1}
        /\ \A m \in DOMAIN log : log'[m] = log[m]
        /\ Len(log) + 1 \notin DOMAIN log
    BY <1>2, <2>1, Written DEF Say
  <2>3. UNCHANGED <<stored, seen, busy>>
    BY <1>2 DEF Say
  <2> QED
    BY <2>2, <2>3 DEF OnceInv
<1>3. ASSUME NEW r \in relays, RelayPosts(r) PROVE OnceInv'
  <2> DEFINE n == Len(log) + 1
  <2>0. r[1] \in Threads /\ r[2] \in Nat
    BY DEF ChannelTypeOK
  <2>1. /\ DOMAIN log' = DOMAIN log \cup {n}
        /\ \A m \in DOMAIN log : log'[m] = log[m]
        /\ n \in Messages \ DOMAIN log /\ log'[n].bot
    BY <1>3, <2>0, Written DEF RelayPosts
  <2>2. UNCHANGED <<seen, busy>> /\ stored' = [stored EXCEPT ![n] = Append(@, r[1])]
    BY <1>3 DEF RelayPosts
  <2> HIDE DEF n
  <2>3. stored[n] = <<>>
    BY <2>1 DEF OnceInv
  <2>4. stored'[n] = <<r[1]>> /\ Len(stored'[n]) <= 1
    BY <2>0, <2>1, <2>2, <2>3, <1>t
  <2>5. \A m \in Messages \ {n} : stored'[m] = stored[m]
    BY <2>2, <1>t
  <2> QED
    BY <2>1, <2>2, <2>4, <2>5 DEF OnceInv
<1>4. ASSUME NEW m \in Messages, DeliverMessage(m) PROVE OnceInv'
  <2>1. ToSet(seen') = ToSet(seen) \cup {m}
    BY <1>4, RememberedIds DEF DeliverMessage
  <2>2. /\ UNCHANGED <<log, stored>> /\ m \in DOMAIN log
        /\ busy' = IF m \in ToSet(seen) THEN busy ELSE busy \cup {m}
    BY <1>4 DEF DeliverMessage
  <2> QED
    BY <2>1, <2>2 DEF OnceInv
<1>5. ASSUME NEW m \in Messages, NEW p \in Pair, NEW x \in Texts, HandleMessage(m, p, x)
      PROVE  OnceInv'
  <2>1. /\ UNCHANGED <<log, seen>> /\ m \in busy /\ busy' = busy \ {m}
    BY <1>5 DEF HandleMessage
  <2>2. CASE Mirrored(m)
    <3>1. stored' = [stored EXCEPT ![m] = Append(@, link.thread)]
      BY <1>5, <2>2 DEF HandleMessage
    <3>2. m \in DOMAIN log /\ ~log[m].bot
      BY <2>1, <2>2 DEF Mirrored, OnceInv
    <3>3. stored[m] = <<>>
      BY <2>1, <3>2 DEF OnceInv
    <3>4. Len(stored'[m]) <= 1
      BY <3>1, <3>3, <1>t
    <3>5. \A n \in Messages \ {m} : stored'[n] = stored[n]
      BY <3>1, <1>t
    <3> QED
      BY <2>1, <3>2, <3>4, <3>5 DEF OnceInv
  <2>3. CASE ~Mirrored(m)
    <3>1. UNCHANGED stored
      BY <1>5, <2>3 DEF HandleMessage
    <3> QED
      BY <2>1, <3>1 DEF OnceInv
  <2> QED
    BY <2>2, <2>3
<1>6. ASSUME NEW m \in Messages, HandleFails(m) PROVE OnceInv'
  BY <1>6 DEF HandleFails, OnceInv
<1>7. ASSUME NEW m \in Messages, CheckMark(m) \/ CaptureReacted(m) PROVE OnceInv'
  BY <1>1, <1>7 DEF CheckMark, CaptureReacted
<1>8. ASSUME NEW t \in Threads,
             SendDraft(t) \/ AcceptStarts(t) \/ AcceptCommits(t) \/ AcceptRollsBack(t)
               \/ Decline(t) \/ PostFromWeb(t)
      PROVE  UNCHANGED eventVars
  BY <1>8 DEF SendDraft, AcceptStarts, AcceptCommits, AcceptRollsBack, Decline, PostFromWeb
<1>9. ASSUME NEW k \in Kinds, NEW t \in Threads, JobStep(k, t) \/ JobEnds(k, t)
      PROVE  UNCHANGED eventVars
  BY <1>9 DEF JobStep, JobEnds, LookUp, MakeChannel, Invite, SaveLink, PostToChannel
<1>10. UNCHANGED pairVars => UNCHANGED eventVars
  BY DEF pairVars
<1>11. UNCHANGED eventVars => OnceInv'
  BY <1>1 DEF eventVars
<1>12. ASSUME NEW r \in relays, RelayLooks(r) \/ RelayFails(r) PROVE UNCHANGED eventVars
  BY <1>12 DEF RelayLooks, RelayFails
<1> QED
  BY <1>2, <1>3, <1>4, <1>5, <1>6, <1>7, <1>8, <1>9, <1>10, <1>11, <1>12 DEF PairNext

\* What races in the background is settled well: a usable channel, and one copy of
\* each message however often and in what overlap its event is delivered.  An event
\* must not be redelivered after its id was evicted: SeenEventIds is as large as
\* the messages there are.
THEOREM RacesAreSettled ==
  ASSUME MaxMessages <= MaxSeen
  PROVE  PairSpec => []RacesSettle
<1>1. PairInit => MessageInv /\ SeenInv /\ OnceInv
  <2> SUFFICES ASSUME PairInit PROVE MessageInv /\ SeenInv /\ OnceInv
    OBVIOUS
  <2>1. MessageInv
    BY ChannelAssumption DEF PairInit, MessageInv, MessageTypeOK, AnchorInv
  <2>2. seen = <<>> /\ log = <<>> /\ busy = {} /\ \A m \in Messages : stored[m] = <<>>
    BY DEF PairInit
  <2>3. SeenInv
    BY <2>2, ChannelAssumption DEF SeenInv
  <2>4. ToSet(seen) = {}
    BY <2>2 DEF ToSet
  <2> QED
    BY <2>1, <2>2, <2>3, <2>4 DEF OnceInv
<1>2. ChannelTypeOK /\ MessageInv /\ SeenInv /\ OnceInv /\ [PairNext]_pairVars => OnceInv'
  BY NextOnce DEF MessageInv
<1>3. PairSpec => []OnceInv
  BY <1>1, <1>2, SpecChannel, NextMessage, NextSeen, PTL DEF PairSpec
<1>4. OnceInv => StoredOnce
  BY DEF OnceInv, StoredOnce
<1> QED
  BY <1>3, <1>4, RaceIsWon, PTL DEF RacesSettle

-----------------------------------------------------------------------------
(* DirectorySync *)

SyncInv ==
  \A s \in Syncs : syncs[s].at = "loaded" =>
    /\ syncs[s].staff \subseteq staff
    /\ \A m \in Addresses : syncs[s].links[m] # None => m \in syncs[s].staff

DirectoryInv == DirectoryTypeOK /\ SyncInv /\ OneToOne

-----------------------------------------------------------------------------
(* What a sync plans and writes *)

\* A claim is of a colleague whose profile says the address.
LEMMA ClaimIsColleague ==
  ASSUME NEW r \in Rosters, NEW c \in Claims(r)
  PROVE  /\ c[1] \in Addresses \ {AdminAddress} /\ c[2] \in Accounts
         /\ c = <<c[1], c[2]>>
         /\ r[c[2]].email = c[1] /\ ~r[c[2]].deleted /\ c[2] \notin Guests \cup Foreign
<1>1. PICK u \in Accounts : Colleague(r, u) /\ c = <<r[u].email, u>>
  BY DEF Claims
<1>2. r[u].email \in Addresses \cup {None}
  BY DEF Rosters, Member
<1>3. c[1] \notin {None, AdminAddress}
  BY <1>1 DEF Claims
<1> QED
  BY <1>1, <1>2, <1>3 DEF Colleague

\* Writing pairs leaves a link alone, or makes it that of a pair.
LEMMA WriteTakesPair ==
  ASSUME NEW pairs, NEW l, NEW m \in Addresses
  PROVE  \/ Attached(pairs, l)[m] = l[m]
         \/ \E p \in pairs : p[1] = m /\ Attached(pairs, l)[m] = p[2]
<1>1. CASE \E p \in pairs : p[1] = m
  <2> DEFINE p == CHOOSE q \in pairs : q[1] = m
  <2>1. p \in pairs /\ p[1] = m
    BY <1>1
  <2>2. Attached(pairs, l)[m] = p[2]
    BY <1>1 DEF Attached
  <2> QED
    BY <2>1, <2>2
<1>2. CASE ~\E p \in pairs : p[1] = m
  BY <1>2 DEF Attached
<1> QED
  BY <1>1, <1>2

\* The rows a sync loaded are well typed.
LEMMA LoadedTypes ==
  ASSUME DirectoryTypeOK, NEW s \in Syncs, syncs[s].at = "loaded"
  PROVE  /\ syncs[s].members \in Rosters /\ syncs[s].links \in Links
         /\ syncs[s].staff \subseteq Addresses
  BY DEF DirectoryTypeOK, Sync, NoSync

\* What a sync that gets through writes, link by link.
LEMMA ApplyWrites ==
  ASSUME DirectoryInv, NEW s \in Syncs, Apply(s)
  PROVE  LET r == syncs[s].members
             new == ToCreate(r, syncs[s].staff)
             add == ToLink(r, syncs[s].staff, syncs[s].links)
         IN  \/ UNCHANGED dbVars
             \/ /\ staff \subseteq staff' /\ staff' \subseteq Addresses
                /\ active' \subseteq staff'
                /\ links' \in [Addresses -> Accounts \cup {None}]
                /\ \A m, n \in Addresses : links'[m] = links'[n] /\ m # n => links'[m] = None
                /\ \A m \in Addresses :
                     \/ links'[m] = links[m]
                     \/ links'[m] = None /\ m \in ToUnlink(r, syncs[s].links)
                     \/ \E p \in new \cup add :
                          p = <<m, links'[m]>> /\ m \in staff'
<1> DEFINE r == syncs[s].members
           new == ToCreate(r, syncs[s].staff)
           add == ToLink(r, syncs[s].staff, syncs[s].links)
           cut == ToUnlink(r, syncs[s].links)
           pairs == new \cup add
           written == Attached(pairs, links)
<1>1. CASE UNCHANGED dbVars
  BY <1>1
<1>2. CASE ~UNCHANGED dbVars
  <2>1. /\ syncs[s].at = "loaded" /\ ~Clashes(written)
        /\ staff' = staff \cup {p[1] : p \in new}
        /\ active' = (active \cup {p[1] : p \in new}) \ cut
        /\ links' = [m \in Addresses |-> IF m \in cut THEN None ELSE written[m]]
    BY <1>2 DEF Apply
  <2>2. r \in Rosters /\ syncs[s].staff \subseteq staff
    BY <2>1, LoadedTypes DEF DirectoryInv, SyncInv
  <2>3. /\ new \subseteq Claims(r)
        /\ add \subseteq Claims(r)
        /\ \A p \in add : p[1] \in syncs[s].staff
    BY DEF ToCreate, ToLink, Sole
  <2>4. \A p \in new \cup add :
          p[1] \in Addresses /\ p[2] \in Accounts /\ p = <<p[1], p[2]>> /\ p[1] \in staff'
    BY <2>1, <2>2, <2>3, ClaimIsColleague
  <2>5. staff \subseteq staff' /\ staff' \subseteq Addresses /\ active' \subseteq staff'
    BY <2>1, <2>4 DEF DirectoryInv, DirectoryTypeOK
  <2>6. links \in [Addresses -> Accounts \cup {None}]
    BY DEF DirectoryInv, DirectoryTypeOK, Links
  <2>7. ASSUME NEW m \in Addresses
        PROVE  /\ written[m] \in Accounts \cup {None}
               /\ written[m] = links[m] \/ \E p \in new \cup add : p = <<m, written[m]>> /\ m \in staff'
    <3>1. ASSUME written[m] # links[m]
          PROVE  \E p \in pairs : p[1] = m /\ written[m] = p[2]
      <4> HIDE DEF pairs
      <4> QED
        BY <3>1, WriteTakesPair
    <3> HIDE DEF new, add, written
    <3> QED
      BY <3>1, <2>4, <2>6
  <2>8. ASSUME NEW m \in Addresses, NEW n \in Addresses, m # n, links'[m] = links'[n]
        PROVE  links'[m] = None
    BY <2>1, <2>8 DEF Clashes
  <2>9. links' \in [Addresses -> Accounts \cup {None}]
    BY <2>1, <2>7
  <2>10. ASSUME NEW m \in Addresses
         PROVE  \/ links'[m] = links[m]
                \/ links'[m] = None /\ m \in cut
                \/ \E p \in new \cup add : p = <<m, links'[m]>> /\ m \in staff'
    <3>1. CASE m \in cut
      BY <2>1, <3>1
    <3>2. CASE m \notin cut
      <4>1. links'[m] = written[m]
        BY <2>1, <3>2
      <4> HIDE DEF new, add, cut, written
      <4> QED
        BY <4>1, <2>7
    <3> QED
      BY <3>1, <3>2
  <2> HIDE DEF written
  <2>11. \A m, n \in Addresses : links'[m] = links'[n] /\ m # n => links'[m] = None
    BY <2>8
  <2>12. \A m \in Addresses :
           \/ links'[m] = links[m]
           \/ links'[m] = None /\ m \in cut
           \/ \E p \in new \cup add : p = <<m, links'[m]>> /\ m \in staff'
    BY <2>10
  <2> QED
    BY <2>5, <2>9, <2>11, <2>12, Zenon DEF new, add, cut, r
<1> QED
  BY <1>1, <1>2

-----------------------------------------------------------------------------
(* The invariant *)

\* It holds at the start.
LEMMA InitDirectory == DirectoryInit => DirectoryInv
<1> SUFFICES ASSUME DirectoryInit PROVE DirectoryInv
  OBVIOUS
<1>1. roster \in Rosters
  BY DEF DirectoryInit, Rosters, Member
<1>2. syncs \in [Syncs -> Sync] /\ \A s \in Syncs : syncs[s].at = "idle"
  BY DEF DirectoryInit, Sync, NoSync
<1>3. OneToOne
  BY DirectoryAssumption DEF DirectoryInit, OneToOne
<1>4. links \in Links /\ staff \in SUBSET Addresses /\ Staff \subseteq staff
        /\ active \in SUBSET staff
  BY DirectoryAssumption DEF DirectoryInit, Links
<1>5. pending \in SUBSET (staff \X Accounts) /\ changes \in 0..MaxChanges
        /\ \A m \in Addresses : links[m] # None => m \in staff
  BY DirectoryAssumption DEF DirectoryInit
<1> QED
  BY <1>1, <1>2, <1>3, <1>4, <1>5 DEF DirectoryInv, DirectoryTypeOK, SyncInv

\* A change made by people, Slack or the network keeps it.
LEMMA PeopleKeepDirectory ==
  ASSUME DirectoryInv, Change, UNCHANGED <<staff, active, syncs>>,
         roster' \in Rosters,
         pending' \in SUBSET (staff \X Accounts),
         links' \in Links,
         \A m \in Addresses : links'[m] # None => m \in staff,
         OneToOne'
  PROVE  DirectoryInv'
<1>1. changes' \in 0..MaxChanges
  BY DirectoryAssumption DEF Change, DirectoryInv, DirectoryTypeOK
<1> QED
  BY <1>1 DEF DirectoryInv, DirectoryTypeOK, SyncInv

\* Every step of a sync keeps it.
LEMMA SyncKeepsDirectory ==
  ASSUME DirectoryInv, NEW s \in Syncs, SyncStep(s)
  PROVE  DirectoryInv'
<1>t. syncs \in [Syncs -> Sync] /\ roster \in Rosters /\ links \in Links
        /\ staff \in SUBSET Addresses
  BY DEF DirectoryInv, DirectoryTypeOK
<1>1. CASE Fetch(s)
  <2>1. syncs[s] = NoSync
    BY <1>1, <1>t DEF Fetch, Sync
  <2>2. syncs' = [syncs EXCEPT ![s] = [at |-> "fetched", members |-> roster,
                                       staff |-> {}, links |-> <<>>]]
    BY <1>1 DEF Fetch
  <2>3. [at |-> "fetched", members |-> roster, staff |-> {}, links |-> <<>>] \in Sync
    BY <1>t DEF Sync
  <2>4. syncs' \in [Syncs -> Sync]
    BY <1>t, <2>2, <2>3
  <2>5. \A t \in Syncs : syncs'[t].at = "loaded" => syncs'[t] = syncs[t]
    BY <1>t, <2>2
  <2> QED
    BY <1>1, <2>4, <2>5 DEF Fetch, dbVars, DirectoryInv, DirectoryTypeOK, SyncInv, OneToOne
<1>2. CASE Load(s)
  <2>1. syncs[s].members \in Rosters
    BY <1>2, <1>t DEF Load, Sync, NoSync
  <2> DEFINE new == [at |-> "loaded", members |-> syncs[s].members,
                     staff |-> staff, links |-> links]
  <2>2. syncs' = [syncs EXCEPT ![s] = new]
    BY <1>2 DEF Load
  <2>3. new \in Sync
    BY <1>t, <2>1 DEF Sync
  <2>4. syncs' \in [Syncs -> Sync]
    BY <1>t, <2>2, <2>3
  <2>5. \A t \in Syncs : \/ t # s /\ syncs'[t] = syncs[t]
                         \/ syncs'[t].staff = staff /\ syncs'[t].links = links
    BY <1>t, <2>2
  <2>6. SyncInv'
    BY <1>2, <2>5 DEF Load, dbVars, DirectoryInv, DirectoryTypeOK, SyncInv
  <2> HIDE DEF new
  <2> QED
    BY <1>2, <2>4, <2>6 DEF Load, dbVars, DirectoryInv, DirectoryTypeOK, OneToOne
<1>3. CASE Apply(s)
  <2>1. /\ syncs' = [syncs EXCEPT ![s] = NoSync]
        /\ UNCHANGED <<roster, pending, changes>>
    BY <1>3 DEF Apply
  <2>2. syncs' \in [Syncs -> Sync]
    BY <1>t, <2>1 DEF Sync
  <2>3. \A t \in Syncs : syncs'[t].at = "loaded" => syncs'[t] = syncs[t]
    BY <1>t, <2>1 DEF NoSync
  <2>4. /\ staff \subseteq staff' /\ staff' \subseteq Addresses /\ active' \subseteq staff'
        /\ links' \in Links /\ OneToOne'
        /\ \A m \in Addresses : links'[m] # None => m \in staff'
    <3>1. CASE UNCHANGED dbVars
      BY <3>1, <1>t DEF dbVars, DirectoryInv, DirectoryTypeOK, OneToOne
    <3>2. CASE ~UNCHANGED dbVars
      <4>1. /\ staff \subseteq staff' /\ staff' \subseteq Addresses /\ active' \subseteq staff'
            /\ links' \in [Addresses -> Accounts \cup {None}]
            /\ \A m, n \in Addresses : links'[m] = links'[n] /\ m # n => links'[m] = None
            /\ \A m \in Addresses :
                 links'[m] = links[m] \/ links'[m] = None \/ m \in staff'
        BY <1>3, <3>2, ApplyWrites
      <4>2. \A m \in Addresses : links[m] # None => m \in staff
        BY DEF DirectoryInv, DirectoryTypeOK
      <4> QED
        BY <4>1, <4>2 DEF Links, OneToOne
    <3> QED
      BY <3>1, <3>2
  <2> QED
    BY <2>1, <2>2, <2>3, <2>4 DEF DirectoryInv, DirectoryTypeOK, SyncInv
<1> QED
  BY <1>1, <1>2, <1>3 DEF SyncStep

\* Every step keeps the invariant.
LEMMA NextDirectory == DirectoryInv /\ [DirectoryNext]_directoryVars => DirectoryInv'
<1> SUFFICES ASSUME DirectoryInv, [DirectoryNext]_directoryVars PROVE DirectoryInv'
  OBVIOUS
<1>t. /\ roster \in Rosters /\ links \in Links /\ OneToOne
      /\ pending \in SUBSET (staff \X Accounts)
      /\ \A m \in Addresses : links[m] # None => m \in staff
  BY DEF DirectoryInv, DirectoryTypeOK
<1>1. ASSUME NEW u \in Accounts, NEW member \in Member, Reconfigure(u, member)
      PROVE  DirectoryInv'
  <2>1. roster' \in Rosters
    BY <1>1, <1>t DEF Reconfigure, Rosters
  <2> QED
    BY <1>1, <1>t, <2>1, PeopleKeepDirectory DEF Reconfigure, dbVars, OneToOne
<1>2. ASSUME NEW u \in Accounts,
             \/ Deactivate(u) \/ Reactivate(u)
             \/ \E m \in Addresses \cup {None} : Readdress(u, m)
      PROVE  DirectoryInv'
  <2>1. \E member \in Member : Reconfigure(u, member)
    BY <1>2, <1>t DEF Deactivate, Reactivate, Readdress, Rosters, Member
  <2> QED
    BY <1>1, <2>1
<1>3. ASSUME NEW u \in Accounts, NEW m \in Addresses, Consent(m, u) PROVE DirectoryInv'
  BY <1>3, <1>t, PeopleKeepDirectory DEF Consent, dbVars, OneToOne
<1>4. ASSUME NEW p \in pending, Expire(p) PROVE DirectoryInv'
  BY <1>4, <1>t, PeopleKeepDirectory DEF Expire, dbVars, OneToOne
<1>5. ASSUME NEW u \in Accounts, NEW m \in Addresses, LinkComplete(m, u) PROVE DirectoryInv'
  <2>1. /\ links' = [links EXCEPT ![m] = u] /\ m \in staff
        /\ ~Clashes([links EXCEPT ![m] = u])
        /\ Change /\ UNCHANGED <<roster, staff, active, pending, syncs>>
    BY <1>5, <1>t DEF LinkComplete
  <2>2. links' \in Links
    BY <2>1, <1>t DEF Links
  <2>3. OneToOne'
    BY <2>1 DEF OneToOne, Clashes
  <2>4. \A n \in Addresses : links'[n] # None => n \in staff
    BY <2>1, <1>t DEF Links
  <2> QED
    BY <1>t, <2>1, <2>2, <2>3, <2>4, PeopleKeepDirectory
<1>6. ASSUME NEW m \in Addresses, Unlink(m) PROVE DirectoryInv'
  <2>1. /\ links' = [links EXCEPT ![m] = None]
        /\ Change /\ UNCHANGED <<roster, staff, active, pending, syncs>>
    BY <1>6 DEF Unlink
  <2>2. links' \in Links /\ OneToOne' /\ \A n \in Addresses : links'[n] # None => n \in staff
    BY <2>1, <1>t DEF Links, OneToOne
  <2> QED
    BY <1>t, <2>1, <2>2, PeopleKeepDirectory
<1>7. ASSUME NEW s \in Syncs, SyncStep(s) PROVE DirectoryInv'
  BY <1>7, SyncKeepsDirectory
<1>8. CASE UNCHANGED directoryVars
  BY <1>8 DEF directoryVars, dbVars, DirectoryInv, DirectoryTypeOK, SyncInv, OneToOne
<1> QED
  BY <1>2, <1>3, <1>4, <1>5, <1>6, <1>7, <1>8 DEF DirectoryNext

\* The invariant holds in every run.
LEMMA SpecDirectory == DirectorySpec => []DirectoryInv
  BY InitDirectory, NextDirectory, PTL DEF DirectorySpec

\* Rows, rosters and running syncs are well typed in every run.
THEOREM DirectoryTyped == DirectorySpec => []DirectoryTypeOK
<1>1. DirectoryInv => DirectoryTypeOK
  BY DEF DirectoryInv
<1> QED
  BY <1>1, SpecDirectory, PTL

\* However many syncs overlap and whoever links meanwhile, no account is linked to
\* two employees.
THEOREM LinksStayOneToOne == DirectorySpec => []OneToOne
<1>1. DirectoryInv => OneToOne
  BY DEF DirectoryInv
<1> QED
  BY <1>1, SpecDirectory, PTL

-----------------------------------------------------------------------------
(* What a sync may write *)

\* A sync that is over has applied its plan.
LEMMA AppliedByApply ==
  ASSUME DirectoryInv, [DirectoryNext]_directoryVars, NEW s \in Syncs, Applied(s)
  PROVE  Apply(s)
<1>t. syncs \in [Syncs -> Sync] /\ syncs[s].at = "loaded" /\ syncs'[s] = NoSync
  BY DEF Applied, DirectoryInv, DirectoryTypeOK
<1>0. syncs'[s] # syncs[s]
  BY <1>t DEF NoSync
<1>1. ASSUME UNCHANGED syncs PROVE FALSE
  BY <1>0, <1>1
<1>2. ASSUME NEW t \in Syncs, SyncStep(t), t # s PROVE FALSE
  BY <1>t, <1>0, <1>2 DEF SyncStep, Fetch, Load, Apply
<1>3. ~Fetch(s) /\ ~Load(s)
  BY <1>t DEF Fetch, Load
<1>4. ASSUME NEW u \in Accounts,
             \/ Deactivate(u) \/ Reactivate(u)
             \/ \E m \in Addresses \cup {None} : Readdress(u, m)
             \/ \E m \in Addresses : Consent(m, u) \/ LinkComplete(m, u)
      PROVE  UNCHANGED syncs
  BY <1>4 DEF Deactivate, Reactivate, Readdress, Reconfigure, Consent, LinkComplete
<1>5. (\E p \in pending : Expire(p)) \/ (\E m \in Addresses : Unlink(m)) => UNCHANGED syncs
  BY DEF Expire, Unlink
<1>6. UNCHANGED directoryVars => UNCHANGED syncs
  BY DEF directoryVars
<1> QED
  BY <1>1, <1>2, <1>3, <1>4, <1>5, <1>6 DEF DirectoryNext, SyncStep

KeptStep ==
  \A s \in Syncs, m \in Addresses :
    Applied(s) /\ links = syncs[s].links /\ links[m] # None /\ links'[m] # links[m] =>
      /\ links'[m] = None
      /\ links[m] \notin Foreign /\ syncs[s].members[links[m]].deleted

\* A sync moves nobody and cuts only departures, unless links changed meanwhile.
LEMMA StepKeepsLinks == DirectoryInv /\ [DirectoryNext]_directoryVars => KeptStep
<1> SUFFICES ASSUME DirectoryInv, [DirectoryNext]_directoryVars, NEW s \in Syncs, NEW m \in Addresses,
                    Applied(s), links = syncs[s].links, links[m] # None, links'[m] # links[m]
             PROVE  /\ links'[m] = None
                    /\ links[m] \notin Foreign /\ syncs[s].members[links[m]].deleted
  BY DEF KeptStep
<1>1. Apply(s) /\ syncs[s].at = "loaded"
  BY AppliedByApply DEF Applied
<1>2. m \in syncs[s].staff
  BY <1>1 DEF DirectoryInv, SyncInv
<1>3. \A p \in ToCreate(syncs[s].members, syncs[s].staff) : p[1] # m
  BY <1>2 DEF ToCreate, Sole
<1>4. \A p \in ToLink(syncs[s].members, syncs[s].staff, syncs[s].links) : p[1] # m
  BY DEF ToLink, Sole
<1>5. ~UNCHANGED dbVars
  BY DEF dbVars
<1>6. links'[m] = None /\ m \in ToUnlink(syncs[s].members, syncs[s].links)
  BY <1>1, <1>3, <1>4, <1>5, ApplyWrites
<1> QED
  BY <1>6 DEF ToUnlink

\* A sync leaves existing links alone, but of people who left the workspace.
THEOREM SyncKeepsLinks == DirectorySpec => ExistingLinksKept
<1>1. DirectoryInv /\ [DirectoryNext]_directoryVars => [KeptStep]_directoryVars
  BY StepKeepsLinks
<1>2. DirectorySpec => [][KeptStep]_directoryVars
  BY <1>1, SpecDirectory, PTL DEF DirectorySpec
<1> QED
  BY <1>2 DEF ExistingLinksKept, KeptStep

ClaimedStep ==
  \A s \in Syncs, m \in Addresses :
    Applied(s) /\ links'[m] \notin {None, links[m]} =>
      /\ links'[m] \in Claimants(s, m)
      /\ \A u \in Claimants(s, m) : u = links'[m] \/ Linked(syncs[s].links, u)

\* What a sync attaches is the account of the only unlinked colleague with the address.
LEMMA StepAttachesClaimed == DirectoryInv /\ [DirectoryNext]_directoryVars => ClaimedStep
<1> SUFFICES ASSUME DirectoryInv, [DirectoryNext]_directoryVars, NEW s \in Syncs, NEW m \in Addresses,
                    Applied(s), links'[m] \notin {None, links[m]}
             PROVE  /\ links'[m] \in Claimants(s, m)
                    /\ \A u \in Claimants(s, m) :
                         u = links'[m] \/ Linked(syncs[s].links, u)
  BY DEF ClaimedStep
<1> DEFINE r == syncs[s].members
           e == syncs[s].staff
           l == syncs[s].links
           p == <<m, links'[m]>>
<1>1. Apply(s) /\ r \in Rosters
  BY AppliedByApply, LoadedTypes DEF Applied, DirectoryInv
<1>2. p \in ToCreate(r, e) \cup ToLink(r, e, l)
  <2>1. ~UNCHANGED dbVars
    BY DEF dbVars
  <2> QED
    BY <1>1, <2>1, ApplyWrites
<1>3. p \in Claims(r)
  BY <1>2 DEF ToCreate, ToLink, Sole
<1>4. /\ m \in Addresses \ {AdminAddress} /\ links'[m] \in Accounts \ (Guests \cup Foreign)
      /\ r[links'[m]].email = m /\ ~r[links'[m]].deleted
  <2> HIDE DEF r
  <2> QED
    BY <1>1, <1>3, ClaimIsColleague
<1>5. r[links'[m]] = [email |-> m, deleted |-> FALSE]
  BY <1>1, <1>4 DEF Rosters, Member
<1>6. ASSUME NEW u \in Accounts \ (Guests \cup Foreign), r[u] = [email |-> m, deleted |-> FALSE],
             ~Linked(l, u)
      PROVE  u = links'[m]
  <2>1. <<m, u>> \in Claims(r)
    <3>1. Colleague(r, u) /\ m = r[u].email
      BY <1>6 DEF Colleague
    <3>2. m \notin {None, AdminAddress}
      BY <1>4, DirectoryAssumption
    <3> HIDE DEF r
    <3> QED
      BY <3>1, <3>2 DEF Claims
  <2>2. CASE p \in ToLink(r, e, l)
    <3>1. m \in e /\ l[m] = None
      BY <2>2 DEF ToLink, Sole
    <3>2. <<m, u>> = p
      BY <1>6, <2>1, <2>2, <3>1 DEF ToLink, Sole
    <3> QED
      BY <3>2
  <2>3. CASE p \in ToCreate(r, e)
    <3>1. CreateMissing /\ m \notin e /\ m \in Allowed
      BY <2>3 DEF ToCreate, Sole
    <3>2. <<m, u>> = p
      BY <2>1, <2>3, <3>1 DEF ToCreate, Sole
    <3> QED
      BY <3>2
  <2> QED
    BY <1>2, <2>2, <2>3
<1> QED
  BY <1>4, <1>5, <1>6 DEF Claimants

\* A sync attaches the sole claimant of an address, or nobody.
THEOREM SyncAttachesClaimed == DirectorySpec => SyncedLinkIsClaimed
<1>1. DirectoryInv /\ [DirectoryNext]_directoryVars => [ClaimedStep]_directoryVars
  BY StepAttachesClaimed
<1>2. DirectorySpec => [][ClaimedStep]_directoryVars
  BY <1>1, SpecDirectory, PTL DEF DirectorySpec
<1> QED
  BY <1>2 DEF SyncedLinkIsClaimed, ClaimedStep

\* A sync changes the links its plan has a reason to change, and no other.
THEOREM SyncHasReason == DirectorySpec => SyncJustified
  BY SyncAttachesClaimed, SyncKeepsLinks DEF SyncJustified

-----------------------------------------------------------------------------
(* Curation *)

\* Chat rows have an id each, counted up.
HistoryFits ==
  /\ IsFiniteSet(history)
  /\ history \subseteq [id : Nat, channel : Int, at : Int, said : BOOLEAN]
  /\ \A r, s \in history : r.id = s.id => r = s
  /\ \A r \in history : r.id <= Cardinality(history)

\* The order the rows are read in.
LEMMA BeforeOrders ==
  ASSUME HistoryFits
  PROVE  /\ \A r \in history : ~Before(r, r)
         /\ \A r, s \in history : r # s => Before(r, s) \/ Before(s, r)
         /\ \A r, s, t \in history : Before(r, s) /\ Before(s, t) => Before(r, t)
<1>1. \A r \in history : r.id \in Nat /\ r.channel \in Int /\ r.at \in Int
  BY DEF HistoryFits
<1>2. \A r, s \in history : r # s => r.id # s.id
  BY DEF HistoryFits
<1>3. \A r, s \in history : r # s => Before(r, s) \/ Before(s, r)
  BY <1>1, <1>2 DEF Before
<1>4. \A r, s, t \in history : Before(r, s) /\ Before(s, t) => Before(r, t)
  BY <1>1 DEF Before
<1> QED
  BY <1>1, <1>3, <1>4 DEF Before

\* Not after is before or the same.
LEMMA NotAfter ==
  ASSUME HistoryFits
  PROVE  /\ \A r, s \in history : ~Before(r, s) <=> r = s \/ Before(s, r)
         /\ \A r, s, t \in history : ~Before(r, s) /\ ~Before(s, t) => ~Before(r, t)
         /\ \A r, s, t \in history : Before(r, s) /\ ~Before(t, s) => Before(r, t)
         /\ \A r, s, t \in history : ~Before(s, r) /\ Before(s, t) => Before(r, t)
BY BeforeOrders

LEMMA SortedOrders ==
  ASSUME HistoryFits, NEW S \in SUBSET history
  PROVE  /\ StrictOrder(S, Sorted(S)) /\ IsFiniteSet(S)
         /\ \A r, s : <<r, s>> \in Sorted(S) <=> r \in S /\ s \in S /\ Before(r, s)
<1>1. \A r, s : <<r, s>> \in Sorted(S) <=> r \in S /\ s \in S /\ Before(r, s)
  BY DEF Sorted
<1>2. StrictOrder(S, Sorted(S))
  BY <1>1, BeforeOrders DEF StrictOrder
<1>3. IsFiniteSet(S)
  BY FS_Subset DEF HistoryFits
<1> QED
  BY <1>1, <1>2, <1>3

\* Some of the rows have a first one.
LEMMA OpeningIs ==
  ASSUME HistoryFits, NEW c \in SUBSET history, c # {}
  PROVE  Opening(c) \in c /\ \A s \in c : ~Before(s, Opening(c))
<1> DEFINE o == InOrder(c, Sorted(c))
           n == Cardinality(c)
<1>1. /\ n \in Nat
      /\ \A x \in c : \E i \in 1..n : o[i] = x
      /\ o \in [1..n -> c]
      /\ \A i, j \in 1..n : i < j => <<o[i], o[j]>> \in Sorted(c)
  <2>1. StrictOrder(c, Sorted(c)) /\ IsFiniteSet(c)
    BY SortedOrders
  <2> DEFINE R == Sorted(c)
  <2> HIDE DEF R
  <2>2. /\ InOrder(c, R) \in Seq(c)
        /\ Len(InOrder(c, R)) = Cardinality(c)
        /\ Cardinality(c) \in Nat
        /\ \A x \in c : \E i \in 1..Cardinality(c) : InOrder(c, R)[i] = x
        /\ \A i, j \in 1..Cardinality(c) : i < j => <<InOrder(c, R)[i], InOrder(c, R)[j]>> \in R
    BY <2>1, InOrderList DEF R
  <2>3. InOrder(c, R) \in [1..Cardinality(c) -> c]
    BY <2>2
  <2> QED
    BY <2>2, <2>3 DEF R
<1> HIDE DEF o, n
<1>2. 1 \in 1..n
  BY <1>1
<1>3. \A i \in 1..n : ~Before(o[i], o[1])
  <2> TAKE i \in 1..n
  <2>1. CASE i = 1
    BY <1>1, <1>2, <2>1, BeforeOrders
  <2>2. CASE i # 1
    <3>1. 1 < i
      BY <1>1, <2>2
    <3>2. Before(o[1], o[i]) /\ o[1] \in history /\ o[i] \in history
      BY <1>1, <1>2, <3>1, SortedOrders
    <3> QED
      BY <3>2, BeforeOrders
  <2> QED
    BY <2>1, <2>2
<1>4. \E r \in c : \A s \in c : ~Before(s, r)
  BY <1>1, <1>2, <1>3
<1> QED
  BY <1>4 DEF Opening

\* There is only one that is first.
LEMMA OpeningIsFirst ==
  ASSUME HistoryFits, NEW c \in SUBSET history, NEW h \in c, \A s \in c : ~Before(s, h)
  PROVE  Opening(c) = h
<1>1. Opening(c) \in c /\ ~Before(h, Opening(c)) /\ ~Before(Opening(c), h)
  BY OpeningIs
<1> QED
  BY <1>1, BeforeOrders

\* The messages of talk are rows.
LEMMA EligibleIs ==
  ASSUME HistoryFits
  PROVE  /\ Eligible \in SUBSET history /\ IsFiniteSet(Eligible)
         /\ \A r \in Eligible : r.id \in Nat /\ r.channel \in Int /\ r.at \in Int
BY FS_Subset DEF HistoryFits, Eligible

\* To be without a silence in between is passed on.
LEMMA TogetherIs ==
  ASSUME HistoryFits, NEW gap
  PROVE  /\ \A r \in Eligible : Together(r, r, gap)
         /\ \A r, s, t \in Eligible :
              Together(r, s, gap) /\ Together(s, t, gap) => Together(r, t, gap)
         /\ \A r, s \in Eligible : r.channel = s.channel /\ ~Before(r, s) => Together(r, s, gap)
<1>1. \A r \in Eligible : Together(r, r, gap)
  BY DEF Together
<1>2. \A r, s, t \in Eligible :
        Together(r, s, gap) /\ Together(s, t, gap) => Together(r, t, gap)
  BY DEF Together
<1>3. \A r, s \in Eligible : r.channel = s.channel /\ ~Before(r, s) => Together(r, s, gap)
  <2>1. \A r, s, x \in Eligible : ~Before(r, s) /\ ~Before(x, r) => ~Before(x, s)
    BY EligibleIs, NotAfter
  <2> QED
    BY <2>1 DEF Together
<1> QED
  BY <1>1, <1>2, <1>3

\* r is the next message after z.
Follows(z, r) ==
  /\ z \in Eligible /\ r \in Eligible /\ Before(z, r)
  /\ \A x \in Eligible : ~(Before(z, x) /\ Before(x, r))

\* r goes on with the talk z is of.
Joins(z, r, gap) == z.channel = r.channel /\ r.at - z.at <= gap

\* A talk goes on after z exactly with the message that follows it.
LEMMA GoesOnIs ==
  ASSUME HistoryFits, NEW gap \in Nat, NEW z, NEW r, Follows(z, r)
  PROVE  GoesOn(z, gap) <=> Joins(z, r, gap)
<1>1. z \in Eligible /\ r \in Eligible /\ Before(z, r)
  BY DEF Follows
<1>2. ASSUME Joins(z, r, gap) PROVE GoesOn(z, gap)
  BY <1>1, <1>2 DEF Joins, GoesOn
<1>3. ASSUME GoesOn(z, gap) PROVE Joins(z, r, gap)
  <2>1. PICK s \in Eligible : s.channel = z.channel /\ Before(z, s) /\ s.at - z.at <= gap
    BY <1>3 DEF GoesOn
  <2>2. s = r \/ Before(r, s)
    <3>1. ~Before(s, r) /\ s \in history /\ r \in history
      BY <1>1, <2>1, EligibleIs DEF Follows
    <3> QED
      BY <3>1, BeforeOrders
  <2>3. /\ s.channel \in Int /\ z.channel \in Int /\ r.channel \in Int
        /\ s.at \in Int /\ z.at \in Int /\ r.at \in Int
    BY <1>1, <2>1, EligibleIs
  <2>4. z.channel <= r.channel /\ (z.channel = r.channel => z.at <= r.at)
    BY <1>1, <2>3 DEF Before
  <2>5. r.channel <= s.channel /\ (r.channel = s.channel => r.at <= s.at)
    BY <2>2, <2>3 DEF Before
  <2> QED
    BY <2>1, <2>3, <2>4, <2>5 DEF Joins
<1> QED
  BY <1>2, <1>3

\* The talk up to a message grows by it.
LEMMA UpToIs ==
  ASSUME HistoryFits, NEW gap \in Nat, NEW z, NEW r, Follows(z, r)
  PROVE  /\ Joins(z, r, gap) => UpTo(r, gap) = UpTo(z, gap) \cup {r}
         /\ ~Joins(z, r, gap) => UpTo(r, gap) = {r}
<1>1. z \in Eligible /\ r \in Eligible /\ Before(z, r) /\ z \in history /\ r \in history
  BY EligibleIs DEF Follows
<1>2. \A s \in Eligible : ~Before(r, s) <=> s = r \/ ~Before(z, s)
  <2> TAKE s \in Eligible
  <2>1. s \in history /\ ~(Before(z, s) /\ Before(s, r))
    BY EligibleIs DEF Follows
  <2> QED
    BY <1>1, <2>1, BeforeOrders
<1>3. GoesOn(z, gap) <=> Joins(z, r, gap)
  BY GoesOnIs
<1>4. ASSUME NEW s \in Eligible, s # r, ~Before(z, s)
      PROVE  Together(s, r, gap) <=> Joins(z, r, gap) /\ Together(s, z, gap)
  <2>1. s \in history
    BY EligibleIs
  <2>2. ASSUME Together(s, r, gap) PROVE Joins(z, r, gap) /\ Together(s, z, gap)
    <3>1. s.channel = r.channel
      BY <2>2 DEF Together
    <3>2. /\ s.channel \in Int /\ z.channel \in Int /\ r.channel \in Int
          /\ s.at \in Int /\ z.at \in Int /\ r.at \in Int /\ z.id \in Nat /\ s.id \in Nat
      BY <1>1, EligibleIs
    <3>3. s = z \/ Before(s, z)
      BY <1>1, <1>4, <2>1, BeforeOrders
    <3>4. z.channel = r.channel
      <4>1. s.channel <= z.channel /\ z.channel <= r.channel
        BY <1>1, <3>2, <3>3 DEF Before
      <4> QED
        BY <3>1, <3>2, <4>1
    <3>5. ~Before(z, s) /\ ~Before(z, z)
      BY <1>1, <1>4, BeforeOrders
    <3>6. GoesOn(z, gap)
      BY <1>1, <2>2, <3>1, <3>4, <3>5 DEF Together
    <3>7. Joins(z, r, gap)
      BY <1>3, <3>6
    <3>8. \A x \in Eligible : Before(x, z) => Before(x, r)
      BY <1>1, EligibleIs, BeforeOrders
    <3>9. Together(s, z, gap)
      BY <2>2, <3>1, <3>4, <3>8 DEF Together
    <3> QED
      BY <3>7, <3>9
  <2>3. ASSUME Joins(z, r, gap), Together(s, z, gap) PROVE Together(s, r, gap)
    <3>1. s.channel = r.channel /\ s.channel = z.channel
      BY <2>3 DEF Joins, Together
    <3>2. \A x \in Eligible : Before(x, r) => x = z \/ Before(x, z)
      <4> TAKE x \in Eligible
      <4>1. x \in history /\ ~(Before(z, x) /\ Before(x, r))
        BY EligibleIs DEF Follows
      <4> QED
        BY <1>1, <4>1, BeforeOrders
    <3>3. GoesOn(z, gap)
      BY <1>3, <2>3
    <3> QED
      BY <2>3, <3>1, <3>2, <3>3 DEF Together
  <2> QED
    BY <2>2, <2>3
<1>5. Together(r, r, gap)
  BY <1>1, TogetherIs
<1>6. \A s : s \in UpTo(r, gap) <=> s \in Eligible /\ ~Before(r, s) /\ Together(s, r, gap)
  BY DEF UpTo
<1>7. \A s : s \in UpTo(z, gap) <=> s \in Eligible /\ ~Before(z, s) /\ Together(s, z, gap)
  BY DEF UpTo
<1>8. \A s : s \in UpTo(r, gap) <=> s = r \/ (Joins(z, r, gap) /\ s \in UpTo(z, gap))
  <2> TAKE s
  <2>1. CASE s = r
    BY <1>1, <1>2, <1>5, <1>6, <2>1
  <2>2. CASE s # r
    BY <1>2, <1>4, <1>6, <1>7, <2>2
  <2> QED
    BY <2>1, <2>2
<1> QED
  BY <1>8

\* Before the first message there is none.
LEMMA UpToFirst ==
  ASSUME HistoryFits, NEW gap \in Nat, NEW r \in Eligible, \A x \in Eligible : ~Before(x, r)
  PROVE  UpTo(r, gap) = {r}
<1>1. \A s \in Eligible : ~Before(r, s) <=> s = r
  BY EligibleIs, BeforeOrders
<1> QED
  BY <1>1, TogetherIs DEF UpTo

\* A message is among the talk up to it, which only grows.
LEMMA UpToCounts ==
  ASSUME HistoryFits, NEW p \in Settings, NEW r \in Eligible
  PROVE  /\ r \in UpTo(r, p.gap) /\ UpTo(r, p.gap) \in SUBSET Eligible
         /\ IsFiniteSet(UpTo(r, p.gap)) /\ Cardinality(UpTo(r, p.gap)) \in Nat \ {0}
<1>1. r \in UpTo(r, p.gap) /\ UpTo(r, p.gap) \in SUBSET Eligible
  BY EligibleIs, BeforeOrders, TogetherIs DEF UpTo
<1> DEFINE u == UpTo(r, p.gap)
<1> HIDE DEF u
<1>2. IsFiniteSet(u)
  BY <1>1, EligibleIs, FS_Subset DEF u
<1>3. Cardinality(u) \in Nat /\ Cardinality(u) # 0
  BY <1>1, <1>2, FS_CardinalityType, FS_EmptySet DEF u
<1> QED
  BY <1>1, <1>2, <1>3 DEF u

LEMMA SettingIs ==
  ASSUME NEW p \in Settings
  PROVE  p.gap \in Nat /\ p.min \in Nat /\ p.max \in Nat \ {0} /\ p.limit \in Nat
BY CurationAssumption

LEMMA ChunkIs ==
  ASSUME HistoryFits, NEW p \in Settings, NEW r \in Eligible
  PROVE  /\ Chunk(r, p) \in Nat
         /\ \A s \in UpTo(r, p.gap) : Chunk(s, p) \in Nat /\ Chunk(s, p) <= Chunk(r, p)
<1>1. p.gap \in Nat /\ p.max \in Nat \ {0}
  BY SettingIs
<1>2. ASSUME NEW s \in Eligible
      PROVE  /\ Cardinality(UpTo(s, p.gap)) - 1 \in Nat /\ Chunk(s, p) \in Nat
  <2>1. Cardinality(UpTo(s, p.gap)) \in Nat \ {0}
    BY UpToCounts
  <2> DEFINE n == Cardinality(UpTo(s, p.gap)) - 1
  <2>2. n \in Nat
    BY <2>1
  <2> HIDE DEF n
  <2>3. n \div p.max \in Nat
    BY <1>1, <2>2, DivIs
  <2> QED
    BY <2>2, <2>3 DEF n, Chunk
<1>3. ASSUME NEW s \in UpTo(r, p.gap)
      PROVE  Chunk(s, p) \in Nat /\ Chunk(s, p) <= Chunk(r, p)
  <2>1. s \in Eligible /\ ~Before(r, s) /\ Together(s, r, p.gap)
    BY DEF UpTo
  <2>2. UpTo(s, p.gap) \subseteq UpTo(r, p.gap)
    <3> SUFFICES ASSUME NEW t \in UpTo(s, p.gap) PROVE t \in UpTo(r, p.gap)
      OBVIOUS
    <3>1. t \in Eligible /\ ~Before(s, t) /\ Together(t, s, p.gap)
      BY DEF UpTo
    <3>2. ~Before(r, t)
      BY <2>1, <3>1, EligibleIs, NotAfter
    <3>3. Together(t, r, p.gap)
      BY <1>1, <2>1, <3>1, TogetherIs
    <3> QED
      BY <3>1, <3>2, <3>3 DEF UpTo
  <2>3. Cardinality(UpTo(s, p.gap)) <= Cardinality(UpTo(r, p.gap))
    BY <2>2, UpToCounts, FS_Subset
  <2> DEFINE m == Cardinality(UpTo(s, p.gap))
             n == Cardinality(UpTo(r, p.gap))
  <2>4. m - 1 \in Nat /\ n - 1 \in Nat /\ m - 1 <= n - 1
    <3>1. m \in Nat \ {0} /\ n \in Nat \ {0}
      BY <2>1, UpToCounts
    <3> HIDE DEF m, n
    <3> QED
      BY <2>3, <3>1 DEF m, n
  <2> HIDE DEF m, n
  <2>5. (m - 1) \div p.max <= (n - 1) \div p.max
    BY <1>1, <2>4, QuotientGrows
  <2> QED
    BY <1>2, <2>1, <2>5 DEF m, n, Chunk
<1> QED
  BY <1>2, <1>3

\* The last piece of the talk up to a message, and how many messages it is of.
Piece(z, p) == {s \in UpTo(z, p.gap) : Chunk(s, p) = Chunk(z, p)}

Nth(z, p, l) == Cardinality(UpTo(z, p.gap)) = Chunk(z, p) * p.max + l

\* How the number of messages decides the piece.
LEMMA ChunkOf ==
  ASSUME HistoryFits, NEW p \in Settings, NEW r \in Eligible, NEW q \in Nat, NEW l \in 1..p.max,
         Cardinality(UpTo(r, p.gap)) = q * p.max + l
  PROVE  Chunk(r, p) = q /\ Nth(r, p, l)
<1>1. p.max \in Nat \ {0}
  BY SettingIs
<1>2. l - 1 \in 0..(p.max - 1) /\ q * p.max \in Nat
  BY <1>1
<1>3. Cardinality(UpTo(r, p.gap)) - 1 = q * p.max + (l - 1)
  BY <1>1, <1>2
<1>4. (q * p.max + (l - 1)) \div p.max = q
  BY <1>1, <1>2, QuotientIs
<1> QED
  BY <1>3, <1>4 DEF Chunk, Nth

\* The first message of a talk begins a piece.
LEMMA PieceBegins ==
  ASSUME HistoryFits, NEW p \in Settings, NEW r \in Eligible, UpTo(r, p.gap) = {r}
  PROVE  Piece(r, p) = {r} /\ Nth(r, p, 1)
<1>1. p.max \in Nat \ {0}
  BY SettingIs
<1>2. Cardinality(UpTo(r, p.gap)) = 0 * p.max + 1
  <2>1. Cardinality(UpTo(r, p.gap)) = 1
    BY FS_Singleton
  <2> QED
    BY <1>1, <2>1
<1>3. Nth(r, p, 1)
  <2>1. 1 \in 1..p.max /\ 0 \in Nat
    BY <1>1
  <2> QED
    BY <1>2, <2>1, ChunkOf
<1> QED
  BY <1>3 DEF Piece

\* A piece that nothing later belongs to is a conversation.
LEMMA PieceLast ==
  ASSUME HistoryFits, NEW p \in Settings, NEW z \in Eligible,
         \A s \in Eligible : Before(z, s) /\ Together(z, s, p.gap) => Chunk(s, p) # Chunk(z, p)
  PROVE  Conversation(z, p) = Piece(z, p)
<1>1. p.gap \in Nat
  BY SettingIs
<1>2. ASSUME NEW s \in Eligible, ~Before(z, s), Together(s, z, p.gap)
      PROVE  Together(z, s, p.gap)
  <2>1. z.channel = s.channel
    BY <1>2 DEF Together
  <2> QED
    BY <1>1, <1>2, <2>1, TogetherIs
<1>3. \A s : s \in Conversation(z, p) <=>
        /\ s \in Eligible /\ Together(z, s, p.gap) /\ Together(s, z, p.gap)
        /\ Chunk(s, p) = Chunk(z, p)
  BY DEF Conversation
<1>4. \A s : s \in Piece(z, p) <=>
        /\ s \in Eligible /\ ~Before(z, s) /\ Together(s, z, p.gap)
        /\ Chunk(s, p) = Chunk(z, p)
  BY DEF Piece, UpTo
<1> QED
  BY <1>2, <1>3, <1>4

\* The next message joins the piece, or begins another one and closes this.
LEMMA PieceGoesOn ==
  ASSUME HistoryFits, NEW p \in Settings, NEW z, NEW r, Follows(z, r),
         NEW l \in 1..p.max, Nth(z, p, l), Joins(z, r, p.gap), l < p.max
  PROVE  Piece(r, p) = Piece(z, p) \cup {r} /\ Nth(r, p, l + 1)
<1>1. z \in Eligible /\ r \in Eligible /\ p.gap \in Nat /\ p.max \in Nat \ {0} /\ Before(z, r)
  BY SettingIs DEF Follows
<1>2. UpTo(r, p.gap) = UpTo(z, p.gap) \cup {r}
  BY <1>1, UpToIs
<1>3. r \notin UpTo(z, p.gap)
  BY <1>1 DEF UpTo
<1> DEFINE n == Cardinality(UpTo(z, p.gap))
           q == Chunk(z, p)
<1>4. n \in Nat /\ Cardinality(UpTo(r, p.gap)) = n + 1
  BY <1>1, <1>2, <1>3, UpToCounts, FS_AddElement
<1>5. q \in Nat /\ n = q * p.max + l
  BY <1>1, ChunkIs DEF Nth
<1>6. q * p.max \in Nat
  BY <1>1, <1>5
<1> HIDE DEF n, q
<1>7. l + 1 \in 1..p.max /\ Cardinality(UpTo(r, p.gap)) = q * p.max + (l + 1)
  BY <1>1, <1>4, <1>5, <1>6
<1>8. Chunk(r, p) = q /\ Nth(r, p, l + 1)
  BY <1>1, <1>5, <1>7, ChunkOf
<1> QED
  BY <1>2, <1>8 DEF Piece, q

LEMMA PieceEnds ==
  ASSUME HistoryFits, NEW p \in Settings, NEW z, NEW r, Follows(z, r),
         NEW l \in 1..p.max, Nth(z, p, l), ~Joins(z, r, p.gap) \/ l = p.max
  PROVE  Piece(r, p) = {r} /\ Nth(r, p, 1) /\ Conversation(z, p) = Piece(z, p)
<1>1. /\ z \in Eligible /\ r \in Eligible /\ p.gap \in Nat /\ p.max \in Nat \ {0} /\ Before(z, r)
      /\ z \in history /\ r \in history
  BY SettingIs, EligibleIs DEF Follows
<1>2. \A s \in Eligible : Before(z, s) => s \in history /\ ~Before(s, r)
  BY EligibleIs DEF Follows
<1>3. CASE ~Joins(z, r, p.gap)
  <2>1. UpTo(r, p.gap) = {r}
    BY <1>1, <1>3, UpToIs
  <2>2. ~GoesOn(z, p.gap)
    BY <1>1, <1>3, GoesOnIs
  <2>3. \A s \in Eligible : Before(z, s) => ~Together(z, s, p.gap)
    BY <1>1, <2>2, BeforeOrders DEF Together
  <2> QED
    BY <1>1, <2>1, <2>3, PieceBegins, PieceLast
<1>4. CASE Joins(z, r, p.gap) /\ l = p.max
  <2>1. UpTo(r, p.gap) = UpTo(z, p.gap) \cup {r}
    BY <1>1, <1>4, UpToIs
  <2>2. r \notin UpTo(z, p.gap)
    BY <1>1 DEF UpTo
  <2> DEFINE n == Cardinality(UpTo(z, p.gap))
             q == Chunk(z, p)
  <2>3. n \in Nat /\ Cardinality(UpTo(r, p.gap)) = n + 1
    BY <1>1, <2>1, <2>2, UpToCounts, FS_AddElement
  <2>4. q \in Nat /\ n = q * p.max + l
    BY <1>1, ChunkIs DEF Nth
  <2>5. q + 1 \in Nat /\ 1 \in 1..p.max /\ (q + 1) * p.max = q * p.max + p.max /\ q * p.max \in Nat
    BY <1>1, <2>4
  <2> HIDE DEF n
  <2>6. Cardinality(UpTo(r, p.gap)) = (q + 1) * p.max + 1
    BY <1>1, <1>4, <2>3, <2>4, <2>5
  <2>7. Chunk(r, p) = q + 1 /\ Nth(r, p, 1)
    <3> HIDE DEF q
    <3> QED
      BY <1>1, <2>5, <2>6, ChunkOf
  <2>8. Piece(r, p) = {r}
    <3>1. \A s \in UpTo(z, p.gap) : Chunk(s, p) # q + 1
      <4>1. \A s \in UpTo(z, p.gap) : Chunk(s, p) \in Nat /\ Chunk(s, p) <= q
        BY <1>1, ChunkIs
      <4> HIDE DEF q
      <4> QED
        BY <2>4, <4>1
    <3> QED
      BY <2>1, <2>7, <3>1 DEF Piece
  <2>9. \A s \in Eligible : Before(z, s) /\ Together(z, s, p.gap) => Chunk(s, p) # q
    <3> SUFFICES ASSUME NEW s \in Eligible, Before(z, s), Together(z, s, p.gap), Chunk(s, p) = q
                 PROVE  FALSE
      OBVIOUS
    <3>1. s \in history /\ ~Before(s, r)
      BY <1>2
    <3>2. \A x \in Eligible : ~Before(x, r) => ~Before(x, z)
      BY <1>1, EligibleIs, BeforeOrders
    <3>3. r.channel = z.channel
      BY <1>4 DEF Joins
    <3>4. Together(r, s, p.gap)
      BY <3>2, <3>3 DEF Together
    <3>5. r \in UpTo(s, p.gap)
      BY <1>1, <3>1, <3>4 DEF UpTo
    <3>6. Chunk(r, p) <= Chunk(s, p)
      BY <3>5, ChunkIs
    <3> HIDE DEF q
    <3> QED
      BY <2>4, <2>7, <3>6
  <2> QED
    BY <1>1, <2>7, <2>8, <2>9, PieceLast
<1> QED
  BY <1>3, <1>4

-----------------------------------------------------------------------------
(* The conversations of the reference *)

Conversations(p) ==
  {c \in {Conversation(r, p) : r \in Eligible} : Cardinality(c) >= p.min}

\* A message is in one conversation.
LEMMA ConversationIs ==
  ASSUME HistoryFits, NEW p \in Settings, NEW r \in Eligible
  PROVE  /\ r \in Conversation(r, p)
         /\ Conversation(r, p) \in SUBSET Eligible /\ Conversation(r, p) \in SUBSET history
         /\ \A f \in Conversation(r, p) : Conversation(f, p) = Conversation(r, p)
<1>1. p.gap \in Nat
  BY SettingIs
<1>2. r \in Conversation(r, p)
  BY <1>1, TogetherIs DEF Conversation
<1>3. Conversation(r, p) \in SUBSET Eligible
  BY DEF Conversation
<1>4. ASSUME NEW f \in Conversation(r, p) PROVE Conversation(f, p) = Conversation(r, p)
  <2>1. /\ f \in Eligible /\ Chunk(f, p) = Chunk(r, p)
        /\ Together(r, f, p.gap) /\ Together(f, r, p.gap)
    BY DEF Conversation
  <2>2. \A s \in Eligible : /\ Together(f, s, p.gap) <=> Together(r, s, p.gap)
                            /\ Together(s, f, p.gap) <=> Together(s, r, p.gap)
    BY <1>1, <2>1, TogetherIs
  <2> QED
    BY <2>1, <2>2 DEF Conversation
<1> QED
  BY <1>2, <1>3, <1>4, EligibleIs

\* The conversations are apart, and begin one after another.
LEMMA ConversationsAre ==
  ASSUME HistoryFits, NEW p \in Settings
  PROVE  /\ \A c \in Conversations(p) :
              /\ c \in SUBSET Eligible /\ Opening(c) \in c /\ Opening(c) \in Eligible
              /\ \A s \in c : ~Before(s, Opening(c)) /\ c = Conversation(s, p)
         /\ IsFiniteSet(Conversations(p)) /\ Cardinality(Conversations(p)) \in Nat
         /\ StrictOrder(Conversations(p), Following(Conversations(p)))
<1> DEFINE all == Conversations(p)
<1>1. ASSUME NEW c \in all
      PROVE  /\ c \in SUBSET Eligible /\ Opening(c) \in c /\ Opening(c) \in Eligible
             /\ \A s \in c : ~Before(s, Opening(c)) /\ c = Conversation(s, p)
  <2>1. PICK r \in Eligible : c = Conversation(r, p)
    BY DEF Conversations
  <2>2. c \in SUBSET Eligible /\ c \in SUBSET history /\ c # {}
        /\ \A s \in c : c = Conversation(s, p)
    BY <2>1, ConversationIs
  <2>3. Opening(c) \in c /\ \A s \in c : ~Before(s, Opening(c))
    BY <2>2, OpeningIs
  <2> QED
    BY <2>2, <2>3
<1>2. IsFiniteSet(all) /\ Cardinality(all) \in Nat
  <2>1. IsFiniteSet({Conversation(r, p) : r \in Eligible})
    <3> DEFINE f == [r \in Eligible |-> Conversation(r, p)]
    <3>1. {Conversation(r, p) : r \in Eligible} = {f[r] : r \in Eligible}
      OBVIOUS
    <3> HIDE DEF f
    <3> QED
      BY <3>1, EligibleIs, FiniteImage
  <2>2. all \subseteq {Conversation(r, p) : r \in Eligible}
    BY DEF Conversations
  <2> QED
    BY <2>1, <2>2, FS_Subset, FS_CardinalityType
<1>3. \A c, d : <<c, d>> \in Following(all) <=>
        c \in all /\ d \in all /\ Before(Opening(c), Opening(d))
  BY DEF Following
<1>4. \A c \in all : Opening(c) \in history
  BY <1>1, EligibleIs
<1>5. \A c, d \in all : c # d => Opening(c) # Opening(d)
  BY <1>1
<1> HIDE DEF all
<1>6. StrictOrder(all, Following(all))
  BY <1>3, <1>4, <1>5, BeforeOrders DEF StrictOrder
<1> QED
  BY <1>1, <1>2, <1>6 DEF all

Earlier(h, p) == {c \in Conversations(p) : Before(Opening(c), h)}

\* The place of a conversation among them.
LEMMA PlaceOf ==
  ASSUME HistoryFits, NEW p \in Settings, NEW c \in Conversations(p)
  PROVE  /\ Cardinality(Earlier(Opening(c), p)) + 1 \in 1..Cardinality(Conversations(p))
         /\ InOrder(Conversations(p), Following(Conversations(p)))
              [Cardinality(Earlier(Opening(c), p)) + 1] = c
<1> DEFINE all == Conversations(p)
           R == Following(all)
<1>1. IsFiniteSet(all) /\ StrictOrder(all, R)
  BY ConversationsAre
<1>2. {d \in all : <<d, c>> \in R} = Earlier(Opening(c), p)
  BY DEF Following, Earlier
<1>3. c \in all
  OBVIOUS
<1> HIDE DEF all, R
<1>4. \A x \in all :
        LET place == Cardinality({y \in all : <<y, x>> \in R}) + 1
        IN  place \in 1..Cardinality(all) /\ InOrder(all, R)[place] = x
  BY <1>1, InOrderIs
<1>5. /\ Cardinality({y \in all : <<y, c>> \in R}) + 1 \in 1..Cardinality(all)
      /\ InOrder(all, R)[Cardinality({y \in all : <<y, c>> \in R}) + 1] = c
  BY <1>3, <1>4
<1> QED
  BY <1>2, <1>5 DEF all, R

-----------------------------------------------------------------------------
(* What the loop holds *)

\* The messages from one to another, of all channels between.
Between(h, z) == {x \in Eligible : ~Before(x, h) /\ ~Before(z, x)}

\* The transcript from one message to another.
Transcript(h, z) ==
  [id |-> <<"chat", h.channel, h.id, z.id>>, text |-> Ids(Between(h, z)), topics |-> {}]

Transcripts == {Transcript(h, z) : h \in Eligible, z \in Eligible}

States ==
  [sources : Seq(Transcripts), buffer : Seq(Eligible), channel : Int, prev : Int]

\* What was put out are the first conversations.
SourcesFit(sources, p) ==
  /\ sources \in Seq(Transcripts) /\ Len(sources) <= p.limit
  /\ Len(sources) <= Cardinality(Conversations(p))
  /\ \A j \in 1..Len(sources) :
       sources[j].text = Ids(InOrder(Conversations(p), Following(Conversations(p)))[j])

\* The buffer is the piece of talk up to z.
OpenAt(g, z, p) ==
  /\ g.channel = z.channel /\ g.prev = z.at
  /\ Len(g.buffer) \in 1..p.max /\ g.buffer[Len(g.buffer)] = z
  /\ ToSet(g.buffer) = Between(g.buffer[1], z) /\ ToSet(g.buffer) = Piece(z, p)
  /\ Cardinality(ToSet(g.buffer)) = Len(g.buffer) /\ Nth(z, p, Len(g.buffer))
  /\ Len(g.sources) = Cardinality(Earlier(g.buffer[1], p))

Opened(z, p) == {c \in Conversations(p) : ~Before(z, Opening(c))}

\* A conversation that is closed is the next one of them, unless it is too short.
LEMMA CloseIs ==
  ASSUME HistoryFits, NEW p \in Settings, NEW g \in States, NEW z \in Eligible,
         SourcesFit(g.sources, p), ~Full(g, p), OpenAt(g, z, p),
         Conversation(z, p) = Piece(z, p)
  PROVE  /\ Close(g, p) \in States /\ Close(g, p).buffer = <<>>
         /\ SourcesFit(Close(g, p).sources, p)
         /\ Len(Close(g, p).sources) = Cardinality(Opened(z, p))
<1> DEFINE b == g.buffer
           h == b[1]
           B == ToSet(b)
           k == Len(g.sources)
           all == Conversations(p)
<1>1. /\ b \in Seq(Eligible) /\ g.sources \in Seq(Transcripts)
      /\ g = [sources |-> g.sources, buffer |-> b, channel |-> g.channel, prev |-> g.prev]
      /\ g.channel \in Int /\ g.prev \in Int
  BY DEF States
<1>2. /\ p.min \in Nat /\ p.max \in Nat \ {0} /\ p.limit \in Nat
  BY SettingIs
<1>3. Len(b) \in Nat \ {0} /\ k \in Nat /\ k < p.limit /\ b # <<>>
  BY <1>1, <1>2 DEF Full, SourcesFit, OpenAt
<1>4. h \in B /\ z \in B /\ B \in SUBSET Eligible /\ h \in Eligible
  <2>1. 1 \in 1..Len(b) /\ Len(b) \in 1..Len(b) /\ b[Len(b)] = z
    BY <1>3 DEF OpenAt
  <2> QED
    BY <1>1, <2>1, ToSetIs
<1>5. B = Conversation(z, p) /\ B = Between(h, z) /\ Cardinality(B) = Len(b)
      /\ k = Cardinality(Earlier(h, p))
  BY DEF OpenAt
<1>6. Opening(B) = h
  <2>1. B \in SUBSET history /\ \A s \in B : ~Before(s, h)
    BY <1>4, <1>5, EligibleIs DEF Between
  <2> HIDE DEF B, h
  <2> QED
    BY <1>4, <2>1, OpeningIsFirst
<1>7. B \in all <=> Len(b) >= p.min
  <2>1. \A c \in all : Cardinality(c) >= p.min
    BY DEF Conversations
  <2>2. Cardinality(B) >= p.min => B \in all
    BY <1>5 DEF Conversations
  <2> QED
    BY <1>5, <2>1, <2>2
<1>8. \A c \in all : ~Before(z, Opening(c)) <=> c \in Earlier(h, p) \/ c = B
  <2> TAKE c \in all
  <2>1. /\ Opening(c) \in Eligible /\ Opening(c) \in history /\ h \in history /\ z \in history
        /\ c = Conversation(Opening(c), p)
    BY <1>4, ConversationsAre, EligibleIs
  <2>2. ~Before(z, h)
    BY <1>4, <1>5 DEF Between
  <2>3. ASSUME c \in Earlier(h, p) PROVE ~Before(z, Opening(c))
    <3>1. Before(Opening(c), h)
      BY <2>3 DEF Earlier
    <3> HIDE DEF h
    <3> QED
      BY <2>1, <2>2, <3>1, BeforeOrders
  <2>4. ASSUME c = B PROVE ~Before(z, Opening(c))
    BY <1>6, <2>2, <2>4
  <2>5. ASSUME ~Before(z, Opening(c)), c \notin Earlier(h, p) PROVE c = B
    <3>1. ~Before(Opening(c), h)
      BY <2>5 DEF Earlier
    <3>2. Opening(c) \in B
      BY <1>5, <2>1, <2>5, <3>1 DEF Between
    <3>3. Conversation(Opening(c), p) = Conversation(z, p)
      BY <1>5, <3>2, ConversationIs
    <3> QED
      BY <1>5, <2>1, <3>3
  <2> QED
    BY <2>3, <2>4, <2>5
<1>9. B \notin Earlier(h, p)
  <2>1. ~Before(h, h)
    BY <1>4, EligibleIs, BeforeOrders
  <2> QED
    BY <1>6, <2>1 DEF Earlier
<1>10. IsFiniteSet(Earlier(h, p)) /\ IsFiniteSet(Opened(z, p))
       /\ Cardinality(Opened(z, p)) <= Cardinality(all) /\ Cardinality(all) \in Nat
  <2>1. IsFiniteSet(all) /\ Cardinality(all) \in Nat
    BY ConversationsAre
  <2>2. Earlier(h, p) \subseteq all /\ Opened(z, p) \subseteq all
    BY DEF Earlier, Opened
  <2> HIDE DEF all
  <2> QED
    BY <2>1, <2>2, FS_Subset
<1> DEFINE src == Transcript(h, z)
<1>11. src \in Transcripts /\ src = Flushed(b) /\ src.text = Ids(B)
  <2>1. Head(b) = h /\ Last(b) = z
    BY <1>1, <1>3 DEF Last, OpenAt
  <2>2. src.text = Ids(Between(h, z))
    BY DEF Transcript
  <2>3. h.channel = Head(b).channel
    BY <2>1
  <2>4. Flushed(b) = src
    BY <1>5, <2>1 DEF Flushed, Transcript
  <2> QED
    BY <1>4, <1>5, <2>2, <2>4 DEF Transcripts
<1>12. CASE B \in all
  <2>1. Opened(z, p) = Earlier(h, p) \cup {B}
    <3>1. Earlier(h, p) \subseteq all
      BY DEF Earlier
    <3> QED
      BY <1>8, <1>12, <3>1 DEF Opened
  <2>2. Cardinality(Opened(z, p)) = k + 1
    <3> HIDE DEF B, h
    <3> QED
      BY <1>5, <1>9, <1>10, <2>1, FS_AddElement
  <2>3. InOrder(all, Following(all))[k + 1] = B
    <3>1. /\ Cardinality(Earlier(Opening(B), p)) + 1 \in 1..Cardinality(all)
          /\ InOrder(all, Following(all))[Cardinality(Earlier(Opening(B), p)) + 1] = B
      BY <1>12, PlaceOf
    <3> QED
      BY <1>5, <1>6, <3>1
  <2> DEFINE new == Append(g.sources, src)
  <2>4. Close(g, p) = [sources |-> new, buffer |-> <<>>, channel |-> g.channel, prev |-> g.prev]
    <3>1. Close(g, p) = [g EXCEPT !.sources = Append(@, Flushed(b)), !.buffer = <<>>]
      BY <1>3, <1>7, <1>12 DEF Close
    <3> QED
      BY <1>1, <1>11, <3>1
  <2>5. /\ new \in Seq(Transcripts) /\ Len(new) = k + 1 /\ new[k + 1] = src
        /\ \A j \in 1..k : new[j] = g.sources[j]
    BY <1>1, <1>11
  <2> HIDE DEF new, src
  <2>6. k + 1 <= p.limit /\ k + 1 <= Cardinality(all)
    BY <1>2, <1>3, <1>10, <2>2
  <2>7. ASSUME NEW j \in 1..(k + 1)
        PROVE  new[j].text = Ids(InOrder(all, Following(all))[j])
    <3>1. CASE j = k + 1
      BY <1>11, <2>3, <2>5, <3>1
    <3>2. CASE j # k + 1
      <4>1. j \in 1..k
        BY <1>3, <3>2
      <4> QED
        BY <2>5, <4>1 DEF SourcesFit
    <3> QED
      BY <3>1, <3>2
  <2>8. SourcesFit(new, p)
    BY <2>5, <2>6, <2>7 DEF SourcesFit
  <2>9. Close(g, p) \in States
    BY <1>1, <2>4, <2>5 DEF States
  <2> QED
    BY <2>2, <2>4, <2>5, <2>8, <2>9
<1>13. CASE B \notin all
  <2>1. Opened(z, p) = Earlier(h, p)
    BY <1>8, <1>13 DEF Opened, Earlier
  <2>2. Close(g, p) = [sources |-> g.sources, buffer |-> <<>>, channel |-> g.channel, prev |-> g.prev]
    <3>1. Close(g, p) = [g EXCEPT !.buffer = <<>>]
      BY <1>1, <1>2, <1>3, <1>7, <1>13 DEF Close
    <3> QED
      BY <1>1, <3>1
  <2>3. Close(g, p) \in States
    BY <1>1, <2>2 DEF States
  <2> QED
    BY <1>5, <2>1, <2>2, <2>3
<1> QED
  BY <1>12, <1>13

\* What the loop holds after the messages in read.
HeldFits(g, read, p) ==
  /\ g \in States /\ SourcesFit(g.sources, p)
  /\ \/ Full(g, p)
     \/ read = {} /\ g.buffer = <<>> /\ g.sources = <<>>
     \/ \E z \in read : (\A x \in read : ~Before(z, x)) /\ OpenAt(g, z, p)

Fed(g, r) ==
  [sources |-> g.sources, buffer |-> Append(g.buffer, r), channel |-> r.channel, prev |-> r.at]

LEMMA FedIs ==
  ASSUME HistoryFits, NEW g \in States, NEW r \in Eligible
  PROVE  /\ Fed(g, r) \in States
         /\ Fed(g, r) = [g EXCEPT !.buffer = Append(@, r), !.channel = r.channel, !.prev = r.at]
<1>1. /\ g = [sources |-> g.sources, buffer |-> g.buffer, channel |-> g.channel, prev |-> g.prev]
      /\ g.sources \in Seq(Transcripts) /\ g.buffer \in Seq(Eligible)
  BY DEF States
<1>2. r.channel \in Int /\ r.at \in Int
  BY EligibleIs
<1>3. Append(g.buffer, r) \in Seq(Eligible)
  BY <1>1
<1>4. Fed(g, r) \in States
  BY <1>1, <1>2, <1>3 DEF Fed, States
<1>5. Fed(g, r) = [g EXCEPT !.buffer = Append(@, r), !.channel = r.channel, !.prev = r.at]
  <2> DEFINE a == g.sources
             b == g.buffer
             c == g.channel
             d == g.prev
             e == Append(b, r)
             x == r.channel
             y == r.at
  <2>1. g = [sources |-> a, buffer |-> b, channel |-> c, prev |-> d]
    BY <1>1
  <2>2. Fed(g, r) = [sources |-> a, buffer |-> e, channel |-> x, prev |-> y]
    BY DEF Fed
  <2>3. [g EXCEPT !.buffer = e, !.channel = x, !.prev = y]
          = [sources |-> a, buffer |-> e, channel |-> x, prev |-> y]
    <3> HIDE DEF a, b, c, d, e, x, y
    <3>1. [g EXCEPT !.buffer = e] = [sources |-> a, buffer |-> e, channel |-> c, prev |-> d]
      BY <2>1
    <3>2. [[sources |-> a, buffer |-> e, channel |-> c, prev |-> d] EXCEPT !.channel = x]
            = [sources |-> a, buffer |-> e, channel |-> x, prev |-> d]
      OBVIOUS
    <3>3. [[sources |-> a, buffer |-> e, channel |-> x, prev |-> d] EXCEPT !.prev = y]
            = [sources |-> a, buffer |-> e, channel |-> x, prev |-> y]
      OBVIOUS
    <3>4. [g EXCEPT !.buffer = e, !.channel = x, !.prev = y]
            = [[[g EXCEPT !.buffer = e] EXCEPT !.channel = x] EXCEPT !.prev = y]
      BY <2>1
    <3> QED
      BY <3>1, <3>2, <3>3, <3>4
  <2> QED
    BY <2>2, <2>3
<1> QED
  BY <1>4, <1>5

\* A message that begins a piece is alone in the buffer.
LEMMA BufferBegins ==
  ASSUME HistoryFits, NEW p \in Settings, NEW g \in States, NEW r \in Eligible,
         g.buffer = <<>>, Piece(r, p) = {r}, Nth(r, p, 1),
         Len(g.sources) = Cardinality(Earlier(r, p))
  PROVE  OpenAt(Fed(g, r), r, p)
<1>1. Append(<<>>, r) = <<r>> /\ Len(<<r>>) = 1 /\ <<r>>[1] = r /\ ToSet(<<r>>) = {r}
  BY DEF ToSet
<1>2. Between(r, r) = {r}
  BY EligibleIs, BeforeOrders DEF Between
<1>3. 1 \in 1..p.max
  BY SettingIs
<1>4. Cardinality({r}) = 1
  BY FS_Singleton
<1>5. /\ Fed(g, r).buffer = <<r>> /\ Fed(g, r).sources = g.sources
      /\ Fed(g, r).channel = r.channel /\ Fed(g, r).prev = r.at
  BY <1>1 DEF Fed
<1> QED
  BY <1>1, <1>2, <1>3, <1>4, <1>5 DEF OpenAt

\* A message that goes on with it is the last of the buffer.
LEMMA BufferGrows ==
  ASSUME HistoryFits, NEW p \in Settings, NEW g \in States, NEW z, NEW r, Follows(z, r),
         OpenAt(g, z, p), Piece(r, p) = Piece(z, p) \cup {r},
         Nth(r, p, Len(g.buffer) + 1), Len(g.buffer) < p.max
  PROVE  OpenAt(Fed(g, r), r, p)
<1> DEFINE b == g.buffer
           n == Len(b)
           h == b[1]
           new == Append(b, r)
<1>1. z \in Eligible /\ r \in Eligible /\ Before(z, r) /\ z \in history /\ r \in history
  BY EligibleIs DEF Follows
<1>2. b \in Seq(Eligible) /\ n \in Nat /\ n \in 1..p.max /\ p.max \in Nat \ {0}
  BY SettingIs DEF States, OpenAt
<1>3. /\ new \in Seq(Eligible) /\ Len(new) = n + 1 /\ new[n + 1] = r
      /\ \A i \in 1..n : new[i] = b[i]
  BY <1>1, <1>2
<1>4. n + 1 \in 1..p.max /\ new[1] = h /\ h \in Eligible /\ h \in history
  BY <1>2, <1>3, EligibleIs
<1>5. \A x \in Eligible : ~Before(r, x) <=> x = r \/ ~Before(z, x)
  <2> TAKE x \in Eligible
  <2>1. x \in history /\ ~(Before(z, x) /\ Before(x, r))
    BY EligibleIs DEF Follows
  <2> QED
    BY <1>1, <2>1, BeforeOrders
<1>6. ToSet(b) = Between(h, z) /\ h \in ToSet(b)
  <2>1. 1 \in 1..n
    BY <1>2
  <2> QED
    BY <1>2, <2>1, ToSetIs DEF OpenAt
<1>7. ~Before(r, h)
  <2>1. ~Before(z, h)
    BY <1>6 DEF Between
  <2> HIDE DEF h
  <2> QED
    BY <1>4, <1>5, <2>1
<1>8. Between(h, r) = Between(h, z) \cup {r}
  <2> HIDE DEF h
  <2> QED
    BY <1>1, <1>5, <1>7 DEF Between
<1>9. ToSet(new) = ToSet(b) \cup {r}
  <2> HIDE DEF new, b, n
  <2>1. \A x : x \in ToSet(new) <=> \E i \in 1..(n + 1) : new[i] = x
    BY <1>3, ToSetIs
  <2>2. \A x : x \in ToSet(b) <=> \E i \in 1..n : b[i] = x
    BY <1>2, ToSetIs DEF n
  <2>3. \A i \in 1..(n + 1) : i = n + 1 \/ i \in 1..n
    BY <1>2
  <2>4. n + 1 \in 1..(n + 1) /\ \A i \in 1..n : i \in 1..(n + 1)
    BY <1>2
  <2> QED
    BY <1>3, <2>1, <2>2, <2>3, <2>4
<1>10. r \notin ToSet(b) /\ IsFiniteSet(ToSet(b))
  <2>1. r \notin Between(h, z)
    BY <1>1 DEF Between
  <2>2. Between(h, z) \subseteq Eligible
    BY DEF Between
  <2> QED
    BY <1>6, <2>1, <2>2, EligibleIs, FS_Subset
<1>11. Cardinality(ToSet(new)) = n + 1
  <2>1. Cardinality(ToSet(b)) = n
    BY DEF OpenAt
  <2> HIDE DEF new, b, n
  <2> QED
    BY <1>9, <1>10, <2>1, FS_AddElement
<1>12. ToSet(b) = Piece(z, p) /\ Len(g.sources) = Cardinality(Earlier(h, p))
  BY DEF OpenAt
<1>13. /\ Fed(g, r).buffer = new /\ Fed(g, r).sources = g.sources
       /\ Fed(g, r).channel = r.channel /\ Fed(g, r).prev = r.at
  BY DEF Fed
<1> HIDE DEF new
<1> QED
  BY <1>3, <1>4, <1>6, <1>8, <1>9, <1>11, <1>12, <1>13 DEF OpenAt

\* One turn of the loop.
LEMMA FeedIs ==
  ASSUME HistoryFits, NEW p \in Settings, NEW read \in SUBSET Eligible, NEW g, HeldFits(g, read, p),
         NEW r \in Eligible, r \notin read, \A y \in read : Before(y, r),
         \A y \in Eligible : y \in read \/ y = r \/ Before(r, y)
  PROVE  HeldFits(Feed(g, r, p), read \cup {r}, p)
<1>1. /\ g \in States /\ SourcesFit(g.sources, p) /\ r \in history /\ r.said /\ r.channel \notin Excluded
      /\ p.gap \in Nat /\ p.max \in Nat \ {0}
      /\ r.channel \in Int /\ r.at \in Int
  BY EligibleIs, SettingIs DEF HeldFits, Eligible
<1>2. CASE Full(g, p)
  BY <1>1, <1>2 DEF Feed, HeldFits
<1>3. ASSUME ~Full(g, p), NEW h \in States, h = IF Breaks(g, r, p) THEN Close(g, p) ELSE g, ~Full(h, p)
      PROVE  Feed(g, r, p) = Fed(h, r)
  <2>1. Feed(g, r, p) = [h EXCEPT !.buffer = Append(@, r), !.channel = r.channel, !.prev = r.at]
    BY <1>1, <1>3 DEF Feed
  <2> QED
    BY <1>3, <2>1, FedIs
<1>4. \A x \in read \cup {r} : ~Before(r, x)
  BY <1>1, EligibleIs, BeforeOrders
<1>5. ASSUME NEW h \in States, SourcesFit(h.sources, p), OpenAt(Fed(h, r), r, p)
      PROVE  HeldFits(Fed(h, r), read \cup {r}, p)
  <2>1. Fed(h, r) \in States /\ Fed(h, r).sources = h.sources
    BY FedIs DEF Fed
  <2> QED
    BY <1>4, <1>5, <2>1 DEF HeldFits
<1>6. CASE ~Full(g, p) /\ read = {} /\ g.buffer = <<>> /\ g.sources = <<>>
  <2>1. \A x \in Eligible : ~Before(x, r)
    BY <1>1, <1>6, EligibleIs, BeforeOrders
  <2>2. Piece(r, p) = {r} /\ Nth(r, p, 1)
    BY <1>1, <2>1, UpToFirst, PieceBegins
  <2>3. Earlier(r, p) = {}
    BY <2>1, ConversationsAre DEF Earlier
  <2>4. Len(g.sources) = Cardinality(Earlier(r, p))
    BY <1>6, <2>3, FS_EmptySet
  <2>5. Close(g, p) = g
    BY <1>1, <1>6 DEF Close, States
  <2>6. Feed(g, r, p) = Fed(g, r)
    BY <1>1, <1>3, <1>6, <2>5
  <2>7. OpenAt(Fed(g, r), r, p)
    BY <1>1, <1>6, <2>2, <2>4, BufferBegins
  <2> QED
    BY <1>1, <1>5, <2>6, <2>7
<1>7. ASSUME ~Full(g, p), NEW z \in read, \A x \in read : ~Before(z, x), OpenAt(g, z, p)
      PROVE  HeldFits(Feed(g, r, p), read \cup {r}, p)
  <2> DEFINE l == Len(g.buffer)
  <2>1. Follows(z, r)
    <3>1. \A x \in Eligible : ~(Before(z, x) /\ Before(x, r))
      BY <1>1, <1>7, EligibleIs, BeforeOrders
    <3> QED
      BY <1>7, <3>1 DEF Follows
  <2>2. z \in Eligible /\ z.channel \in Int /\ z.at \in Int /\ l \in 1..p.max /\ Nth(z, p, l)
    BY <1>7, EligibleIs DEF OpenAt
  <2>3. Breaks(g, r, p) <=> ~Joins(z, r, p.gap) \/ l = p.max
    <3>1. g.channel = z.channel /\ g.prev = z.at
      BY <1>7 DEF OpenAt
    <3>2. l >= p.max <=> l = p.max
      BY <1>1, <2>2
    <3>3. r.at - z.at > p.gap <=> ~(r.at - z.at <= p.gap)
      BY <1>1, <2>2
    <3> QED
      BY <3>1, <3>2, <3>3 DEF Breaks, Joins
  <2>4. CASE Breaks(g, r, p)
    <3>1. Piece(r, p) = {r} /\ Nth(r, p, 1) /\ Conversation(z, p) = Piece(z, p)
      <4> HIDE DEF l
      <4> QED
        BY <2>1, <2>2, <2>3, <2>4, PieceEnds
    <3> DEFINE h == Close(g, p)
    <3>2. /\ h \in States /\ h.buffer = <<>> /\ SourcesFit(h.sources, p)
          /\ Len(h.sources) = Cardinality(Opened(z, p))
      BY <1>1, <1>7, <2>2, <3>1, CloseIs
    <3>3. Opened(z, p) = Earlier(r, p)
      <4>1. ASSUME NEW c \in Conversations(p) PROVE ~Before(z, Opening(c)) <=> Before(Opening(c), r)
        <5>1. Opening(c) \in Eligible /\ Opening(c) \in history /\ z \in history /\ Before(z, r)
          BY <2>1, <2>2, ConversationsAre, EligibleIs DEF Follows
        <5>2. ~(Before(z, Opening(c)) /\ Before(Opening(c), r))
          BY <2>1, <5>1 DEF Follows
        <5> QED
          BY <1>1, <5>1, <5>2, BeforeOrders
      <4> QED
        BY <4>1 DEF Opened, Earlier
    <3>4. CASE Full(h, p)
      <4>1. Feed(g, r, p) = h
        BY <1>1, <1>7, <2>4, <3>4 DEF Feed
      <4> QED
        BY <3>2, <3>4, <4>1 DEF HeldFits
    <3>5. CASE ~Full(h, p)
      <4>1. Feed(g, r, p) = Fed(h, r)
        BY <1>3, <1>7, <2>4, <3>2, <3>5
      <4>2. OpenAt(Fed(h, r), r, p)
        <5> HIDE DEF h
        <5> QED
          BY <3>1, <3>2, <3>3, BufferBegins
      <4> QED
        BY <1>5, <3>2, <4>1, <4>2
    <3> QED
      BY <3>4, <3>5
  <2>5. CASE ~Breaks(g, r, p)
    <3>1. Joins(z, r, p.gap) /\ l < p.max
      BY <1>1, <2>2, <2>3, <2>5
    <3>2. Piece(r, p) = Piece(z, p) \cup {r} /\ Nth(r, p, l + 1)
      <4> HIDE DEF l
      <4> QED
        BY <2>1, <2>2, <3>1, PieceGoesOn
    <3>3. Feed(g, r, p) = Fed(g, r)
      BY <1>1, <1>3, <1>7, <2>5
    <3>4. OpenAt(Fed(g, r), r, p)
      BY <1>1, <1>7, <2>1, <3>1, <3>2, BufferGrows
    <3> QED
      BY <1>1, <1>5, <3>3, <3>4
  <2> QED
    BY <2>4, <2>5
<1> QED
  BY <1>2, <1>6, <1>7 DEF HeldFits

\* The loop ends with every message read.
LEMMA LoopIs ==
  ASSUME HistoryFits, NEW p \in Settings
  PROVE  \E g : /\ HeldFits(g, Eligible, p)
               /\ GroupRows(history, p) = IF Full(g, p) THEN g.sources ELSE Close(g, p).sources
<1> DEFINE row == InOrder(history, Sorted(history))
           n == Cardinality(history)
           turn(f, i) == IF i = 0 THEN NoSources ELSE Feed(f[i - 1], row[i], p)
           body(m, f) == [i \in 0..m |-> turn(f, i)]
           held == CHOOSE f : f = body(n, f)
           last == held[n]
<1>1. GroupRows(history, p) = IF Full(last, p) THEN last.sources ELSE Close(last, p).sources
  BY DEF GroupRows
<1>2. /\ n \in Nat
      /\ \A i \in 1..n : row[i] \in history
      /\ \A x \in history : \E i \in 1..n : row[i] = x
      /\ \A i, j \in 1..n : i < j => Before(row[i], row[j])
      /\ \A i, j \in 1..n : row[i] = row[j] => i = j
  <2> DEFINE R == Sorted(history)
  <2>1. StrictOrder(history, R) /\ IsFiniteSet(history)
        /\ \A x, y : <<x, y>> \in R => Before(x, y)
    <3>1. history \in SUBSET history
      OBVIOUS
    <3> QED
      BY <3>1, SortedOrders
  <2> HIDE DEF R
  <2>2. /\ InOrder(history, R) \in Seq(history)
        /\ Len(InOrder(history, R)) = n
        /\ n \in Nat
        /\ \A x \in history : \E i \in 1..n : InOrder(history, R)[i] = x
        /\ \A i, j \in 1..n : i < j => <<InOrder(history, R)[i], InOrder(history, R)[j]>> \in R
        /\ \A i, j \in 1..n : InOrder(history, R)[i] = InOrder(history, R)[j] => i = j
    BY <2>1, InOrderList
  <2>3. \A i \in 1..n : InOrder(history, R)[i] \in history
    BY <2>2
  <2> QED
    BY <2>1, <2>2, <2>3 DEF R
<1> HIDE DEF row, n
<1>3. \A m \in 0..n : \E f : f = body(m, f)
  <2> DEFINE good == {m \in 0..n : \E f : f = body(m, f)}
  <2>1. 0 \in good
    <3> DEFINE f == [i \in 0..0 |-> NoSources]
    <3>1. f = body(0, f)
      OBVIOUS
    <3>2. 0 \in 0..n
      BY <1>2
    <3> HIDE DEF body, f
    <3> QED
      BY <3>1, <3>2
  <2>2. ASSUME NEW m \in 1..n, m - 1 \in good PROVE m \in good
    <3>1. PICK f : f = body(m - 1, f)
      BY <2>2
    <3> DEFINE next == turn(f, m)
               g == [i \in 0..m |-> IF i = m THEN next ELSE f[i]]
    <3>2. m \in 0..n /\ m # 0 /\ m - 1 \in 0..(m - 1) /\ m - 1 \in 0..m /\ m - 1 # m
      BY <1>2
    <3>3. ASSUME NEW i \in 0..m PROVE g[i] = turn(g, i)
      <4>1. CASE i = m
        <5>1. g[m - 1] = f[m - 1] /\ g[i] = next
          BY <3>2, <4>1
        <5> HIDE DEF g
        <5> QED
          BY <3>2, <4>1, <5>1
      <4>2. CASE i # m
        <5>1. i \in 0..(m - 1) /\ g[i] = f[i]
          BY <1>2, <4>2
        <5>2. i # 0 => i - 1 \in 0..m /\ i - 1 # m /\ g[i - 1] = f[i - 1]
          BY <1>2, <5>1
        <5>3. f[i] = turn(f, i)
          <6> HIDE DEF g, turn
          <6> QED
            BY <3>1, <5>1
        <5> HIDE DEF g
        <5> QED
          BY <5>1, <5>2, <5>3
      <4> QED
        BY <4>1, <4>2
    <3>4. g = body(m, g)
      <4>1. g = [i \in 0..m |-> g[i]]
        OBVIOUS
      <4> HIDE DEF g, turn
      <4> QED
        BY <3>3, <4>1
    <3> HIDE DEF g
    <3> QED
      BY <3>2, <3>4
  <2>3. ASSUME NEW m \in 0..n PROVE m \in good
    <3>1. m \in Nat /\ \A i \in 1..m : i \in 1..n
      BY <1>2
    <3> HIDE DEF good
    <3> QED
      BY <2>1, <2>2, <3>1, Upwards
  <2> QED
    BY <2>3
<1>4. held = body(n, held)
  <2>1. n \in 0..n
    BY <1>2
  <2> HIDE DEF body
  <2> QED
    BY <1>3, <2>1
<1>5. \A i \in 0..n : held[i] = turn(held, i)
  <2> HIDE DEF held, turn
  <2> QED
    BY <1>4
<1> HIDE DEF held
<1>6. held[0] = NoSources /\ \A i \in 1..n : held[i] = Feed(held[i - 1], row[i], p)
  <2>1. 0 \in 0..n /\ \A i \in 1..n : i \in 0..n /\ i # 0
    BY <1>2
  <2> QED
    BY <1>5, <2>1
<1> DEFINE read(i) == {x \in Eligible : \E j \in 1..i : row[j] = x}
           good == {i \in 0..n : HeldFits(held[i], read(i), p)}
<1>7. 0 \in good
  <2>1. NoSources \in States /\ NoSources.buffer = <<>> /\ NoSources.sources = <<>>
    BY DEF NoSources, States
  <2>2. SourcesFit(<<>>, p)
    BY SettingIs, ConversationsAre DEF SourcesFit
  <2>3. read(0) = {}
    OBVIOUS
  <2>4. HeldFits(NoSources, {}, p)
    BY <2>1, <2>2 DEF HeldFits
  <2> QED
    BY <1>2, <1>6, <2>3, <2>4
<1>8. ASSUME NEW i \in 1..n, i - 1 \in good PROVE i \in good
  <2> DEFINE r == row[i]
  <2>1. i \in 0..n /\ HeldFits(held[i - 1], read(i - 1), p) /\ r \in history
        /\ held[i] = Feed(held[i - 1], r, p)
    BY <1>2, <1>6, <1>8
  <2>2. \A j : j \in 1..i <=> j \in 1..(i - 1) \/ j = i
    BY <1>2
  <2>3. CASE r \notin Eligible
    <3>1. read(i) = read(i - 1)
      BY <2>2, <2>3
    <3>2. Feed(held[i - 1], r, p) = held[i - 1]
      BY <2>1, <2>3 DEF Feed, Eligible
    <3> HIDE DEF read
    <3> QED
      BY <2>1, <3>1, <3>2
  <2>4. CASE r \in Eligible
    <3>1. read(i) = read(i - 1) \cup {r}
      BY <2>2, <2>4
    <3>2. \A y \in read(i - 1) : Before(y, r) /\ y # r
      <4> TAKE y \in read(i - 1)
      <4>1. PICK j \in 1..(i - 1) : row[j] = y
        OBVIOUS
      <4>2. j \in 1..n /\ j < i /\ j # i
        BY <1>2
      <4> QED
        BY <1>2, <4>1, <4>2
    <3>3. \A y \in Eligible : y \in read(i - 1) \/ y = r \/ Before(r, y)
      <4> TAKE y \in Eligible
      <4>1. PICK j \in 1..n : row[j] = y
        BY <1>2, EligibleIs
      <4>2. j \in 1..(i - 1) \/ j = i \/ i < j
        BY <1>2
      <4> QED
        BY <1>2, <4>1, <4>2
    <3>4. read(i - 1) \in SUBSET Eligible /\ r \notin read(i - 1)
      BY <3>2
    <3> HIDE DEF read, r
    <3>5. HeldFits(Feed(held[i - 1], r, p), read(i - 1) \cup {r}, p)
      BY <2>1, <2>4, <3>2, <3>3, <3>4, FeedIs
    <3> QED
      BY <2>1, <3>1, <3>5
  <2> QED
    BY <2>3, <2>4
<1>9. n \in good
  <2> HIDE DEF good
  <2> QED
    BY <1>2, <1>7, <1>8, Upwards
<1>10. read(n) = Eligible
  BY <1>2, EligibleIs
<1>11. HeldFits(last, Eligible, p)
  <2> HIDE DEF read
  <2> QED
    BY <1>9, <1>10
<1> QED
  BY <1>1, <1>11

\* The last conversation is closed after the loop: then all are out, or as many as asked.
LEMMA GroupsAre ==
  ASSUME HistoryFits, NEW p \in Settings
  PROVE  /\ SourcesFit(GroupRows(history, p), p)
         /\ Len(GroupRows(history, p)) = AtMost(Cardinality(Conversations(p)), p.limit)
<1> DEFINE m == Cardinality(Conversations(p))
<1>1. PICK g : /\ HeldFits(g, Eligible, p)
               /\ GroupRows(history, p) = IF Full(g, p) THEN g.sources ELSE Close(g, p).sources
  BY LoopIs
<1>2. /\ g \in States /\ SourcesFit(g.sources, p) /\ p.limit \in Nat /\ m \in Nat
      /\ Len(g.sources) \in Nat
  BY <1>1, SettingIs, ConversationsAre DEF HeldFits, States
<1>3. CASE Full(g, p)
  <2>1. Len(g.sources) = p.limit /\ p.limit <= m
    BY <1>2, <1>3 DEF Full, SourcesFit
  <2>2. GroupRows(history, p) = g.sources
    BY <1>1, <1>3
  <2> HIDE DEF m
  <2>3. AtMost(m, p.limit) = p.limit
    BY <1>2, <2>1 DEF AtMost
  <2> QED
    BY <1>2, <2>1, <2>2, <2>3 DEF m
<1>4. CASE ~Full(g, p) /\ Eligible = {} /\ g.buffer = <<>> /\ g.sources = <<>>
  <2>1. Conversations(p) = {}
    BY <1>4 DEF Conversations
  <2>2. m = 0
    BY <2>1, FS_EmptySet
  <2>3. Close(g, p).sources = <<>>
    BY <1>2, <1>4 DEF Close, States
  <2>4. GroupRows(history, p) = g.sources /\ Len(g.sources) = 0
    BY <1>1, <1>4, <2>3
  <2>5. AtMost(m, p.limit) = 0
    BY <1>2, <2>2 DEF AtMost
  <2> QED
    BY <1>2, <2>4, <2>5
<1>5. ASSUME ~Full(g, p), NEW z \in Eligible, \A x \in Eligible : ~Before(z, x), OpenAt(g, z, p)
      PROVE  /\ SourcesFit(GroupRows(history, p), p)
             /\ Len(GroupRows(history, p)) = AtMost(m, p.limit)
  <2>1. Conversation(z, p) = Piece(z, p)
    BY <1>5, PieceLast
  <2>2. /\ SourcesFit(Close(g, p).sources, p)
        /\ Len(Close(g, p).sources) = Cardinality(Opened(z, p))
    BY <1>2, <1>5, <2>1, CloseIs
  <2>3. Opened(z, p) = Conversations(p)
    BY <1>5, ConversationsAre DEF Opened
  <2>4. GroupRows(history, p) = Close(g, p).sources
    BY <1>1, <1>5
  <2>5. m <= p.limit
    BY <2>2, <2>3 DEF SourcesFit
  <2> HIDE DEF m
  <2>6. AtMost(m, p.limit) = m
    BY <1>2, <2>5 DEF AtMost
  <2> QED
    BY <2>2, <2>3, <2>4, <2>6 DEF m
<1> QED
  BY <1>1, <1>3, <1>4, <1>5 DEF HeldFits

\* Grouping makes the conversations of the reference, in their order.
LEMMA GroupsAreWhole ==
  ASSUME HistoryFits, NEW p \in Settings
  PROVE  Whole(p)
<1> DEFINE all == Conversations(p)
           m == Cardinality(all)
           R == Following(all)
           s == InOrder(all, R)
           got == GroupRows(history, p)
<1>1. /\ m \in Nat /\ p.limit \in Nat
      /\ s \in Seq(all) /\ Len(s) = m
  BY ConversationsAre, InOrderList, SettingIs
<1>2. ConversationsOf(p) = Cut(s, p.limit)
  BY DEF ConversationsOf, Conversations
<1>3. /\ Len(Cut(s, p.limit)) = AtMost(m, p.limit)
      /\ \A i \in 1..AtMost(m, p.limit) : Cut(s, p.limit)[i] = s[i]
  <2> HIDE DEF s, m, all
  <2> QED
    BY <1>1, CutList
<1>4. /\ got \in Seq(Transcripts) /\ Len(got) = AtMost(m, p.limit)
      /\ \A j \in 1..Len(got) : got[j].text = Ids(s[j])
  BY GroupsAre DEF SourcesFit
<1>5. DOMAIN got = 1..Len(got)
  BY <1>4
<1> HIDE DEF s, m, got, all
<1> QED
  BY <1>2, <1>3, <1>4, <1>5 DEF Whole, got

-----------------------------------------------------------------------------
(* The batches *)

\* The records that come with their topics.
Tagged ==
  {[id |-> <<"daily_report", r.id>>, text |-> {r.id}, topics |-> r.topics] :
     r \in {x \in Reports : x.topics # {}}}
  \cup
  {[id |-> <<"slack_thread", t.id>>,
    text |-> IF t.answers # {} THEN t.answers ELSE t.messages, topics |-> t.topics] :
     t \in Handoffs}

LEMMA DailyReportsAre ==
  ASSUME NEW topic
  PROVE  DailyReportSources(topic) \in Seq(Tagged)
<1> DEFINE tagged == {r \in Reports : topic \in r.topics}
           R == Newest(tagged)
           report == InOrder(tagged, R)
<1>1. IsFiniteSet(tagged)
  BY CurationAssumption, FS_Subset
<1>2. StrictOrder(tagged, R)
  <2>1. /\ \A r \in tagged : r.id \in Int /\ r.date \in Int
        /\ \A r, s \in tagged : r # s => r.id # s.id
    BY CurationAssumption
  <2>2. \A r, s : <<r, s>> \in R <=>
          /\ r \in tagged /\ s \in tagged
          /\ r.date > s.date \/ (r.date = s.date /\ r.id < s.id)
    BY DEF Newest
  <2> HIDE DEF tagged, R
  <2>3. \A r \in tagged : <<r, r>> \notin R
    BY <2>1, <2>2
  <2>4. \A r, s \in tagged : r # s => <<r, s>> \in R \/ <<s, r>> \in R
    BY <2>1, <2>2
  <2>5. \A r, s, t \in tagged : <<r, s>> \in R /\ <<s, t>> \in R => <<r, t>> \in R
    BY <2>1, <2>2
  <2> QED
    BY <2>3, <2>4, <2>5 DEF StrictOrder
<1>3. \A r \in tagged : r \in Reports /\ r.topics # {}
  OBVIOUS
<1>4. DailyReportSources(topic) =
        [i \in DOMAIN report |->
           [id |-> <<"daily_report", report[i].id>>, text |-> {report[i].id},
            topics |-> report[i].topics]]
  BY DEF DailyReportSources
<1> HIDE DEF tagged, R
<1>5. report \in Seq(tagged)
  BY <1>1, <1>2, InOrderList
<1> HIDE DEF report
<1>6. Len(report) \in Nat /\ DOMAIN report = 1..Len(report)
      /\ \A i \in 1..Len(report) : report[i] \in tagged
  BY <1>5
<1>7. \A r \in Reports : r.topics # {} =>
        [id |-> <<"daily_report", r.id>>, text |-> {r.id}, topics |-> r.topics] \in Tagged
  BY DEF Tagged
<1>8. \A i \in 1..Len(report) :
        [id |-> <<"daily_report", report[i].id>>, text |-> {report[i].id},
         topics |-> report[i].topics] \in Tagged
  BY <1>3, <1>6, <1>7
<1> QED
  BY <1>4, <1>6, <1>8

LEMMA SlackThreadsAre ==
  ASSUME NEW t \in Handoffs
  PROVE  SlackThreadSources(t) \in Seq(Tagged)
<1> DEFINE parts == IF t.answers # {} THEN t.answers ELSE t.messages
           src == [id |-> <<"slack_thread", t.id>>, text |-> parts, topics |-> t.topics]
<1>1. src \in Tagged
  BY DEF Tagged
<1>2. SlackThreadSources(t) \in {<<src>>, <<>>}
  BY DEF SlackThreadSources
<1> HIDE DEF src
<1>3. <<src>> \in Seq(Tagged) /\ <<>> \in Seq(Tagged)
  BY <1>1
<1> QED
  BY <1>2, <1>3

\* A batch infers topics where the records have none.
Known(infer) == IF infer THEN Transcripts ELSE Tagged

\* What a unit's provenance says of its topics.
TopicsFit(id, topics) ==
  /\ topics \subseteq Vocabulary
  /\ id[1] = "chat" => topics # {}
  /\ id[1] = "daily_report" => \E r \in Reports : r.id = id[2] /\ topics = r.topics

\* A unit of the talk from h to z.
Spans(id, h, z) == id = <<"chat", h.channel, h.id, z.id>>

BatchFits ==
  /\ batch = [on |-> batch.on, infer |-> batch.infer, queue |-> batch.queue,
              staged |-> batch.staged, broken |-> batch.broken]
  /\ batch.on \in BOOLEAN /\ batch.infer \in BOOLEAN /\ batch.broken \in BOOLEAN
  /\ ~batch.on => batch = NoBatch
  /\ batch.queue \in Seq(Known(batch.infer))
  /\ \A id \in DOMAIN batch.staged :
       /\ TopicsFit(id, batch.staged[id].topics)
       /\ id[1] = "chat" => \E h, z \in Eligible :
            Spans(id, h, z) /\ batch.staged[id].text = Ids(Between(h, z))

UnitsFit ==
  \A id \in DOMAIN units :
    /\ units[id] = [text |-> units[id].text, topics |-> units[id].topics,
                    status |-> units[id].status, emb |-> units[id].emb]
    /\ TopicsFit(id, units[id].topics)
    /\ id[1] = "chat" => \E h, z \in Eligible :
         Spans(id, h, z) /\ units[id].text \subseteq Ids(Between(h, z))

CurationInv == HistoryFits /\ BatchFits /\ UnitsFit

LEMMA CurationStarts == CurationInit => CurationInv
<1> SUFFICES ASSUME CurationInit PROVE CurationInv
  OBVIOUS
<1>1. HistoryFits
  BY FS_EmptySet DEF CurationInit, HistoryFits
<1>2. UnitsFit
  BY DEF CurationInit, UnitsFit
<1>3. BatchFits
  BY DEF CurationInit, BatchFits, NoBatch
<1> QED
  BY <1>1, <1>2, <1>3 DEF CurationInv

\* The case made of a source has the topics its provenance allows.
LEMMA CasesFit ==
  ASSUME NEW infer \in BOOLEAN, NEW s \in Known(infer), NEW out, Storable(s, out, infer)
  PROVE  /\ TopicsFit(s.id, ResolvedTopics(s, out, infer))
         /\ s.id[1] = "chat" => \E h, z \in Eligible :
              Spans(s.id, h, z) /\ s.text = Ids(Between(h, z))
<1>1. CASE infer
  <2>1. PICK h \in Eligible, z \in Eligible : s = Transcript(h, z)
    BY <1>1 DEF Known, Transcripts
  <2>2. s.topics = {} /\ Spans(s.id, h, z) /\ s.text = Ids(Between(h, z)) /\ s.id[1] = "chat"
    BY <2>1 DEF Transcript, Spans
  <2>3. ResolvedTopics(s, out, infer) = Normalized(out.hints) /\ ResolvedTopics(s, out, infer) # {}
    BY <1>1, <2>2 DEF ResolvedTopics, Storable
  <2>4. Normalized(out.hints) \subseteq Vocabulary
    BY DEF Normalized
  <2> QED
    BY <2>2, <2>3, <2>4 DEF TopicsFit
<1>2. CASE ~infer /\ \E r \in Reports :
              /\ r.topics # {}
              /\ s = [id |-> <<"daily_report", r.id>>, text |-> {r.id}, topics |-> r.topics]
  <2>1. PICK r \in Reports : r.topics # {} /\ s.topics = r.topics /\ s.id = <<"daily_report", r.id>>
    BY <1>2
  <2>2. s.id[1] = "daily_report" /\ s.id[2] = r.id /\ s.id[1] # "chat"
    BY <2>1
  <2>3. ResolvedTopics(s, out, infer) = r.topics
    BY <2>1 DEF ResolvedTopics
  <2>4. r.topics \subseteq Vocabulary
    BY CurationAssumption
  <2> QED
    BY <2>2, <2>3, <2>4 DEF TopicsFit
<1>3. CASE ~infer /\ \E t \in Handoffs :
              s = [id |-> <<"slack_thread", t.id>>,
                   text |-> IF t.answers # {} THEN t.answers ELSE t.messages, topics |-> t.topics]
  <2>1. PICK t \in Handoffs : s.topics = t.topics /\ s.id = <<"slack_thread", t.id>>
    BY <1>3
  <2>2. s.id[1] # "daily_report" /\ s.id[1] # "chat"
    BY <2>1
  <2>3. ResolvedTopics(s, out, infer) \subseteq t.topics
    BY <1>3, <2>1 DEF ResolvedTopics
  <2>4. t.topics \subseteq Vocabulary
    BY CurationAssumption
  <2> QED
    BY <2>2, <2>3, <2>4 DEF TopicsFit
<1>4. ~infer => s \in Tagged
  BY DEF Known
<1> QED
  BY <1>1, <1>2, <1>3, <1>4 DEF Tagged

-----------------------------------------------------------------------------
(* What does not move *)

\* Only an import moves the talk, and it adds to it.
LEMMA TalkKept ==
  ASSUME history' = history
  PROVE  /\ Eligible' = Eligible /\ Transcripts' = Transcripts /\ Tagged' = Tagged
         /\ \A h, z : Between(h, z)' = Between(h, z)
<1>1. Eligible' = Eligible
  BY DEF Eligible
<1>2. \A h, z : Between(h, z)' = Between(h, z)
  BY <1>1 DEF Between, Before
<1>3. Transcripts' = Transcripts
  BY <1>1, <1>2 DEF Transcripts, Transcript, Ids
<1>4. Tagged' = Tagged
  BY DEF Tagged
<1> QED
  BY <1>1, <1>2, <1>3, <1>4

LEMMA UnitsKept ==
  ASSUME UnitsFit, Eligible \subseteq Eligible', units' = units
  PROVE  UnitsFit'
<1>1. \A h, z : Ids(Between(h, z)) \subseteq Ids(Between(h, z)')
  BY DEF Between, Before, Ids
<1>2. ASSUME NEW id \in DOMAIN units, id[1] = "chat"
      PROVE  \E h, z \in Eligible' :
               Spans(id, h, z) /\ units[id].text \subseteq Ids(Between(h, z)')
  BY <1>1, <1>2 DEF UnitsFit
<1> QED
  BY <1>2 DEF UnitsFit, TopicsFit, Spans, Ids

LEMMA UnitsStored ==
  ASSUME history' = history,
         \A id \in DOMAIN units' :
           /\ units'[id] = [text |-> units'[id].text, topics |-> units'[id].topics,
                            status |-> units'[id].status, emb |-> units'[id].emb]
           /\ TopicsFit(id, units'[id].topics)
           /\ id[1] = "chat" => \E h, z \in Eligible :
                Spans(id, h, z) /\ units'[id].text \subseteq Ids(Between(h, z))
  PROVE  UnitsFit'
<1>1. Eligible' = Eligible /\ \A h, z : Between(h, z)' = Between(h, z)
  BY TalkKept
<1> QED
  BY <1>1 DEF UnitsFit, TopicsFit, Spans, Ids

LEMMA BatchStarts ==
  ASSUME history' = history, NEW infer \in BOOLEAN, NEW sources \in Seq(Known(infer)),
         NEW none, DOMAIN none = {},
         batch' = [on |-> TRUE, infer |-> infer, queue |-> sources, staged |-> none,
                   broken |-> FALSE]
  PROVE  BatchFits'
<1> DEFINE known == Known(infer)
<1>1. batch'.staged = none /\ batch'.infer = infer /\ batch'.queue = sources
      /\ batch'.on = TRUE /\ batch'.broken = FALSE
  OBVIOUS
<1>2. Known(batch.infer)' = known
  BY <1>1, TalkKept DEF Known
<1>3. batch' = [on |-> batch'.on, infer |-> batch'.infer, queue |-> batch'.queue,
                staged |-> batch'.staged, broken |-> batch'.broken]
  OBVIOUS
<1>4. sources \in Seq(known)
  OBVIOUS
<1> HIDE DEF known
<1>5. batch'.queue \in Seq(Known(batch.infer)')
  BY <1>1, <1>2, <1>4
<1> QED
  BY <1>1, <1>3, <1>5 DEF BatchFits

LEMMA BatchEnds == ASSUME batch' = NoBatch PROVE BatchFits'
BY DEF BatchFits, NoBatch

-----------------------------------------------------------------------------
(* Every step *)

LEMMA ImportKeeps ==
  ASSUME CurationInv, NEW r \in Rows, Import(r)
  PROVE  CurationInv'
<1> DEFINE new == [id |-> Cardinality(history) + 1, channel |-> r.channel,
                   at |-> r.at, said |-> r.said]
<1>1. IsFiniteSet(history) /\ Cardinality(history) \in Nat /\ history' = history \cup {new}
      /\ units' = units /\ batch' = batch /\ ~batch.on
  BY FS_CardinalityType DEF CurationInv, HistoryFits, Import
<1>2. new \in [id : Nat, channel : Int, at : Int, said : BOOLEAN]
  BY <1>1, CurationAssumption
<1>3. new.id = Cardinality(history) + 1
  OBVIOUS
<1> HIDE DEF new
<1>4. \A x \in history : x.id \in Nat /\ x.id # new.id /\ x.id <= Cardinality(history)
  BY <1>1, <1>3 DEF CurationInv, HistoryFits
<1>5. IsFiniteSet(history') /\ Cardinality(history') = Cardinality(history) + 1
  BY <1>1, <1>4, FS_AddElement
<1>6. HistoryFits'
  <2>1. history' \subseteq [id : Nat, channel : Int, at : Int, said : BOOLEAN]
    BY <1>1, <1>2 DEF CurationInv, HistoryFits
  <2>2. \A x, y \in history' : x.id = y.id => x = y
    BY <1>1, <1>4 DEF CurationInv, HistoryFits
  <2>3. \A x \in history' : x.id <= Cardinality(history')
    BY <1>1, <1>3, <1>4, <1>5
  <2> QED
    BY <1>5, <2>1, <2>2, <2>3 DEF HistoryFits
<1>7. Eligible \subseteq Eligible'
  BY <1>1 DEF Eligible
<1>8. UnitsFit'
  BY <1>1, <1>7, UnitsKept DEF CurationInv
<1>9. BatchFits'
  BY <1>1, BatchEnds DEF CurationInv, BatchFits
<1> QED
  BY <1>6, <1>8, <1>9 DEF CurationInv

LEMMA StartKeeps ==
  ASSUME CurationInv, NEW infer \in BOOLEAN, NEW sources \in Seq(Known(infer)),
         Start(sources, infer)
  PROVE  CurationInv'
<1> DEFINE none == <<>>
<1>0. NoBatch = [on |-> FALSE, infer |-> FALSE, queue |-> none, staged |-> none,
                 broken |-> FALSE]
      /\ DOMAIN none = {}
  BY DEF NoBatch
<1> HIDE DEF none
<1>1. /\ history' = history /\ units' = units
      /\ batch' = [on |-> TRUE, infer |-> infer, queue |-> sources, staged |-> none,
                   broken |-> FALSE]
  BY <1>0 DEF Start
<1>2. UnitsFit'
  BY <1>1, TalkKept, UnitsKept DEF CurationInv
<1>3. BatchFits'
  BY <1>0, <1>1, BatchStarts
<1>4. HistoryFits'
  BY <1>1 DEF CurationInv, HistoryFits
<1> QED
  BY <1>2, <1>3, <1>4 DEF CurationInv

LEMMA TurnKeeps ==
  ASSUME CurationInv, NEW out \in Outputs, Turn(out)
  PROVE  CurationInv'
<1> DEFINE s == Head(batch.queue)
           topics == ResolvedTopics(s, out, batch.infer)
           case == [text |-> s.text, topics |-> topics]
           added == [id \in {s.id} \cup DOMAIN batch.staged |->
                       IF id = s.id THEN case ELSE batch.staged[id]]
           staged == IF Storable(s, out, batch.infer) /\ ~batch.broken
                       THEN added ELSE batch.staged
<1>1. /\ history' = history /\ units' = units /\ batch.queue # <<>> /\ batch.on
      /\ batch' = [batch EXCEPT !.queue = Tail(@), !.staged = staged]
  BY DEF Turn
<1>2. /\ batch = [on |-> batch.on, infer |-> batch.infer, queue |-> batch.queue,
                  staged |-> batch.staged, broken |-> batch.broken]
      /\ batch.infer \in BOOLEAN /\ batch.broken \in BOOLEAN
      /\ batch.queue \in Seq(Known(batch.infer))
  BY DEF CurationInv, BatchFits
<1>3. s \in Known(batch.infer) /\ Tail(batch.queue) \in Seq(Known(batch.infer))
  BY <1>1, <1>2
<1>4. batch' = [on |-> TRUE, infer |-> batch.infer, queue |-> Tail(batch.queue),
                staged |-> staged, broken |-> batch.broken]
  <2> HIDE DEF staged
  <2>1. CASE batch.on
    BY <1>1, <1>2, <2>1
  <2> QED
    BY <1>1, <2>1
<1>5. \A id \in DOMAIN staged :
        /\ TopicsFit(id, staged[id].topics)
        /\ id[1] = "chat" => \E h, z \in Eligible :
             Spans(id, h, z) /\ staged[id].text = Ids(Between(h, z))
  <2>1. \A id \in DOMAIN batch.staged :
          /\ TopicsFit(id, batch.staged[id].topics)
          /\ id[1] = "chat" => \E h, z \in Eligible :
               Spans(id, h, z) /\ batch.staged[id].text = Ids(Between(h, z))
    BY DEF CurationInv, BatchFits
  <2>2. CASE Storable(s, out, batch.infer) /\ ~batch.broken
    <3>1. /\ TopicsFit(s.id, topics)
          /\ s.id[1] = "chat" => \E h, z \in Eligible :
               Spans(s.id, h, z) /\ s.text = Ids(Between(h, z))
      <4> HIDE DEF s
      <4> QED
        BY <1>2, <1>3, <2>2, CasesFit
    <3>2. staged = added
      BY <2>2
    <3>3. case.text = s.text /\ case.topics = topics
      OBVIOUS
    <3> HIDE DEF s, topics, case
    <3>4. /\ DOMAIN added = {s.id} \cup DOMAIN batch.staged
          /\ added[s.id] = case
          /\ \A id \in DOMAIN batch.staged : id # s.id => added[id] = batch.staged[id]
      OBVIOUS
    <3> HIDE DEF added, staged
    <3>5. ASSUME NEW id \in DOMAIN added
          PROVE  /\ TopicsFit(id, added[id].topics)
                 /\ id[1] = "chat" => \E h, z \in Eligible :
                      Spans(id, h, z) /\ added[id].text = Ids(Between(h, z))
      BY <2>1, <3>1, <3>3, <3>4
    <3> QED
      BY <3>2, <3>5
  <2>3. CASE ~(Storable(s, out, batch.infer) /\ ~batch.broken)
    <3>1. staged = batch.staged
      BY <2>3
    <3> HIDE DEF staged
    <3> QED
      BY <2>1, <3>1
  <2> QED
    BY <2>2, <2>3
<1> HIDE DEF staged
<1>6. BatchFits'
  <2>1. Known(batch.infer)' = Known(batch.infer)
    BY <1>1, <1>4, TalkKept DEF Known
  <2>2. Eligible' = Eligible /\ \A h, z : Between(h, z)' = Between(h, z)
    BY <1>1, TalkKept
  <2>3. \A id \in DOMAIN batch'.staged :
          /\ TopicsFit(id, batch'.staged[id].topics)
          /\ id[1] = "chat" => \E h, z \in Eligible' :
               Spans(id, h, z) /\ batch'.staged[id].text = Ids(Between(h, z)')
    BY <1>4, <1>5, <2>2
  <2>4. /\ batch' = [on |-> batch'.on, infer |-> batch'.infer, queue |-> batch'.queue,
                     staged |-> batch'.staged, broken |-> batch'.broken]
        /\ batch'.on /\ batch'.infer \in BOOLEAN /\ batch'.broken \in BOOLEAN
        /\ batch'.queue \in Seq(Known(batch.infer)')
    BY <1>2, <1>3, <1>4, <2>1
  <2> QED
    BY <2>3, <2>4 DEF BatchFits, TopicsFit, Spans, Ids
<1>7. UnitsFit'
  BY <1>1, TalkKept, UnitsKept DEF CurationInv
<1>8. HistoryFits'
  BY <1>1 DEF CurationInv, HistoryFits
<1> QED
  BY <1>6, <1>7, <1>8 DEF CurationInv

LEMMA StoreFailsKeeps == ASSUME CurationInv, StoreFails PROVE CurationInv'
<1>1. /\ history' = history /\ units' = units /\ batch.on /\ batch.queue # <<>>
      /\ batch' = [batch EXCEPT !.queue = Tail(@), !.broken = TRUE]
  BY DEF StoreFails
<1>2. /\ batch = [on |-> batch.on, infer |-> batch.infer, queue |-> batch.queue,
                  staged |-> batch.staged, broken |-> batch.broken]
      /\ batch.infer \in BOOLEAN /\ batch.queue \in Seq(Known(batch.infer))
  BY DEF CurationInv, BatchFits
<1>3. batch' = [on |-> batch.on, infer |-> batch.infer, queue |-> Tail(batch.queue),
                staged |-> batch.staged, broken |-> TRUE]
  BY <1>1, <1>2
<1>4. Tail(batch.queue) \in Seq(Known(batch.infer))
  BY <1>1, <1>2
<1>5. Eligible' = Eligible /\ (\A h, z : Between(h, z)' = Between(h, z))
      /\ Known(batch.infer)' = Known(batch.infer)
  BY <1>1, <1>3, TalkKept DEF Known
<1>6. \A id \in DOMAIN batch'.staged :
        /\ TopicsFit(id, batch'.staged[id].topics)
        /\ id[1] = "chat" => \E h, z \in Eligible' :
             Spans(id, h, z) /\ batch'.staged[id].text = Ids(Between(h, z)')
  BY <1>3, <1>5 DEF CurationInv, BatchFits
<1>7. BatchFits'
  <2>1. /\ batch' = [on |-> batch'.on, infer |-> batch'.infer, queue |-> batch'.queue,
                     staged |-> batch'.staged, broken |-> batch'.broken]
        /\ batch'.on = batch.on /\ batch'.infer \in BOOLEAN /\ batch'.broken \in BOOLEAN
        /\ batch'.queue \in Seq(Known(batch.infer)')
    BY <1>2, <1>3, <1>4, <1>5
  <2> QED
    BY <1>1, <1>6, <2>1 DEF BatchFits, TopicsFit, Spans, Ids
<1>8. UnitsFit'
  BY <1>1, TalkKept, UnitsKept DEF CurationInv
<1>9. HistoryFits'
  BY <1>1 DEF CurationInv, HistoryFits
<1> QED
  BY <1>7, <1>8, <1>9 DEF CurationInv

\* A unit that is written again is the same talk, read anew.
LEMMA SpansOne ==
  ASSUME HistoryFits, NEW id, NEW h \in Eligible, NEW z \in Eligible,
         NEW x \in Eligible, NEW y \in Eligible, Spans(id, h, z), Spans(id, x, y)
  PROVE  h = x /\ z = y
<1>1. h.id = x.id /\ z.id = y.id
  <2>1. <<"chat", h.channel, h.id, z.id>> = <<"chat", x.channel, x.id, y.id>>
    BY DEF Spans
  <2> QED
    BY <2>1
<1>2. h \in history /\ x \in history /\ z \in history /\ y \in history
  BY DEF Eligible
<1> QED
  BY <1>1, <1>2 DEF HistoryFits

LEMMA FinishKeeps ==
  ASSUME CurationInv, Finish
  PROVE  CurationInv' /\ ReviewsHold
<1> DEFINE staged == batch.staged
           written == [id \in DOMAIN staged \cup DOMAIN units |->
                        IF id \in DOMAIN staged THEN Refreshed(id, staged[id]) ELSE units[id]]
<1>1. /\ history' = history /\ batch' = NoBatch
      /\ units' = units \/ units' = written
  BY DEF Finish
<1>2. HistoryFits' /\ BatchFits'
  BY <1>1, BatchEnds DEF CurationInv, HistoryFits
<1>3. CASE units' = units
  <2>1. UnitsFit'
    BY <1>1, <1>3, TalkKept, UnitsKept DEF CurationInv
  <2>2. ReviewsHold
    BY <1>3 DEF ReviewsHold
  <2> QED
    BY <1>2, <2>1, <2>2 DEF CurationInv
<1>4. CASE units' = written
  <2>1. /\ DOMAIN written = DOMAIN staged \cup DOMAIN units
        /\ \A id \in DOMAIN staged : written[id] = Refreshed(id, staged[id])
        /\ \A id \in DOMAIN units : id \notin DOMAIN staged => written[id] = units[id]
    OBVIOUS
  <2> HIDE DEF written
  <2>2. \A id \in DOMAIN staged :
          /\ TopicsFit(id, staged[id].topics)
          /\ id[1] = "chat" => \E h, z \in Eligible :
               Spans(id, h, z) /\ staged[id].text = Ids(Between(h, z))
    BY DEF CurationInv, BatchFits
  <2>3. \A id \in DOMAIN units :
          /\ units[id] = [text |-> units[id].text, topics |-> units[id].topics,
                          status |-> units[id].status, emb |-> units[id].emb]
          /\ TopicsFit(id, units[id].topics)
          /\ id[1] = "chat" => \E h, z \in Eligible :
               Spans(id, h, z) /\ units[id].text \subseteq Ids(Between(h, z))
    BY DEF CurationInv, UnitsFit
  <2> HIDE DEF staged
  <2>4. ASSUME NEW id \in DOMAIN staged
        PROVE  /\ written[id].text = staged[id].text /\ written[id].topics = staged[id].topics
               /\ written[id] = [text |-> written[id].text, topics |-> written[id].topics,
                                status |-> written[id].status, emb |-> written[id].emb]
               /\ id \in DOMAIN units => written[id].status = units[id].status
    <3>1. CASE id \in DOMAIN units
      <4>1. written[id] = [units[id] EXCEPT !.text = staged[id].text,
                                           !.topics = staged[id].topics]
        BY <2>1, <3>1 DEF Refreshed
      <4>2. written[id] = [text |-> staged[id].text, topics |-> staged[id].topics,
                          status |-> units[id].status, emb |-> units[id].emb]
        BY <2>3, <3>1, <4>1
      <4> QED
        BY <4>2
    <3>2. CASE id \notin DOMAIN units
      <4>1. written[id] = [text |-> staged[id].text, topics |-> staged[id].topics,
                          status |-> "unreviewed", emb |-> {}]
        BY <2>1, <3>2 DEF Refreshed
      <4> QED
        BY <3>2, <4>1
    <3> QED
      BY <3>1, <3>2
  <2>5. \A id \in DOMAIN written :
          /\ written[id] = [text |-> written[id].text, topics |-> written[id].topics,
                           status |-> written[id].status, emb |-> written[id].emb]
          /\ TopicsFit(id, written[id].topics)
          /\ id[1] = "chat" => \E h, z \in Eligible :
               Spans(id, h, z) /\ written[id].text \subseteq Ids(Between(h, z))
    <3>1. \A id \in DOMAIN staged :
            /\ written[id] = [text |-> written[id].text, topics |-> written[id].topics,
                             status |-> written[id].status, emb |-> written[id].emb]
            /\ TopicsFit(id, written[id].topics)
            /\ id[1] = "chat" => \E h, z \in Eligible :
                 Spans(id, h, z) /\ written[id].text \subseteq Ids(Between(h, z))
      <4> TAKE id \in DOMAIN staged
      <4>1. written[id].text = staged[id].text /\ written[id].topics = staged[id].topics
        BY <2>4
      <4>2. id[1] = "chat" => \E h, z \in Eligible :
              Spans(id, h, z) /\ staged[id].text = Ids(Between(h, z))
        BY <2>2
      <4>3. id[1] = "chat" => \E h, z \in Eligible :
              Spans(id, h, z) /\ written[id].text \subseteq Ids(Between(h, z))
        BY <4>1, <4>2
      <4> QED
        BY <2>2, <2>4, <4>1, <4>3
    <3>2. \A id \in DOMAIN written : id \in DOMAIN staged \/ (id \in DOMAIN units /\ id \notin DOMAIN staged)
      BY <2>1
    <3> QED
      BY <2>1, <2>3, <3>1, <3>2
  <2>6. UnitsFit'
    BY <1>1, <1>4, <2>5, UnitsStored
  <2>7. ReviewsHold
    <3> SUFFICES ASSUME NEW id \in DOMAIN units
                 PROVE  /\ id \in DOMAIN written
                        /\ written[id].status = units[id].status
                        /\ id[1] = "chat" => units[id].text \subseteq written[id].text
      BY <1>4 DEF ReviewsHold
    <3>1. CASE id \notin DOMAIN staged
      BY <2>1, <3>1
    <3>2. CASE id \in DOMAIN staged
      <4>1. written[id].status = units[id].status /\ written[id].text = staged[id].text
        BY <2>4, <3>2
      <4>2. ASSUME id[1] = "chat" PROVE units[id].text \subseteq staged[id].text
        <5>1. PICK h \in Eligible, z \in Eligible :
                Spans(id, h, z) /\ units[id].text \subseteq Ids(Between(h, z))
          BY <2>3, <4>2
        <5>2. PICK x \in Eligible, y \in Eligible :
                Spans(id, x, y) /\ staged[id].text = Ids(Between(x, y))
          BY <2>2, <3>2, <4>2
        <5>3. h = x /\ z = y
          BY <5>1, <5>2, SpansOne DEF CurationInv
        <5> QED
          BY <5>1, <5>2, <5>3
      <4> QED
        BY <2>1, <3>2, <4>1, <4>2
    <3> QED
      BY <3>1, <3>2
  <2> QED
    BY <1>2, <2>6, <2>7 DEF CurationInv
<1> QED
  BY <1>1, <1>3, <1>4

LEMMA KilledKeeps == ASSUME CurationInv, Killed PROVE CurationInv'
<1>1. history' = history /\ units' = units /\ batch' = NoBatch
  BY DEF Killed
<1>2. UnitsFit'
  BY <1>1, TalkKept, UnitsKept DEF CurationInv
<1> QED
  BY <1>1, <1>2, BatchEnds DEF CurationInv, HistoryFits

LEMMA BatchKept == ASSUME BatchFits, history' = history, batch' = batch PROVE BatchFits'
<1>1. /\ Eligible' = Eligible /\ Transcripts' = Transcripts /\ Tagged' = Tagged
      /\ \A h, z : Between(h, z)' = Between(h, z)
  BY TalkKept
<1>2. Known(batch.infer)' = Known(batch.infer)
  BY <1>1 DEF Known
<1> QED
  BY <1>1, <1>2 DEF BatchFits, TopicsFit, Spans, Ids, NoBatch

\* People and the index leave what a unit says as it is.
LEMMA PeopleKeep ==
  ASSUME CurationInv, history' = history, batch' = batch, DOMAIN units' = DOMAIN units,
         \A id \in DOMAIN units :
           /\ units'[id] = [text |-> units[id].text, topics |-> units[id].topics,
                            status |-> units'[id].status, emb |-> units'[id].emb]
           /\ units[id].status # "unreviewed" => units'[id].status = units[id].status
  PROVE  CurationInv' /\ ReviewsHold
<1>1. \A id \in DOMAIN units : units'[id].text = units[id].text /\ units'[id].topics = units[id].topics
  OBVIOUS
<1>2. \A id \in DOMAIN units :
        /\ TopicsFit(id, units[id].topics)
        /\ id[1] = "chat" => \E h, z \in Eligible :
             Spans(id, h, z) /\ units[id].text \subseteq Ids(Between(h, z))
  BY DEF CurationInv, UnitsFit
<1>3. \A id \in DOMAIN units' :
        /\ units'[id] = [text |-> units'[id].text, topics |-> units'[id].topics,
                         status |-> units'[id].status, emb |-> units'[id].emb]
        /\ TopicsFit(id, units'[id].topics)
        /\ id[1] = "chat" => \E h, z \in Eligible :
             Spans(id, h, z) /\ units'[id].text \subseteq Ids(Between(h, z))
  BY <1>1, <1>2
<1>4. UnitsFit'
  BY <1>3, UnitsStored
<1>5. ReviewsHold
  BY <1>1 DEF ReviewsHold
<1>6. BatchFits' /\ HistoryFits'
  BY BatchKept DEF CurationInv, HistoryFits
<1> QED
  BY <1>4, <1>5, <1>6 DEF CurationInv

LEMMA ReviewKeeps ==
  ASSUME CurationInv, NEW id \in DOMAIN units, NEW status, Review(id, status)
  PROVE  CurationInv' /\ ReviewsHold
<1>1. /\ history' = history /\ batch' = batch /\ units[id].status = "unreviewed"
      /\ units' = [units EXCEPT ![id].status = status]
  BY DEF Review
<1>2. \A u \in DOMAIN units :
        units[u] = [text |-> units[u].text, topics |-> units[u].topics,
                    status |-> units[u].status, emb |-> units[u].emb]
  BY DEF CurationInv, UnitsFit
<1>3. DOMAIN units' = DOMAIN units /\ units'[id] = [units[id] EXCEPT !.status = status]
      /\ \A u \in DOMAIN units : u # id => units'[u] = units[u]
  BY <1>1
<1>4. units'[id] = [text |-> units[id].text, topics |-> units[id].topics,
                    status |-> status, emb |-> units[id].emb]
  BY <1>2, <1>3
<1>5. \A u \in DOMAIN units :
        /\ units'[u] = [text |-> units[u].text, topics |-> units[u].topics,
                        status |-> units'[u].status, emb |-> units'[u].emb]
        /\ units[u].status # "unreviewed" => units'[u].status = units[u].status
  BY <1>1, <1>2, <1>3, <1>4
<1> QED
  BY <1>1, <1>3, <1>5, PeopleKeep

LEMMA StoreKeeps == ASSUME CurationInv, Store PROVE CurationInv' /\ ReviewsHold
<1> DEFINE emb(id) == IF \E e \in encoding : e[1] = id
                        THEN (CHOOSE e \in encoding : e[1] = id)[2] ELSE units[id].emb
<1>1. /\ history' = history /\ batch' = batch
      /\ units' = [id \in DOMAIN units |-> [units[id] EXCEPT !.emb = emb(id)]]
  BY DEF Store
<1> HIDE DEF emb
<1>2. \A u \in DOMAIN units :
        units[u] = [text |-> units[u].text, topics |-> units[u].topics,
                    status |-> units[u].status, emb |-> units[u].emb]
  BY DEF CurationInv, UnitsFit
<1>3. \A u \in DOMAIN units :
        [units[u] EXCEPT !.emb = emb(u)] =
          [text |-> units[u].text, topics |-> units[u].topics,
           status |-> units[u].status, emb |-> emb(u)]
  BY <1>2
<1>4. DOMAIN units' = DOMAIN units
      /\ \A u \in DOMAIN units :
           units'[u] = [text |-> units[u].text, topics |-> units[u].topics,
                        status |-> units[u].status, emb |-> emb(u)]
  BY <1>1, <1>3
<1> QED
  BY <1>1, <1>4, PeopleKeep

\* The batches start from what the records hold.
LEMMA ExtractionKeeps ==
  ASSUME CurationInv
  PROVE  /\ \A p \in Settings : ExtractChat(p) => CurationInv'
         /\ \A topic \in Vocabulary : ExtractDaily(topic) => CurationInv'
         /\ \A t \in Handoffs : CaptureThread(t) => CurationInv'
<1>1. ASSUME NEW p \in Settings, ExtractChat(p) PROVE CurationInv'
  <2>1. SourcesFit(GroupRows(history, p), p)
    BY GroupsAre DEF CurationInv
  <2>2. GroupRows(history, p) \in Seq(Known(TRUE))
    BY <2>1 DEF SourcesFit, Known
  <2>3. Start(GroupRows(history, p), TRUE)
    BY <1>1 DEF ExtractChat
  <2> QED
    BY <2>2, <2>3, StartKeeps
<1>2. ASSUME NEW topic \in Vocabulary, ExtractDaily(topic) PROVE CurationInv'
  <2>1. DailyReportSources(topic) \in Seq(Known(FALSE))
    BY DailyReportsAre DEF Known
  <2>2. Start(DailyReportSources(topic), FALSE)
    BY <1>2 DEF ExtractDaily
  <2> QED
    BY <2>1, <2>2, StartKeeps
<1>3. ASSUME NEW t \in Handoffs, CaptureThread(t) PROVE CurationInv'
  <2>1. SlackThreadSources(t) \in Seq(Known(FALSE))
    BY SlackThreadsAre DEF Known
  <2>2. Start(SlackThreadSources(t), FALSE)
    BY <1>3 DEF CaptureThread
  <2> QED
    BY <2>1, <2>2, StartKeeps
<1> QED
  BY <1>1, <1>2, <1>3

\* Every step keeps the invariant, and no step takes a review back.
LEMMA CurationStep ==
  ASSUME CurationInv, [CurationNext]_curationVars
  PROVE  CurationInv' /\ (ReviewsHold \/ UNCHANGED curationVars)
<1>1. ASSUME units' = units PROVE ReviewsHold
  BY <1>1 DEF ReviewsHold
<1>2. ASSUME NEW r \in Rows, Import(r) PROVE CurationInv' /\ ReviewsHold
  BY <1>1, <1>2, ImportKeeps DEF Import
<1>3. ASSUME NEW p \in Settings, ExtractChat(p) PROVE CurationInv' /\ ReviewsHold
  BY <1>1, <1>3, ExtractionKeeps DEF ExtractChat, Start
<1>4. ASSUME NEW topic \in Vocabulary, ExtractDaily(topic) PROVE CurationInv' /\ ReviewsHold
  BY <1>1, <1>4, ExtractionKeeps DEF ExtractDaily, Start
<1>5. ASSUME NEW t \in Handoffs, CaptureThread(t) PROVE CurationInv' /\ ReviewsHold
  BY <1>1, <1>5, ExtractionKeeps DEF CaptureThread, Start
<1>6. ASSUME NEW out \in Outputs, Turn(out) PROVE CurationInv' /\ ReviewsHold
  BY <1>1, <1>6, TurnKeeps DEF Turn
<1>7. ASSUME StoreFails PROVE CurationInv' /\ ReviewsHold
  BY <1>1, <1>7, StoreFailsKeeps DEF StoreFails
<1>8. ASSUME Finish PROVE CurationInv' /\ ReviewsHold
  BY <1>8, FinishKeeps
<1>9. ASSUME Killed PROVE CurationInv' /\ ReviewsHold
  BY <1>1, <1>9, KilledKeeps DEF Killed
<1>10. ASSUME NEW id \in DOMAIN units, NEW s \in {"approved", "rejected"}, Review(id, s)
       PROVE  CurationInv' /\ ReviewsHold
  BY <1>10, ReviewKeeps
<1>11. ASSUME NEW all \in BOOLEAN, Select(all) PROVE CurationInv' /\ ReviewsHold
  <2>1. history' = history /\ batch' = batch /\ units' = units
    BY <1>11 DEF Select
  <2>2. HistoryFits' /\ BatchFits'
    BY <2>1, BatchKept DEF CurationInv, HistoryFits
  <2>3. UnitsFit'
    BY <2>1, TalkKept, UnitsKept DEF CurationInv
  <2> QED
    BY <1>1, <2>1, <2>2, <2>3 DEF CurationInv
<1>12. ASSUME Store PROVE CurationInv' /\ ReviewsHold
  BY <1>12, StoreKeeps
<1>13. ASSUME UNCHANGED curationVars PROVE CurationInv'
  <2>1. history' = history /\ batch' = batch /\ units' = units
    BY <1>13 DEF curationVars
  <2>2. HistoryFits' /\ BatchFits'
    BY <2>1, BatchKept DEF CurationInv, HistoryFits
  <2>3. UnitsFit'
    BY <2>1, TalkKept, UnitsKept DEF CurationInv
  <2> QED
    BY <2>2, <2>3 DEF CurationInv
<1> QED
  BY <1>2, <1>3, <1>4, <1>5, <1>6, <1>7, <1>8, <1>9, <1>10, <1>11, <1>12, <1>13
     DEF CurationNext

LEMMA UnitsFaithful == CurationInv => TopicsFaithful
BY DEF CurationInv, UnitsFit, TopicsFit, TopicsFaithful

LEMMA CurationHolds == CurationSpec => []CurationInv
<1>1. CurationInv /\ [CurationNext]_curationVars => CurationInv'
  BY CurationStep
<1> QED
  BY <1>1, CurationStarts, PTL DEF CurationSpec

\* Whatever rows have been imported in whatever order, and for every gap, length
\* and limit, grouping (chat.py group_rows) makes exactly the conversations of the
\* reference: whole talks or full pieces of them, none in two, none passed over.
THEOREM TalksAreWhole == CurationSpec => [](\A p \in Settings : Whole(p))
<1>1. CurationInv => \A p \in Settings : Whole(p)
  BY GroupsAreWhole DEF CurationInv
<1> QED
  BY <1>1, CurationHolds, PTL

\* The batches are sound: besides, the topics of every unit are its record's tags
\* or words of the vocabulary, and no batch, import, review or re-encoding takes a
\* review back or puts other talk under a reviewed unit (extract.py, chat.py _flush).
THEOREM BatchesAreSound == CurationSpec => BatchesSound
<1>1. (\A p \in Settings : Whole(p)) => Conversed
  BY DEF Conversed
<1>2. CurationInv /\ CurationInv' /\ [CurationNext]_curationVars
        => [TopicsFaithful' /\ ReviewsHold]_curationVars
  <2> SUFFICES ASSUME CurationInv, CurationInv', [CurationNext]_curationVars
               PROVE  (TopicsFaithful' /\ ReviewsHold) \/ UNCHANGED curationVars
    OBVIOUS
  <2>1. TopicsFaithful'
    BY UnitsFaithful, PTL
  <2> QED
    BY <2>1, CurationStep
<1> QED
  BY <1>1, <1>2, CurationHolds, TalksAreWhole, PTL DEF CurationSpec, BatchesSound

=============================================================================
