---------------------------- MODULE SolveCapture ----------------------------
(***************************************************************************)
(* The knowledge draft of one resolved hand-off thread (slack/capture.py,  *)
(* knowledge/, and the knowledge buttons of api/slack_routes.py): closing  *)
(* utterances and reactions run extractions in the background, both        *)
(* parties press buttons, an approval starts an indexing thread.           *)
(*                                                                         *)
(* The unit's content is a version, counted by the upserts; what the model *)
(* makes of the conversation is a choice.  Progress and no-case claims     *)
(* live in the memory of the process, everything else in the database or   *)
(* in Slack.                                                               *)
(***************************************************************************)
EXTENDS Integers, FiniteSets

CONSTANTS
  Attempts,     \* closing utterances, each with its capture_and_prompt thread
  Reactions,    \* check marks, each with its capture_resolved_thread thread
  Parties,      \* the asker and the responder
  NoAttempt,
  MaxPresses,   \* bound: button presses
  MaxFaults     \* bound: commits, indexing threads and processes that fail

ASSUME CaptureAssumption ==
  /\ IsFiniteSet(Attempts) /\ IsFiniteSet(Reactions)
  /\ NoAttempt \notin Attempts
  /\ MaxPresses \in Nat /\ MaxFaults \in Nat

VARIABLES
  unit,       \* the knowledge_units row of the thread
  lock,       \* holder of the thread's advisory transaction lock
  att,        \* the capture_and_prompt threads
  reacts,     \* the capture_resolved_thread threads
  progress,   \* _capture_progress_notified holds the thread
  noCase,     \* _no_case_notified holds the thread
  open,       \* the last lifecycle post in the channel is CAPTURE_STARTED_TEXT
  prompts,    \* keep/discard prompts posted
  box,        \* the buttons the prompt shows
  shown,      \* versions a party was shown for review
  clicks,     \* presses that wait to be handled
  presses,
  embeds,     \* embed threads that wait, and the versions being encoded
  faults

storeVars == <<unit, lock, att, reacts>>
claimVars == <<progress, noCase>>
slackVars == <<open, prompts, box, shown>>
clickVars == <<clicks, presses>>
captureVars == <<storeVars, claimVars, slackVars, clickVars, embeds, faults>>

-----------------------------------------------------------------------------
(* Types *)

Results == {"none", "stored", "skipped", "errored", "nosource"}

Unit == [status : {"none", "unreviewed", "approved", "rejected"}, ver : Nat, emb : Nat]

Attempt == [at : {"off", "wait", "work", "commit", "post", "over"},
            claimed : BOOLEAN, result : Results]

Buttons == {"keep", "approve", "discard"}

CaptureTypeOK ==
  /\ unit \in Unit
  /\ unit.emb <= unit.ver
  /\ lock \in Attempts \cup {NoAttempt}
  /\ att \in [Attempts -> Attempt]
  /\ reacts \in [Reactions -> {"off", "work", "over"}]
  /\ progress \in BOOLEAN /\ noCase \in BOOLEAN /\ open \in BOOLEAN
  /\ prompts \in Nat
  /\ box \in {"none", "ask", "review", "done"}
  /\ shown \subseteq 1..unit.ver
  /\ clicks \subseteq Parties \X Buttons
  /\ presses \in 0..MaxPresses
  /\ embeds \in [waiting : Nat, encoding : SUBSET (1..unit.ver)]
  /\ faults \in 0..MaxFaults

CaptureInit ==
  /\ unit = [status |-> "none", ver |-> 0, emb |-> 0]
  /\ lock = NoAttempt
  /\ att = [a \in Attempts |-> [at |-> "off", claimed |-> FALSE, result |-> "none"]]
  /\ reacts = [r \in Reactions |-> "off"]
  /\ progress = FALSE /\ noCase = FALSE
  /\ open = FALSE /\ prompts = 0 /\ box = "none" /\ shown = {}
  /\ clicks = {} /\ presses = 0
  /\ embeds = [waiting |-> 0, encoding |-> {}]
  /\ faults = 0

-----------------------------------------------------------------------------
(* The row *)

\* Mutant: the refreshed content waits for a review again.
UpsertedUnreviewed(u) == [u EXCEPT !.status = "unreviewed", !.ver = @ + 1]

\* upsert_knowledge_unit: neither the decision nor the embedding is touched.
Upserted(u) ==
  [status |-> IF u.status = "none" THEN "unreviewed" ELSE u.status,
   ver |-> u.ver + 1, emb |-> u.emb]

\* What search_knowledge_units returns and answer_from_knowledge cites.
Searchable(u) == u.status = "approved" /\ u.emb # 0

-----------------------------------------------------------------------------
(* capture_and_prompt *)

Utter(a) ==
  /\ att[a].at = "off"
  /\ att' = [att EXCEPT ![a].at = "wait"]
  /\ UNCHANGED <<unit, lock, reacts, claimVars, slackVars, clickVars, embeds, faults>>

\* Mutant: check, then act, without pg_advisory_xact_lock.
FreeAnyway == TRUE

Free == lock = NoAttempt

\* Under the lock: a thread with a unit is done with, else the progress is
\* claimed and announced.
Enter(a) ==
  /\ att[a].at = "wait" /\ Free
  /\ IF unit.status # "none"
       THEN /\ att' = [att EXCEPT ![a].at = "over"]
            /\ UNCHANGED <<lock, progress, open>>
       ELSE /\ lock' = a
            /\ att' = [att EXCEPT ![a].at = "work", ![a].claimed = ~progress]
            /\ progress' = TRUE
            /\ open' = (open \/ ~progress)
  /\ UNCHANGED <<unit, reacts, noCase, prompts, box, shown, clickVars, embeds, faults>>

\* _extract_thread_draft: a case, no case, an error it isolates, or no source.
Extract(a, res) ==
  /\ att[a].at = "work" /\ res # "none"
  /\ att' = [att EXCEPT ![a].at = "commit", ![a].result = res]
  /\ UNCHANGED <<unit, lock, reacts, claimVars, slackVars, clickVars, embeds, faults>>

\* Mutant: the claim outlives the attempt that failed.
ReleasedNever(a) == progress

\* Only the attempt that claimed the progress gives it back.
Released(a) == progress /\ ~att[a].claimed

\* An error that escapes: announced and released, then rolled back.
ExtractRaises(a) ==
  /\ att[a].at = "work"
  /\ att' = [att EXCEPT ![a].at = "over"]
  /\ lock' = NoAttempt
  /\ progress' = Released(a)
  /\ open' = (open /\ ~att[a].claimed)
  /\ UNCHANGED <<unit, reacts, noCase, prompts, box, shown, clickVars, embeds, faults>>

\* The end of session_scope, which also gives up the lock.
Commit(a) ==
  /\ att[a].at = "commit"
  /\ att' = [att EXCEPT ![a].at = "post"]
  /\ unit' = IF att[a].result = "stored" THEN Upserted(unit) ELSE unit
  /\ lock' = NoAttempt
  /\ UNCHANGED <<reacts, claimVars, slackVars, clickVars, embeds, faults>>

CommitFails(a) ==
  /\ att[a].at = "commit" /\ faults < MaxFaults
  /\ att' = [att EXCEPT ![a].at = "over"]
  /\ lock' = NoAttempt
  /\ faults' = faults + 1
  /\ UNCHANGED <<unit, reacts, claimVars, slackVars, clickVars, embeds>>

Posting(a) ==
  /\ att[a].at = "post"
  /\ att' = [att EXCEPT ![a].at = "over"]
  /\ UNCHANGED <<unit, lock, reacts, shown, clickVars, embeds, faults>>

\* Mutant: the prompt is posted before the draft is committed.
PostPromptEarly(a) ==
  /\ att[a].at = "commit" /\ att[a].result = "stored" /\ box = "none"
  /\ prompts' = prompts + 1 /\ box' = "ask" /\ open' = FALSE
  /\ UNCHANGED <<storeVars, claimVars, shown, clickVars, embeds, faults>>

PostPrompt(a) ==
  /\ Posting(a) /\ att[a].result = "stored"
  /\ prompts' = prompts + 1
  /\ box' = "ask"
  /\ open' = FALSE
  /\ UNCHANGED claimVars

\* Not a case: said once in the life of the process, and the claim is kept.
PostNoCase(a) ==
  /\ Posting(a) /\ att[a].result = "skipped"
  /\ noCase' = TRUE
  /\ open' = (open /\ noCase)
  /\ UNCHANGED <<progress, prompts, box>>

\* Mutant: a thread without a source ends in silence.
PostFailedSilently(a) ==
  /\ Posting(a) /\ att[a].result \in {"errored", "nosource"}
  /\ progress' = Released(a)
  /\ open' = (open /\ ~(att[a].claimed /\ att[a].result = "errored"))
  /\ UNCHANGED <<noCase, prompts, box>>

\* Said by the attempt that claimed the progress.
PostFailed(a) ==
  /\ Posting(a) /\ att[a].result \in {"errored", "nosource"}
  /\ progress' = Released(a)
  /\ open' = (open /\ ~att[a].claimed)
  /\ UNCHANGED <<noCase, prompts, box>>

-----------------------------------------------------------------------------
(* capture_resolved_thread: no lock, no prompt *)

React(r) ==
  /\ reacts[r] = "off"
  /\ reacts' = [reacts EXCEPT ![r] = "work"]
  /\ UNCHANGED <<unit, lock, att, claimVars, slackVars, clickVars, embeds, faults>>

\* kept: whether the model found a case and the row could be written.
ReactionCaptured(r, kept) ==
  /\ reacts[r] = "work"
  /\ reacts' = [reacts EXCEPT ![r] = "over"]
  /\ unit' = IF kept THEN Upserted(unit) ELSE unit
  /\ UNCHANGED <<lock, att, claimVars, slackVars, clickVars, embeds, faults>>

-----------------------------------------------------------------------------
(* _handle_knowledge_action *)

\* Mutant: the prompt approves at once.
OfferedAtOnce ==
  CASE box = "ask" -> {"keep", "approve", "discard"}
    [] box = "review" -> {"approve", "discard"}
    [] OTHER -> {}

\* What _prompt_blocks and review_blocks offer.
Offered ==
  CASE box = "ask" -> {"keep", "discard"}
    [] box = "review" -> {"approve", "discard"}
    [] OTHER -> {}

\* Slack delivers a press some time later, whatever the message shows by then.
Press(p, b) ==
  /\ b \in Offered /\ presses < MaxPresses
  /\ \A c \in clicks : c[1] # p
  /\ clicks' = clicks \cup {<<p, b>>}
  /\ presses' = presses + 1
  /\ UNCHANGED <<storeVars, claimVars, slackVars, embeds, faults>>

Handled(p, b) ==
  /\ <<p, b>> \in clicks
  /\ clicks' = clicks \ {<<p, b>>}
  /\ UNCHANGED <<lock, att, reacts, claimVars, open, prompts, presses, faults>>

\* The draft replaces the prompt.
Keep(p) ==
  /\ Handled(p, "keep")
  /\ IF unit.status # "none" THEN box' = "review" /\ shown' = shown \cup {unit.ver}
                             ELSE box' = "done" /\ UNCHANGED shown
  /\ UNCHANGED <<unit, embeds>>

\* Mutant: approved, and indexed by nobody.
IndexingUnasked == embeds

\* schedule_knowledge_embed, after the commit.
Indexing == [embeds EXCEPT !.waiting = @ + 1]

Approve(p) ==
  /\ Handled(p, "approve")
  /\ IF unit.status # "none"
       THEN /\ unit' = [unit EXCEPT !.status = "approved"]
            /\ embeds' = Indexing
       ELSE UNCHANGED <<unit, embeds>>
  /\ box' = "done"
  /\ UNCHANGED shown

\* discard_thread_draft
Discard(p) ==
  /\ Handled(p, "discard")
  /\ unit' = IF unit.status # "none" THEN [unit EXCEPT !.status = "rejected"] ELSE unit
  /\ box' = "done"
  /\ UNCHANGED <<shown, embeds>>

-----------------------------------------------------------------------------
(* embed_knowledge_units *)

ToEncode(u) == u.status \in {"unreviewed", "approved"} /\ u.emb = 0

\* Mutant: a thread nobody asked for.
EmbedReadsUnasked ==
  /\ embeds' = [embeds EXCEPT !.waiting = @ - 1]
  /\ UNCHANGED <<storeVars, claimVars, slackVars, clickVars, faults>>

EmbedReads ==
  /\ embeds.waiting > 0
  /\ embeds' = [waiting |-> embeds.waiting - 1,
                encoding |-> embeds.encoding \cup
                               (IF ToEncode(unit) THEN {unit.ver} ELSE {})]
  /\ UNCHANGED <<storeVars, claimVars, slackVars, clickVars, faults>>

EmbedWrites ==
  \E v \in embeds.encoding :
    /\ unit' = [unit EXCEPT !.emb = v]
    /\ embeds' = [embeds EXCEPT !.encoding = @ \ {v}]
    /\ UNCHANGED <<lock, att, reacts, claimVars, slackVars, clickVars, faults>>

EmbedFails ==
  /\ faults < MaxFaults
  /\ faults' = faults + 1
  /\ \E v \in embeds.encoding : embeds' = [embeds EXCEPT !.encoding = @ \ {v}]
  /\ UNCHANGED <<storeVars, claimVars, slackVars, clickVars>>

-----------------------------------------------------------------------------

\* Every thread, transaction and claim of the process is gone.
Crash ==
  /\ faults < MaxFaults
  /\ faults' = faults + 1
  /\ att' = [a \in Attempts |-> IF att[a].at = "off" THEN att[a]
                                ELSE [att[a] EXCEPT !.at = "over"]]
  /\ reacts' = [r \in Reactions |-> IF reacts[r] = "off" THEN "off" ELSE "over"]
  /\ lock' = NoAttempt
  /\ progress' = FALSE /\ noCase' = FALSE
  /\ clicks' = {}
  /\ embeds' = [waiting |-> 0, encoding |-> {}]
  /\ UNCHANGED <<unit, slackVars, presses>>

Capture(a) ==
  \/ Enter(a) \/ ExtractRaises(a) \/ Commit(a)
  \/ PostPrompt(a) \/ PostNoCase(a) \/ PostFailed(a)
  \/ \E res \in Results : Extract(a, res)

CaptureNext ==
  \/ \E a \in Attempts : Utter(a) \/ Capture(a) \/ CommitFails(a)
  \/ \E r \in Reactions : React(r) \/ \E kept \in BOOLEAN : ReactionCaptured(r, kept)
  \/ \E p \in Parties :
       (\E b \in Buttons : Press(p, b)) \/ Keep(p) \/ Approve(p) \/ Discard(p)
  \/ EmbedReads \/ EmbedWrites \/ EmbedFails
  \/ Crash

\* Started threads and transactions go on, received clicks are handled.
Fairness ==
  /\ \A a \in Attempts : WF_captureVars(Capture(a))
  /\ \A r \in Reactions : WF_captureVars(\E kept \in BOOLEAN : ReactionCaptured(r, kept))
  /\ \A p \in Parties : WF_captureVars(Keep(p) \/ Approve(p) \/ Discard(p))
  /\ WF_captureVars(EmbedReads) /\ WF_captureVars(EmbedWrites)

CaptureSpec == CaptureInit /\ [][CaptureNext]_captureVars /\ Fairness

-----------------------------------------------------------------------------
(* Properties *)

\* Utterances, reactions and a restart in between: the pair is asked at most
\* once whether to keep the conversation (capture_and_prompt).
PromptedOnce == prompts <= 1

\* A button, however fast it is pressed, finds the draft it is about: the draft
\* is committed before the prompt is posted.
PromptHasDraft == box # "none" \/ clicks # {} => unit.status # "none"

\* The pair is prompted once, and never about nothing.
PromptSound == PromptedOnce /\ PromptHasDraft

Idle == \A a \in Attempts : att[a].at \in {"off", "over"}

\* Between attempts the progress claim is held only for a thread that has its
\* draft or was told that it is no case: after a failure the next utterance is
\* announced again (capture_and_prompt, #529).
ClaimIsJustified ==
  progress /\ Idle /\ faults = 0 => noCase \/ unit.status # "none"

\* A discarded draft stays discarded through every later capture; only somebody
\* who presses approve brings it back (discard_thread_draft).
DiscardIsDurable ==
  [][unit.status = "rejected" /\ unit'.status # "rejected" =>
       /\ unit'.status = "approved"
       /\ \E p \in Parties : <<p, "approve">> \in clicks \ clicks']_captureVars

\* An approved unit is found by the knowledge search in the end, whatever captures
\* and indexing threads run beside it, unless it is discarded or its indexing
\* fails (schedule_knowledge_embed).
ApprovedIsSearchable ==
  unit.status = "approved" ~> (Searchable(unit) \/ unit.status # "approved" \/ faults > 0)

\* After "creating a draft" the pair hears what became of it once nothing runs,
\* or had been told before that the thread is no case (capture_and_prompt: "the
\* user must not be left at" that notice).
StartedIsClosed == Idle /\ faults = 0 => ~open \/ noCase

\* The notices in the channel and the claims in memory agree with the draft.
NoticesAgree == ClaimIsJustified /\ StartedIsClosed

\* Nobody makes the draft trusted knowledge before one of the pair was shown it,
\* whichever of them keeps, discards and approves, and however late a press
\* arrives ("approve confirms the shown draft", capture.py).
ApprovedAfterReview == unit.status = "approved" => shown # {}

\* The pair knows what becomes of its conversation: every start is followed up,
\* and nothing is approved unread.
PairInformed == NoticesAgree /\ ApprovedAfterReview

=============================================================================
