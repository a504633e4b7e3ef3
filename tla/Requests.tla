------------------------------ MODULE Requests ------------------------------
(***************************************************************************)
(* From a press to the session: the hand-off routes of api/routes.py, the  *)
(* buttons of api/slack_routes.py and the admission gate of                *)
(* api/service.py.                                                         *)
(*                                                                         *)
(* A route reads the session's participants from the checkpoint, decides   *)
(* whether the caller may do this, and only then calls the handler, which  *)
(* waits for the session lock: what was read may be over by then.  One     *)
(* session is modelled, the other ones by the run slots they take.  What a *)
(* run does is HandoffSession's; here it ends in a hand-off or without.    *)
(***************************************************************************)
EXTENDS Naturals, Sequences, Functions

CONSTANTS
  Asker,
  Colleagues,   \* people a run may seat
  Admin,        \* the configured account, acts as anybody
  MaxRuns,      \* max_concurrent_runs
  MaxRows,      \* bound: recommendation rows
  MaxRequests   \* bound: requests

ASSUME RequestsAssumption ==
  /\ {Asker, Admin} \cap Colleagues = {} /\ Asker # Admin
  /\ {MaxRuns, MaxRows, MaxRequests} \subseteq Nat

VARIABLES
  shown,      \* recommendations table: person and outcome, ids are positions
  batch,      \* recommendation_ids of the checkpoint, the primary first
  passed,     \* declined_ids of the checkpoint
  place,      \* where the durable graph rests; "busy" is between two nodes
  queued,     \* the input queued in the registry entry
  doing,      \* the input of the run in progress or parked
  streaming,  \* a stream of this session executes the graph
  flight,     \* authorized requests that wait for the session lock
  requests,   \* ... counted
  posts,      \* rows with a consultation post in Slack
  buttons,    \* ... and those whose post still has its buttons
  drains,     \* _advance_after_resume threads
  active,     \* _active_runs
  others      \* runs of other sessions

sessionState == <<shown, batch, passed, place>>
inputState == <<queued, doing, streaming>>
slackState == <<posts, buttons, drains>>
slotState == <<active, others>>
requestsVars == <<sessionState, inputState, flight, requests, slackState, slotState>>

Inputs == {"fresh", "reply", "accepted", "declined", "redraft"}
Kinds == {"ask", "reply", "accepted", "declined", "exclude", "refer",
          "redraft", "correct", "select"}

RequestsInit ==
  /\ shown = <<>> /\ batch = <<>> /\ passed = {} /\ place = "none"
  /\ queued = "none" /\ doing = "none" /\ streaming = FALSE
  /\ flight = {} /\ requests = 0
  /\ posts = {} /\ buttons = {} /\ drains = 0
  /\ active = 0 /\ others = 0

-----------------------------------------------------------------------------
(* Who may *)

Primary == IF batch = <<>> THEN 0 ELSE Head(batch)

\* session_participants
Responder == {shown[i].person : i \in {Primary} \ {0}}

\* Nobody is kept from a session that does not exist: the handler answers 404.
Participant(p) == place = "none" \/ p \in {Asker, Admin} \cup Responder

\* Mutant: any participant may report an outcome.
MayAnyParticipant(p, kind) ==
  IF kind = "ask" THEN p \in {Asker, Admin} ELSE Participant(p)

\* The routes' checks: an outcome or a referral is the responder's, the rest
\* any participant's.
May(p, kind) ==
  CASE kind = "ask" -> p \in {Asker, Admin}
    [] kind \in {"accepted", "declined", "refer"} -> p \in {Admin} \cup Responder
    [] OTHER -> Participant(p)

\* What a request names: the row its page echoes, the person, or nothing (0).  A
\* responder answers from a page that showed them their own hand-off; the asker's
\* and the admin's pages show whoever is asked.  The row id of an outcome is
\* optional: an older client sends none.
Named(p, kind) ==
  CASE kind \in {"accepted", "declined"} ->
         {0} \cup {i \in DOMAIN shown : p \in {Asker, Admin, shown[i].person}}
    [] kind \in {"exclude", "select"} -> {shown[i].person : i \in DOMAIN shown}
    [] kind = "refer" -> {Asker} \cup Colleagues
    [] OTHER -> {0}

Fly(r) ==
  /\ requests < MaxRequests /\ r \notin flight
  /\ requests' = requests + 1
  /\ flight' = flight \cup {r}
  /\ UNCHANGED <<sessionState, inputState, slackState, slotState>>

\* A request arrives and passes its route's checks.
Authorize(p, kind, on) ==
  /\ May(p, kind) /\ on \in Named(p, kind)
  /\ Fly([by |-> p, kind |-> kind, on |-> on, slack |-> FALSE])

\* A button of the post about row i, which only its two people see: the clicker's
\* link leads to the current responder, on this row or on a later one.
PressButton(p, kind, i) ==
  /\ i \in buttons /\ kind \in {"accepted", "declined"}
  /\ p = shown[i].person /\ p \in Responder
  /\ Fly([by |-> p, kind |-> kind, on |-> i, slack |-> TRUE])

-----------------------------------------------------------------------------
(* The handlers, under the session lock *)

\* Mutant: the button row goes when the button is pressed.
ButtonsGone(r, done) == IF r.slack THEN buttons \ {r.on} ELSE buttons

\* A post is rewritten when its press was taken, else it keeps its buttons.
ButtonsLeft(r, done) == IF r.slack /\ done THEN buttons \ {r.on} ELSE buttons

\* Mutant: a click has no stream of its own.
DrainedByNobody(r, done) == drains

Drained(r, done) == IF r.slack /\ done THEN drains + 1 ELSE drains

\* The request is answered; `done' tells whether the handler took it.
Answered(r, done) ==
  /\ r \in flight /\ ~streaming
  /\ flight' = flight \ {r}
  /\ buttons' = ButtonsLeft(r, done)
  /\ drains' = Drained(r, done)
  /\ UNCHANGED <<passed, place, doing, streaming, requests, posts, slotState>>

AtSend == place = "send" /\ queued = "none"

\* Mutants: the id the page echoes, or the person the asker names, is not looked
\* at.
StillMeantAnyRow(r) ==
  CASE r.kind \in {"accepted", "declined"} -> TRUE
    [] r.kind = "exclude" -> {r.on} = Responder
    [] OTHER -> TRUE

StillMeantAnybody(r) ==
  CASE r.kind \in {"accepted", "declined"} -> r.on \in {0, Primary}
    [] OTHER -> TRUE

\* The generation token of an outcome where there is one, the person of an
\* exclusion; a referral is only checked for the person it names.
StillMeant(r) ==
  CASE r.kind \in {"accepted", "declined"} -> r.on \in {0, Primary}
    [] r.kind = "exclude" -> {r.on} = Responder
    [] r.kind = "refer" -> r.on \notin {Asker} \cup Responder \cup passed
    [] r.kind = "select" -> \E i \in Range(batch) : shown[i].person = r.on
    [] OTHER -> TRUE

CloseHandoff(r, outcome, input) ==
  /\ AtSend /\ StillMeant(r)
  /\ Answered(r, TRUE)
  /\ shown' = [shown EXCEPT ![Primary].outcome = outcome]
  /\ queued' = input
  /\ UNCHANGED batch

OutcomeGiven(r) == r.kind \in {"accepted", "declined"} /\ CloseHandoff(r, r.kind, r.kind)

Excluding(r) == r.kind = "exclude" /\ CloseHandoff(r, "excluded", "declined")

Referring(r) == r.kind = "refer" /\ CloseHandoff(r, "referred", "declined")

Correcting(r) == r.kind = "correct" /\ CloseHandoff(r, "superseded", "fresh")

Redrafting(r) ==
  /\ r.kind = "redraft" /\ AtSend
  /\ Answered(r, TRUE)
  /\ queued' = "redraft"
  /\ UNCHANGED <<shown, batch>>

\* select_handoff_candidate: the k-th candidate first, the others in their order.
Reseat(r) ==
  /\ r.kind = "select" /\ AtSend
  /\ Answered(r, TRUE)
  /\ \E k \in DOMAIN batch :
       /\ shown[batch[k]].person = r.on
       /\ batch' = [j \in DOMAIN batch |-> IF j = 1 THEN batch[k]
                                          ELSE IF j <= k THEN batch[j - 1] ELSE batch[j]]
  /\ UNCHANGED <<shown, queued>>

ReplyGiven(r) ==
  /\ r.kind = "reply" /\ place = "ask" /\ queued = "none"
  /\ Answered(r, TRUE)
  /\ queued' = "reply"
  /\ UNCHANGED <<shown, batch>>

\* start_question: shed by the admission gate before anything is stored.
AskTaken(r) ==
  /\ r.kind = "ask" /\ place \in {"none", "end"} /\ queued = "none"
  /\ active < MaxRuns
  /\ Answered(r, TRUE)
  /\ queued' = "fresh"
  /\ UNCHANGED <<shown, batch>>

Taken(r) ==
  \/ OutcomeGiven(r) \/ Excluding(r) \/ Referring(r) \/ Correcting(r)
  \/ Redrafting(r) \/ Reseat(r) \/ ReplyGiven(r) \/ AskTaken(r)

\* 404, 409, 422 or 503.
Refused(r) ==
  /\ \/ queued # "none"
     \/ CASE r.kind = "ask" -> place \notin {"none", "end"} \/ active >= MaxRuns
          [] r.kind = "reply" -> place # "ask"
          [] OTHER -> place # "send" \/ ~StillMeant(r)
  /\ Answered(r, FALSE)
  /\ UNCHANGED <<shown, batch, queued>>

\* POST /handoff/draft as a chat: the post about the primary row.
PostConsultation ==
  /\ AtSend /\ ~streaming /\ Primary \notin posts
  /\ posts' = posts \cup {Primary}
  /\ buttons' = buttons \cup {Primary}
  /\ UNCHANGED <<sessionState, inputState, flight, requests, drains, slotState>>

-----------------------------------------------------------------------------
(* Streams: of a browser, or of the thread a Slack click starts *)

\* The queued input is taken, or a run parked between two nodes goes on; at rest
\* there is only something to replay.
Dispatch ==
  /\ ~streaming
  /\ IF queued # "none" \/ place = "busy"
       THEN /\ streaming' = TRUE /\ place' = "busy"
            /\ doing' = IF queued # "none" THEN queued ELSE doing
            /\ active' = active + 1
       ELSE UNCHANGED <<streaming, place, doing, active>>
  /\ batch' = CASE queued = "fresh" -> <<>>
                [] queued = "declined" -> Tail(batch)
                [] OTHER -> batch
  /\ passed' = CASE queued = "fresh" -> {}
                 [] queued = "declined" -> passed \cup Responder
                 [] OTHER -> passed
  /\ queued' = "none"
  /\ UNCHANGED <<shown, flight, requests, posts, buttons, others>>

OpenEvents ==
  /\ queued # "none" \/ place = "busy"
  /\ Dispatch /\ UNCHANGED drains

AdvanceAfterResume == drains > 0 /\ Dispatch /\ drains' = drains - 1

Seated(people) == [k \in DOMAIN people |-> [person |-> people[k], outcome |-> "open"]]

\* Mutant: the slot is not given back when the client is gone or a node fails.
SlotKept == active

SlotReleased == active - 1

RunOver ==
  /\ streaming /\ streaming' = FALSE
  /\ active' = SlotReleased
  /\ UNCHANGED <<queued, flight, requests, slackState, others>>

\* Accepted, nobody left to ask, or answered without a person.
RunEnds ==
  /\ RunOver /\ doing # "redraft"
  /\ place' = "end" /\ doing' = "none"
  /\ UNCHANGED <<shown, batch, passed>>

RunAsks ==
  /\ RunOver /\ doing \in {"fresh", "reply"}
  /\ place' = "ask" /\ doing' = "none"
  /\ UNCHANGED <<shown, batch, passed>>

RunRedrafts ==
  /\ RunOver /\ doing = "redraft"
  /\ place' = "send" /\ doing' = "none"
  /\ UNCHANGED <<shown, batch, passed>>

\* C6 seats people who did not decline, in rows of their own.
RunSeats(people) ==
  /\ RunOver /\ doing \in {"fresh", "reply", "declined"}
  /\ Len(shown) + Len(people) <= MaxRows
  /\ Range(people) \cap passed = {}
  /\ shown' = shown \o Seated(people)
  /\ batch' = [k \in DOMAIN people |-> Len(shown) + k]
  /\ place' = "send" /\ doing' = "none" /\ UNCHANGED passed

\* The client is gone or a node failed: _run_slot's finally.
RunParks ==
  /\ streaming /\ streaming' = FALSE
  /\ active' = SlotReleased
  /\ UNCHANGED <<sessionState, queued, doing, flight, requests, slackState, others>>

\* Continuations take a slot without being asked for one.
OtherRunStarts ==
  /\ others < MaxRuns
  /\ others' = others + 1 /\ active' = active + 1
  /\ UNCHANGED <<sessionState, inputState, flight, requests, slackState>>

OtherRunEnds ==
  /\ others > 0
  /\ others' = others - 1 /\ active' = active - 1
  /\ UNCHANGED <<sessionState, inputState, flight, requests, slackState>>

-----------------------------------------------------------------------------
Callers == {Asker, Admin} \cup Colleagues

Lists == {<<p>> : p \in Colleagues} \cup
         {<<p, q>> : p \in Colleagues, q \in Colleagues}

Stream ==
  \/ RunEnds \/ RunAsks \/ RunRedrafts \/ RunParks
  \/ \E people \in {l \in Lists : IsInjective(l)} : RunSeats(people)

RequestsNext ==
  \/ \E p \in Callers, kind \in Kinds : \E on \in Named(p, kind) : Authorize(p, kind, on)
  \/ \E p \in Colleagues, kind \in Kinds, i \in buttons : PressButton(p, kind, i)
  \/ \E r \in flight : Taken(r) \/ Refused(r)
  \/ PostConsultation
  \/ OpenEvents \/ AdvanceAfterResume \/ Stream
  \/ OtherRunStarts \/ OtherRunEnds

RequestsSpec == RequestsInit /\ [][RequestsNext]_requestsVars

\* A daemon thread runs, and a stream comes to an end.
RequestsFairness == WF_requestsVars(AdvanceAfterResume) /\ WF_requestsVars(Stream)

-----------------------------------------------------------------------------
(* Properties *)

\* An outcome closes the hand-off it was given for: an acceptance or a decline
\* that echoes a row comes from that row's own person (or the admin), an exclusion
\* names the row's person, although the caller was checked before the lock and the
\* session may have moved on.  Whatever names nothing closes the hand-off that is
\* asked for now, be it the next person's, and no row that has its outcome.
ClosedAsMeant ==
  \A i \in DOMAIN shown : shown'[i].outcome # shown[i].outcome =>
    /\ i = Primary /\ shown[i].outcome = "open"
    /\ \E r \in flight \ flight' :
         /\ shown'[i].outcome \in {"accepted", "declined"} /\ r.on # 0 =>
              r.by \in {shown[i].person, Admin} /\ r.on = i
         /\ shown'[i].outcome = "excluded" => r.on = shown[i].person

\* A post loses its buttons only when its row has its outcome.
ButtonsUntilClosed == \A i \in posts \ buttons : shown[i].outcome # "open"

\* Every run slot taken is given back.
SlotsReturned == active = IF streaming THEN others + 1 ELSE others

\* An outcome pressed in Slack that waits for its run.
ClickWaits ==
  /\ place = "send" /\ queued \in {"accepted", "declined"}
  /\ Primary \in posts \ buttons

\* Requests land where they were meant to, from the web and from Slack: outcomes
\* close the hand-off they were given for, buttons stay until one did, run slots
\* come back whatever ends a run, and a click moves the session on although no
\* browser streams (answer, handoff_exclude, _handle_interactivity_action,
\* _advance_after_resume, _run_slot).  A referral, a correction and an outcome
\* without a row id (None skips the check) have no token: checked for one hand-off
\* they may close the next one.
RequestsLand ==
  /\ [](ButtonsUntilClosed /\ SlotsReturned)
  /\ [][ClosedAsMeant]_requestsVars
  /\ ClickWaits ~> queued = "none"
=============================================================================
