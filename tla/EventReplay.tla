---------------------------- MODULE EventReplay -----------------------------
(***************************************************************************)
(* What a client of /events sees of the C1-C8 graph (api/events.py and the *)
(* run loop of api/service.py): the progress events of a run as they are   *)
(* streamed, and the progress that is rebuilt from the checkpoint for a    *)
(* client that comes back.  Nobody drops here; HandoffSession has that.    *)
(***************************************************************************)
EXTENDS AgentGraph

VARIABLES
  live,   \* kinds of progress events streamed since the question was reset
  marks   \* subset of Marks in the checkpoint: route_reason, additive_answer_text, draft

replayVars == <<node, values, live, marks>>

Marks == {"route", "reference", "draft"}

ReplayInit == GraphInit /\ live = {} /\ marks = {}

-----------------------------------------------------------------------------
(* The live stream *)

\* C6 is silent on the document route, and held until the critic's verdict when
\* there is somebody to judge.
C6Streams ==
  IF values.route = "document" \/ (CriticWired /\ values'.recs # <<>>)
    THEN {} ELSE {"recommend"}

\* The document fallback surfaces its dormant ranking with the draft.
C7Streams ==
  IF values.fallbackReq /\ values.recIds = <<>> THEN {"recommend", "draft"} ELSE {"draft"}

\* Events of the node that has just run, but for additive_answer.
Streams ==
  CASE node = "c1_intent"     -> {"understood"}
    [] node = "c5_route"      -> {"route"}
    [] node = "c6_score"      -> C6Streams
    [] node = "answerability" -> IF node' = "c7_draft" THEN {"recommend"} ELSE {}
    [] node = "c7_draft"      -> C7Streams
    [] OTHER                  -> {}

\* Mutant: the draft of the question before survives.
ClearedButDraft == marks \cap {"draft"}

\* reset clears the markers, and a new question is a new screen.
Cleared == {}

\* reroute and the fallback request put the draft back to None.
Undrafted == live' = live /\ marks' = marks \ {"draft"}

\* additive_answer streams and keeps a reference when one is grounded.
Told ==
  CASE node = "additive_answer" ->
         \/ live' = live \cup {"reference"} /\ marks' = marks \cup {"reference"}
         \/ UNCHANGED <<live, marks>>
    [] node = "reroute" -> Undrafted
    [] OTHER ->
         /\ live' = live \cup Streams
         /\ marks' = marks \cup (Streams \cap Marks)

ReplayNext ==
  \/ Compute /\ Told
  \/ Start /\ live' = {} /\ marks' = Cleared
  \/ Reopen /\ Undrafted
  \/ (Resume \/ Steer \/ RecordSegment) /\ UNCHANGED <<live, marks>>

ReplaySpec == ReplayInit /\ [][ReplayNext]_replayVars /\ WF_graphVars(Compute)

-----------------------------------------------------------------------------
(* The replay *)

\* Mutant: the route is announced from its default.
ReplayedDefaults == {"understood", "route"} \cup marks \cup
                    (IF values.recs # <<>> THEN {"recommend"} ELSE {})

\* progress_events
Replayed == {"understood"} \cup marks \cup
            (IF values.recs # <<>> THEN {"recommend"} ELSE {})

\* Whom _dispatch_stream replays to: a run that waits for a human, or one whose
\* terminal event is stored.
Replays == node \in InterruptNodes \/ (node = Finished /\ values.lastEvent # "none")

-----------------------------------------------------------------------------
(* Properties *)

\* Whoever comes back to a run that waits for a human sees exactly the progress
\* that was streamed live, whatever declines, drafts, corrections, fallbacks and
\* earlier questions the checkpoint went through (progress_events: "emit only
\* what actually ran").
RevisitShowsTheSame == node \in InterruptNodes => Replayed = live

\* Whoever comes back to a finished run is told nothing that did not run, except
\* the candidates that the document route or the critic held back; and misses
\* nothing, except what a decline took away.
RevisitFinished ==
  node = Finished /\ Replays =>
    /\ Replayed \ {"recommend"} \subseteq live
    /\ Replayed \subseteq live \/ values.route = "document" \/ CriticWired
    /\ live \ {"recommend"} \subseteq Replayed \/ values.declined # {}
    /\ live \ {"recommend", "draft"} \subseteq Replayed

\* Waiting or finished, a run is told to whoever comes back as it was told live.
RevisitFaithful == RevisitShowsTheSame /\ RevisitFinished

=============================================================================
