--------------------------- MODULE MCSolveCapture ---------------------------
(***************************************************************************)
(* Instances of SolveCapture and of Curation for TLC: how a knowledge unit *)
(* comes to be, from a thread two people close and from the batches.  A    *)
(* behaviour is of one of the two modules from its start to its end.       *)
(***************************************************************************)
EXTENDS SolveCapture, Curation

CONSTANTS a1, a2, a3, r1, r2, asker, responder

VARIABLE curated   \* the behaviour is Curation's

TwoAttempts == {a1, a2}
ThreeAttempts == {a1, a2, a3}
OneReaction == {r1}
TwoReactions == {r1, r2}
Pair == {asker, responder}

\* Two channels, one time within the gap of the other, one beyond; one message
\* without a text, one in a channel that is left out.
MCRows ==
  [channel : {1}, at : {1, 2, 4}, said : {TRUE}]
    \cup {[channel |-> 2, at |-> 2, said |-> TRUE],
          [channel |-> 2, at |-> 1, said |-> FALSE],
          [channel |-> 3, at |-> 2, said |-> TRUE]}

MCExcluded == {3}
MCVocabulary == {"crm", "security"}
MCHints == {{"weather"}, {"sfa", "weather"}}
MCCanonical == [h \in {"crm", "sfa", "weather"} |-> IF h = "weather" THEN "none" ELSE "crm"]

MCReports ==
  {[id |-> 1, date |-> 1, topics |-> {"crm"}],
   [id |-> 2, date |-> 2, topics |-> {"crm", "security"}]}

MCHandoffs ==
  {[id |-> 1, accepted |-> TRUE, direct |-> d, asked |-> TRUE,
    answers |-> a, messages |-> {2}, topics |-> {}] : d \in BOOLEAN, a \in {{}, {1}}}

MCSettings ==
  {[gap |-> g, min |-> n, max |-> 2, limit |-> 9] : g \in {1, 2}, n \in {1, 2}}
    \cup {[gap |-> 1, min |-> 1, max |-> 2, limit |-> 1]}

MCInit == CaptureInit /\ CurationInit /\ curated \in BOOLEAN

Capturing == ~curated /\ CaptureNext /\ UNCHANGED <<curationVars, curated>>

Plain == {r \in history : r.said /\ r.channel = 1}

\* Bounds of the batches: those of reports and threads run where nobody chats, a
\* second one follows where the first stored something, late messages are plain
\* talk and arrive when nothing else goes on, units of reports and threads stand for
\* all where it is encoded, and nobody reviews or encodes in the middle of a batch
\* or after the last one.
Bounded ==
  /\ Cardinality(history' \ Plain') <= 1
  /\ batches' # batches => /\ history # {} => batch'.infer
                           /\ batches > 0 => units # <<>>
  /\ history' # history /\ batches > 0 => errors = 0 /\ Plain' # Plain
  /\ encoding' # encoding => history' = {}
  /\ (batch.on /\ batch'.on) \/ (batches = MaxBatches /\ ~batch.on) =>
       encoding' = encoding /\ units' = units

Curating == curated /\ CurationNext /\ Bounded /\ UNCHANGED <<captureVars, curated>>

MCSpec == MCInit /\ [][Capturing \/ Curating]_<<captureVars, curationVars, curated>> /\ Fairness

=============================================================================
