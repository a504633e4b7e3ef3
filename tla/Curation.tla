------------------------------ MODULE Curation ------------------------------
(***************************************************************************)
(* The offline batches that fill knowledge_units (knowledge/extract.py,    *)
(* knowledge/chat.py, knowledge/slack_thread.py, knowledge/index.py and    *)
(* their scripts): raw records become sources, the model distils each into *)
(* a case or declines, one transaction stores what it found, people review *)
(* units and another script encodes them.                                  *)
(*                                                                         *)
(* A transcript is the set of rows it renders, a topic a value, times are  *)
(* small numbers.  What the model answers is a choice.                     *)
(***************************************************************************)
EXTENDS Lists, SequencesExt

CONSTANTS
  Rows,         \* the chat rows that can be imported, without their ids
  Excluded,     \* DEFAULT_EXCLUDED_CHANNELS
  Reports,      \* daily_reports: [id, date, topics]
  Handoffs,     \* the states a hand-off thread can be captured in
  Vocabulary,   \* TOPIC_VOCABULARY
  Hints,        \* topic_hints lists the model may return
  Canonical,    \* canonicalize_topic: a topic for each hint, or none of the vocabulary
  Settings,     \* [gap, min, max, limit] of a run of extract_chat_knowledge
  MaxRows,      \* bound: chat rows
  MaxBatches,   \* bound: batches
  MaxErrors     \* bound: storage errors and processes that die

\* Reports and hand-offs are tagged in the words of the vocabulary (models/tables.py).
ASSUME CurationAssumption ==
  /\ Rows \subseteq [channel : Int, at : Int, said : BOOLEAN]
  /\ IsFiniteSet(Reports) /\ \A r, s \in Reports : r.id = s.id => r = s
  /\ \A r \in Reports : r.id \in Int /\ r.date \in Int /\ r.topics \subseteq Vocabulary
  /\ \A t \in Handoffs : t.topics \subseteq Vocabulary
  /\ Settings \subseteq [gap : Nat, min : Nat, max : Nat \ {0}, limit : Nat]

VARIABLES
  history,   \* employee_chat_history, said: neither its text nor its time is missing
  units,     \* knowledge_units, by their provenance
  batch,     \* the extraction that runs
  encoding,  \* texts embed_knowledge.py read and encodes
  batches, errors

curationVars == <<history, units, batch, encoding, batches, errors>>

-----------------------------------------------------------------------------
(* Chat conversations *)

\* ORDER BY channel, sent_at, id
Before(r, s) ==
  \/ r.channel < s.channel
  \/ r.channel = s.channel /\ r.at < s.at
  \/ r.channel = s.channel /\ r.at = s.at /\ r.id < s.id

Sorted(rows) == {pair \in rows \X rows : Before(pair[1], pair[2])}

Ids(rows) == {r.id : r \in rows}

\* Mutant: keyed on the first message alone.
FlushedByFirst(buffer) ==
  [id |-> <<"chat", Head(buffer).channel, Head(buffer).id>>,
   text |-> Ids(ToSet(buffer)), topics |-> {}]

\* Keyed on the first and the last message.
Flushed(buffer) ==
  [id |-> <<"chat", Head(buffer).channel, Head(buffer).id, Last(buffer).id>>,
   text |-> Ids(ToSet(buffer)), topics |-> {}]

Close(g, p) ==
  IF g.buffer # <<>> /\ Len(g.buffer) >= p.min
    THEN [g EXCEPT !.sources = Append(@, Flushed(g.buffer)), !.buffer = <<>>]
    ELSE [g EXCEPT !.buffer = <<>>]

\* Mutant: a conversation of one message more than its limit.
BreaksLate(g, r, p) ==
  \/ r.channel # g.channel \/ r.at - g.prev > p.gap \/ Len(g.buffer) > p.max

Breaks(g, r, p) ==
  \/ r.channel # g.channel \/ r.at - g.prev > p.gap \/ Len(g.buffer) >= p.max

Full(g, p) == Len(g.sources) >= p.limit

Feed(g, r, p) ==
  IF Full(g, p) \/ r.channel \in Excluded \/ ~r.said THEN g
  ELSE LET h == IF Breaks(g, r, p) THEN Close(g, p) ELSE g
       IN  IF Full(h, p) THEN h
           ELSE [h EXCEPT !.buffer = Append(@, r), !.channel = r.channel, !.prev = r.at]

NoSources == [sources |-> <<>>, buffer |-> <<>>, channel |-> 0, prev |-> 0]

\* The loop, by what it holds after each row.
GroupRows(rows, p) ==
  LET row == InOrder(rows, Sorted(rows))
      held[i \in 0..Cardinality(rows)] ==
        IF i = 0 THEN NoSources ELSE Feed(held[i - 1], row[i], p)
      g == held[Cardinality(rows)]
  IN  IF Full(g, p) THEN g.sources ELSE Close(g, p).sources

-----------------------------------------------------------------------------
(* The other sources *)

\* ORDER BY report_date DESC, id
Newest(reports) ==
  {pair \in reports \X reports :
     \/ pair[1].date > pair[2].date
     \/ pair[1].date = pair[2].date /\ pair[1].id < pair[2].id}

DailyReportSources(topic) ==
  LET tagged == {r \in Reports : topic \in r.topics}
      report == InOrder(tagged, Newest(tagged))
  IN  [i \in DOMAIN report |->
         [id |-> <<"daily_report", report[i].id>>, text |-> {report[i].id},
          topics |-> report[i].topics]]

\* The captured answers, or else the chat.
SlackThreadSources(t) ==
  LET parts == IF t.answers # {} THEN t.answers ELSE t.messages
  IN  IF t.accepted /\ ~t.direct /\ t.asked /\ parts # {}
        THEN <<[id |-> <<"slack_thread", t.id>>, text |-> parts, topics |-> t.topics]>>
        ELSE <<>>

-----------------------------------------------------------------------------
(* What the model answers *)

\* CaseExtractionSchema, or no tool call at all.
Outputs ==
  [called : BOOLEAN, extractable : BOOLEAN, problem : BOOLEAN, action : BOOLEAN,
   hints : Hints]

\* Raised by the validator or by extract, a decline, or a case.
Verdict(out) ==
  CASE out.called /\ ~out.extractable -> "declined"
    [] out.called /\ out.extractable /\ out.problem /\ out.action -> "case"
    [] OTHER -> "raise"

\* Mutant: the hints as the model wrote them.
NormalizedNot(hints) == hints

Normalized(hints) == {Canonical[h] : h \in hints} \cap Vocabulary

ResolvedTopics(source, out, infer) ==
  IF source.topics # {} THEN source.topics
  ELSE IF infer THEN Normalized(out.hints) ELSE {}

Storable(source, out, infer) ==
  /\ Verdict(out) = "case"
  /\ infer => ResolvedTopics(source, out, infer) # {}

-----------------------------------------------------------------------------
(* The batch *)

NoBatch == [on |-> FALSE, infer |-> FALSE, queue |-> <<>>, staged |-> <<>>, broken |-> FALSE]

CurationInit ==
  /\ history = {} /\ units = <<>> /\ batch = NoBatch /\ encoding = {}
  /\ batches = 0 /\ errors = 0

\* The loaders, with rows that may be older than what is there.
Import(r) ==
  /\ Cardinality(history) < MaxRows /\ ~batch.on
  /\ history' = history \cup {[id |-> Cardinality(history) + 1, channel |-> r.channel,
                                at |-> r.at, said |-> r.said]}
  /\ UNCHANGED <<units, batch, encoding, batches, errors>>

Start(sources, infer) ==
  /\ ~batch.on /\ batches < MaxBatches /\ sources # <<>>
  /\ batch' = [NoBatch EXCEPT !.on = TRUE, !.infer = infer, !.queue = sources]
  /\ batches' = batches + 1
  /\ UNCHANGED <<history, units, encoding, errors>>

ExtractChat(p) == Start(GroupRows(history, p), TRUE)

ExtractDaily(topic) == Start(DailyReportSources(topic), FALSE)

CaptureThread(t) == Start(SlackThreadSources(t), FALSE)

\* One turn of extract_and_store: whatever is raised is of this source alone,
\* but after an error of the database every later statement fails.
Turn(out) ==
  /\ batch.on /\ batch.queue # <<>>
  /\ LET s == Head(batch.queue)
         case == [text |-> s.text, topics |-> ResolvedTopics(s, out, batch.infer)]
         added == [id \in {s.id} \cup DOMAIN batch.staged |->
                     IF id = s.id THEN case ELSE batch.staged[id]]
     IN  batch' = [batch EXCEPT
           !.queue = Tail(@),
           !.staged = IF Storable(s, out, batch.infer) /\ ~batch.broken THEN added ELSE @]
  /\ UNCHANGED <<history, units, encoding, batches, errors>>

StoreFails ==
  /\ batch.on /\ batch.queue # <<>> /\ errors < MaxErrors
  /\ batch' = [batch EXCEPT !.queue = Tail(@), !.broken = TRUE]
  /\ errors' = errors + 1
  /\ UNCHANGED <<history, units, encoding, batches>>

\* Mutant: the row is written anew.
RefreshedAnew(id, case) ==
  [text |-> case.text, topics |-> case.topics, status |-> "unreviewed", emb |-> {}]

\* upsert_knowledge_unit: the decision and the vector are left as they are.
Refreshed(id, case) ==
  IF id \in DOMAIN units
    THEN [units[id] EXCEPT !.text = case.text, !.topics = case.topics]
    ELSE [text |-> case.text, topics |-> case.topics, status |-> "unreviewed", emb |-> {}]

\* The end of session_scope.
Finish ==
  /\ batch.on /\ batch.queue = <<>>
  /\ units' = IF batch.broken THEN units
              ELSE [id \in DOMAIN batch.staged \cup DOMAIN units |->
                     IF id \in DOMAIN batch.staged
                       THEN Refreshed(id, batch.staged[id]) ELSE units[id]]
  /\ batch' = NoBatch
  /\ UNCHANGED <<history, encoding, batches, errors>>

Killed ==
  /\ batch.on /\ errors < MaxErrors
  /\ batch' = NoBatch
  /\ errors' = errors + 1
  /\ UNCHANGED <<history, units, encoding, batches>>

-----------------------------------------------------------------------------
(* People and the index *)

\* set_review_status
Review(id, status) ==
  /\ units[id].status = "unreviewed"
  /\ units' = [units EXCEPT ![id].status = status]
  /\ UNCHANGED <<history, batch, encoding, batches, errors>>

\* embed_knowledge.py, with or without --all.
Select(all) ==
  /\ encoding = {}
  /\ encoding' = {<<id, units[id].text>> :
                    id \in {u \in DOMAIN units :
                              /\ units[u].status # "rejected"
                              /\ all \/ units[u].emb = {}}}
  /\ encoding' # {}
  /\ UNCHANGED <<history, units, batch, batches, errors>>

Store ==
  /\ encoding # {}
  /\ units' = [id \in DOMAIN units |->
                 [units[id] EXCEPT !.emb =
                    IF \E e \in encoding : e[1] = id
                      THEN (CHOOSE e \in encoding : e[1] = id)[2] ELSE @]]
  /\ encoding' = {}
  /\ UNCHANGED <<history, batch, batches, errors>>

CurationNext ==
  \/ \E r \in Rows : Import(r)
  \/ \E p \in Settings : ExtractChat(p)
  \/ \E t \in Vocabulary : ExtractDaily(t)
  \/ \E t \in Handoffs : CaptureThread(t)
  \/ \E out \in Outputs : Turn(out)
  \/ StoreFails \/ Finish \/ Killed
  \/ \E id \in DOMAIN units, s \in {"approved", "rejected"} : Review(id, s)
  \/ \E all \in BOOLEAN : Select(all)
  \/ Store

CurationSpec == CurationInit /\ [][CurationNext]_curationVars

-----------------------------------------------------------------------------
(* Properties *)

Eligible == {r \in history : r.said /\ r.channel \notin Excluded}

\* Somebody in the channel goes on within the gap.
GoesOn(r, gap) ==
  \E s \in Eligible : s.channel = r.channel /\ Before(r, s) /\ s.at - r.at <= gap

Together(r, s, gap) ==
  /\ r.channel = s.channel
  /\ \A x \in Eligible :
       x.channel = r.channel /\ ~Before(x, r) /\ Before(x, s) => GoesOn(x, gap)

\* The talk up to a message, without a silence.
UpTo(r, gap) == {s \in Eligible : ~Before(r, s) /\ Together(s, r, gap)}

Chunk(r, p) == (Cardinality(UpTo(r, p.gap)) - 1) \div p.max

Conversation(r, p) ==
  {s \in Eligible : /\ Together(r, s, p.gap) /\ Together(s, r, p.gap)
                    /\ Chunk(s, p) = Chunk(r, p)}

Opening(c) == CHOOSE r \in c : \A s \in c : ~Before(s, r)

Following(all) == {pair \in all \X all : Before(Opening(pair[1]), Opening(pair[2]))}

\* Reference for group_rows: the maximal stretches of talk in a channel, cut into
\* pieces of at most max, without the short ones, the first `limit` of them.
ConversationsOf(p) ==
  LET all == {c \in {Conversation(r, p) : r \in Eligible} : Cardinality(c) >= p.min}
  IN  Cut(InOrder(all, Following(all)), p.limit)

Whole(p) ==
  LET got == GroupRows(history, p)
      want == ConversationsOf(p)
  IN  Len(got) = Len(want) /\ \A i \in DOMAIN got : got[i].text = Ids(want[i])

Conversed == batches = 0 => \A p \in Settings : Whole(p)

\* The topics of a unit are its record's tags, or words of the vocabulary.
TopicsFaithful ==
  \A id \in DOMAIN units :
    /\ units[id].topics \subseteq Vocabulary
    /\ id[1] = "chat" => units[id].topics # {}
    /\ id[1] = "daily_report" =>
         \E r \in Reports : r.id = id[2] /\ units[id].topics = r.topics

\* No batch takes a review back or puts another conversation under a unit that
\* somebody reviewed: its transcript can only grow by messages imported late.
ReviewsHold ==
  \A id \in DOMAIN units : units[id].status # "unreviewed" =>
    /\ id \in DOMAIN units'
    /\ units'[id].status = units[id].status
    /\ id[1] = "chat" => units[id].text \subseteq units'[id].text

\* Whatever rows are imported in whatever order, a conversation is a whole talk
\* or a full piece of it, no message is in two and none is passed over
\* (group_rows); and whatever batches run with whatever settings, topics are
\* faithful and reviews hold (extract.py, chat.py _flush).
BatchesSound == []Conversed /\ [][TopicsFaithful' /\ ReviewsHold]_curationVars

=============================================================================
