# TEKIJIN in TLA+

TEKIJIN answers an employee's question either from what the company already
knows (documents, past answers, knowledge units) or by handing it to the
colleague most likely to know. The backend (`src/backend/src/tekijin`) is a
single-process FastAPI service around a LangGraph state machine: a chat session
is a graph thread with a durable checkpoint, its rows are in PostgreSQL, and the
browser follows a run over a server-sent-event stream. Hand-offs are carried out
on the site or in Slack; what people agree on there becomes knowledge again.

This directory specifies that system where mistakes are expensive and tests are
scarce. Paths below are relative to `src/backend/src/tekijin` unless they start
with `src/`.

- [Components](#components)
- [Where the hard behaviour is](#where-the-hard-behaviour-is)
- [Modules](#modules)
- [Runs](#runs)
- [Bounds](#bounds)
- [Fairness](#fairness)
- [Proofs](#proofs)
- [Disagreements between the code and what it says](#disagreements-between-the-code-and-what-it-says)
- [Abstractions and external assumptions](#abstractions-and-external-assumptions)
- [Not modelled](#not-modelled)
- [Plan](#plan)

## Components

| Component | State | Operations | What makes it correct | Modules |
| --- | --- | --- | --- | --- |
| Agent graph (`agent/`) | the checkpoint of a thread: next node and `AgentState` | `reset`, nodes C1-C8, optional nodes, interrupts at `ask` and `send` | nobody who declined is shown again; the hand-off has an addressee; a document answer waits for nobody; every run comes to rest | `AgentGraph` |
| Models (`llm/`, `agent/stubs.py`, `agent/safety.py`, `knowledge/answer.py`) | none | screen, analyse, judge, compose | only retrieved sources are cited; nothing unscreened goes on | `Answering` |
| Event replay (`api/events.py`) | none (reads the checkpoint) | live events, progress and terminal replay | a client that comes back sees what ran | `EventReplay` |
| Session service (`api/service.py`) | `_SessionCtx.pending`, the checkpoint, SQL rows | `start_question`, `submit_resume`, `select`, `exclude`, `refer`, `redraft`, `correct`, `document-fallback`, `stream_events` | one outcome per row, on the person shown; inboxes agree; a queued input is run | `HandoffSession`, `HandoffLedger` |
| Lock, registry, sweep (`api/service.py`) | lock objects, registry entries, time stamps | get, acquire, release; scan, recheck, evict | one dispatch at a time; who waits for a human is not evicted | `SessionLocks` |
| Routes and backpressure (`api/routes.py`, `_run_slot`) | count of running segments | authorize, then handle under the lock; admit, take, release | an outcome closes the hand-off it was given for; slots come back | `Requests` |
| Desk (`api/routes.py`, `data/notifications.py`, `consult.py`, `messages.py`) | notices, chats, retrospectives | list, acknowledge, write, resolve, delete, without the session's lock | no notice is lost; one write-up; a resolution stands; a delete misses no table | `Desk` |
| Reports (`data/dashboard.py`, `history.py`, `knowledge_library.py`) | none (reads the tables) | figures, lists, pages | they agree about the same rows; past months stand | `Reports` |
| Retrieval, route, scorer (`retrieval/`, `agent/route.py`, `scorer/`) | the shared index cache | search, fuse, decide, rank, seat | the index is current; the best candidates of the branch are seated | `Fusion`, `Scoring`, `Pipeline` |
| Offline evaluation (`eval/`) | results, the stored snapshot | run, measure | it ranks what the product shows; its figures agree | `Evaluation` |
| Slack channels and events (`slack/notify.py`, `dedup.py`, `api/slack_routes.py`) | channel links, anchors, seen event ids | background set-up, posts, message and reaction events | one usable channel per pair; one copy of a message | `PairChannel` |
| Solve capture (`slack/capture.py`) | the draft unit, claims in memory, advisory lock | capture, prompt, keep, approve, discard, embed | one prompt with a draft behind it; decisions last | `SolveCapture` |
| Knowledge batches (`knowledge/`, `src/scripts/extract_*.py`) | knowledge units | group, distil, store, review, encode | conversations are whole; reviews hold | `Curation` |
| Slack user sync (`slack/user_sync.py`) | links, pending tokens | plan, apply; people link by hand | one to one; departures from the workspace are cut | `DirectorySync` |
| Seeding, migration, deployment (`data/seed.py`, `retrieval/indexing.py`, `src/deploy/deploy.sh`) | schema width, vectors, id sequence, releases | deploy, migrate, load, embed | the live release fits the schema; ids stay fresh | `Deploy` |

`PROJECT.json` lists every component with its status; those without a module are
under [Not modelled](#not-modelled).

They interact through four things: the **checkpoint** (graph, service, replay,
routes), the **tables** (service, desk, reports, Slack, batches), the **queued
input and the lock** in the memory of the process (service, routes, Slack
buttons), and **Slack**, which delivers events at least once and in any order.

## Where the hard behaviour is

`PROJECT.json` lists each hazard with its line and properties. In groups:

1. **Two stores and a memory.** The graph checkpoints after every node, a segment
   writes SQL when it handles a node's update, row ids and the terminal event go
   into the checkpoint when the segment ends. A client that disconnects raises
   `GeneratorExit` at a `yield`. A queued resume lives only in memory.
2. **Legal sequences.** Decline, exclude, refer, reselect, redraft, correct and the
   document fallback combine freely; the rows and ids they leave behind for the
   next one are what goes wrong.
3. **Read early, used late.** Pages older than the session, participants read before
   the lock, notices acknowledged from an old list, a sync planned from rows that
   changed, an index built for texts that did.
4. **No lock at all.** The desk's routes, background threads of Slack, two syncs and
   two deployments work on rows beside each other.
5. **At least once.** Slack retries; claims against repetition are kept in memory
   here, in SQL there.
6. **Long lives.** A thread with several questions, a unit extracted again by later
   batches, a dashboard over the turn of a year, a column whose width changes.

## Modules

```
HandoffLedger <-- refinement -- HandoffSession -- EXTENDS --> AgentGraph
                                     |                            ^ EXTENDS
                              atomicity from                  EventReplay
                                     v                            ^ refinement
Requests ........ lock ....... SessionLocks                   Answering

Evaluation -- EXTENDS --> Pipeline --> Scoring --> Fusion --> Lists
                              Reports, Answering, Curation --> Lists
PairChannel   SolveCapture   DirectorySync   Desk   Deploy
```

**AgentGraph.** `node` is `snapshot.next` ("END" when empty) and `values` the fields
of `AgentState` some router, later node or handler reads. Each node with its
router is one action; the optional nodes depend on wiring constants as in
`build_agent`. `Fresh` is the scoring pass of `c6_score`: survivors keep their
seats, the pin (referral before prior answer) takes the first free one, then any
ranking of the pool without those who declined. `Reselect`, `SeatReferral`,
`Reopen` and `WriteBack` are the service's `update_state` calls. `Start`,
`Resume`, `Steer` and `RecordSegment` drive the graph alone by any legal calls, so
that it can be checked and proved without the session; `HandoffSession` does not
use these drivers.

**EventReplay** adds the kinds of events streamed (`live`) and the marks the
checkpoint keeps, and compares both with `progress_events`.

**Answering** puts the models in view: texts as sets of the markers the screen looks
for, the intents and verdicts the schemas let through, the sources C4 found, the
ids a composer lists and the ones that survive, whom the critic judged and the
draft is about. It implements `EventReplay` (`AnsweringRefines`). An answer the
schema refuses raises and leaves the checkpoint: no step. The answers of the two
backends are taken as a union, the relevance floor of a source is a choice.

**HandoffSession** composes the graph with the service: `rows`, `quest` and
`answers` are the tables, `pending` the queued input, `hold` the operation that has
the lock between two steps, `seg` the locals of `_run`, `tab` the generation token
of a responder's page. A segment is `Begin`, then `RunNode` (the node runs, its
checkpoint is saved) alternating with `HandleUpdate` (the SQL of `_run` for that
node, then the event), then `EndSegment`. `Deliver` lets the client disappear at
every event. Two-store handlers are two actions. `Fault` aborts whatever holds the
lock, `Crash` also loses the queue.

**HandoffLedger** is what readers of the recommendations table rely on: `Offer`
appends open entries of one question, `Close` gives an open entry its one outcome,
only an acceptance may bring an answer. `HandoffSession` implements it by
`Entries`; the property is `LedgerPromise`.

**SessionLocks** justifies the atomicity of `HandoffSession`: `GetLock` and `Enter`
are separate, as `_lock(...)` and `acquire` are; a stay under the lock is split
where another request could interfere if the lock failed. `doomed` holds the
sweepers whose cutoff is still later than `touched_at`.

**Requests** is what brings requests to the lock. `Authorize` is a route's check
against the participants in the checkpoint, `PressButton` Slack's; the request then
waits in `flight` until a handler takes or refuses it, however far the session has
moved on. The row id of an outcome is optional, as in `schemas.py`: `Named` gives `0`
for a request that echoes none, and `StillMeant` lets it through. Streams, the thread a click starts, and the run slots are here as well.

**Desk** is a question beside its session: bells with their seen columns, the chat,
retrospectives with their unique constraint, consultation method, self-resolution,
and `delete_question` statement by statement. `Statements` is the order of the code,
`References` the foreign keys of `models/tables.py`, and `deleting` the statement to
come. Each statement sees what others committed before it: a row that arrives behind
it (`late`, set by `Inserted` in every action that stores one) makes the statement
that deletes its parent fail, and everything rolls back. A table the code forgot is
one whose rows are still there then. Rows deleted and not committed (`doomed`) hold up
those who would write to them.

**Reports** is the company over months: rows that questions, hand-offs, write-ups,
documents and reviews leave, and the dashboard, history and library as operators
over them.

**Lists** has the operators on lists that these modules share: a sort, a filter, a
cut, a merge in turns, a sum. Each says where an element ends up by counting those
before it, which is what can be proved about; what the code writes as a loop is the
same list.

**Fusion**, **Scoring** and **Pipeline** are C4-C6: rank fusion and its weights,
the route decision, evidence caps, scores and seats, and concurrent searches
sharing the index cache while answers and colleagues come and go. **Evaluation**
runs a labelled query set through the same operators and through the code the
evaluation repeats.

**PairChannel** has the background threads of the hand-offs of a pair step by step
(look up, create, invite, save, post), the relay of what is written on the web (its
look-up and its post, after the request), Slack's deliveries with retries and
`SeenEventIds`, and the attribution of messages and captures to threads.
**SolveCapture** has the capture threads under their advisory lock, claims,
prompt, button presses and indexing threads. **Curation** has the batches:
grouping chat rows into conversations (checked against a reference definition),
one transaction of units, reviews, encoding.

**DirectorySync** has overlapping syncs, each fetching the roster, loading rows and
applying its plan in one transaction, beside people who link by hand. `Guests` and
`Foreign` are apart, as `plan_user_sync` tests another workspace's accounts before it
looks at `deleted`, and guests after it.

**Deploy** has the scripts transaction by transaction beside a live backend that
stores answers, indexes units, inserts colleagues and dies.

**MC modules** give TLC model values, bounds and symmetry. Five of them hold two
modules that share constants or data; a Boolean variable chosen at the start says
which one a behaviour is of (`detailed`, `routed`, `curated`, `company`,
`offline`), and it never mixes the two. Operators marked *Mutant* are plausible
mistakes; each makes a property fail, which shows that it depends on the code. No
other definition uses them.

## Runs

| Run | Distinct states | Question it answers |
| --- | --- | --- |
| `AgentGraph` | 938 498 | Do candidates, hand-off, document route and referral stay consistent and runs come to rest? Is a run replayed as it was streamed? With the models in view, are the same steps taken, only retrieved sources cited, and only screened texts and vetted candidates shown? |
| `SessionCalm` | 850 559 | Do checkpoint, rows, question and inboxes agree at every rest, and does every outcome move the session on, for any order of operations without failures? |
| `SessionDrops` | 124 465 | With clients that drop and outdated pages: is everyone who left backed by a closed row, does a queued input settle, does an acceptance complete? |
| `SessionFaults` | 1 139 319 | With a failure or crash anywhere: do the rows still implement the ledger, and do outcomes land on the person shown? |
| `SessionLocks` | 81 927 | Do dispatches exclude each other, is a waiting session kept, does every lock come free? And do requests authorized before the lock land where they were meant, with buttons, run slots and the queue of a click accounted for? |
| `BugTwoAcceptances` | violated | Can two people accept one question? |
| `PairChannel` | 1 445 412 | Does a pair meet in one usable channel, is a message stored once, does a capture belong to its thread? |
| `SolveCapture` | 313 520 | Is the pair asked once and about something, are notices closed, do discards last, is approved knowledge found? And do batches keep conversations whole, topics faithful and reviews untouched? |
| `DirectorySync` | 338 230 | Are links one to one, justified, and those of departed accounts of the workspace cut in the end? |
| `Deploy` | 367 320 | Does the live release fit the schema, do vectors survive, do ids stay fresh, does every newcomer arrive? |
| `Desk` | 1 630 774 | Do bells, chat and retrospective agree with the session, does a question keep its resolution, and does a delete go through unless a row is stored behind one of its statements? And do dashboard, history and library agree with each other over months? |
| `Pipeline` | 27 375 | Is the index current, do channels and caps weigh what they should, are the best seated? And does the offline evaluation rank what the product shows, with figures that agree? |

Symmetry of people or threads is used only in runs without liveness.
`CHECK_DEADLOCK FALSE` is set where the system may really stop, because ids, lock
objects or the bounded inputs are used up; the graph alone is checked for deadlock.

## Bounds

- **AgentGraph.** Three people for two slots give every relation of survivors, pins
  and pool; a question id is never reused, so two questions give every
  before/after pair. `MaxFollowups = 1` reaches both sides of the cap. Answering's
  behaviours (`Bounded`) find nobody or two colleagues, vary the text of the first
  question (harmless, and two halves that are disallowed together), and have one or
  two sources of each kind with two cited and one unit kept, so that every cut cuts.
- **HandoffSession.** Two people for two slots: what rows can get wrong is which of
  two an operation touches. `MaxDrops = 2` puts a disconnect at each event and a
  second in the continued segment; `MaxFaults = 1` a failure or crash between any
  two steps; one correction makes the second batch of rows all stale ids come from.
  Where `PagesTracked` is off every request comes without a token, which the code
  accepts: more is allowed, not less.
- **SessionLocks.** Two requests, one sweep and two lock objects are one eviction.
  **Requests**: the first request is the asker's question (anything else is
  answered 404), then two more of any kind by anybody; four rows are two batches of
  two; one slot, so that a single other run saturates the gate. Crashes and database
  failures are left to `HandoffSession`, and so is a page read while its session moves.
- **PairChannel.** Two hand-offs with both background jobs each, one message, written
  in Slack and delivered twice or relayed from the web (`Room` keeps a place for a
  relay under way), one failing call. **SolveCapture.** Two closing utterances, two
  reactions, three presses, one failure. **Curation** (`Bounded`): three rows in
  three channels, one excluded, one without text; times within and beyond the gap;
  two batches, one error; late messages arrive and reviews happen between batches.
- **DirectorySync.** An employee, an address without a row, two colleagues' accounts,
  a guest's and one of another workspace; two syncs, two changes. Any of the four
  may be linked and deactivated: a guest's departure is cut, that of the other
  workspace's account never. `OutsidersNameEmployee` keeps the profiles of the last two
  at the employee's address, the one that could be mistaken for a claim; the plan
  reads neither.
- **Deploy.** A release with a wider model and an unhealthy one beside the first;
  two jobs, one other event; ids 1 and 3 in the fixtures, so that a count is not a
  maximum. **Desk.** Two rows, two retrospective requests, one delete
  at a time (again after a rollback), one crash. `DeskBounded` leaves out a delete
  beside bells after the crash: a question is then deleted before a bell rings, since
  nothing the delete reads depends on the bells.
  **Reports** (`CompanyBounded`): December and two months on, two hand-offs or two
  documents with units, beside a seeded answer.
- **Pipeline.** Two searches, three answers of two questions (one with two answers),
  one change; nearness in twelve patterns. `Quiet` stops a behaviour at its seats,
  since nothing reads them, and seats a result only of an unchanged corpus with no
  other search running: C6 reads the result alone.
  **Evaluation** (`OfflineBounded`): one run of two rows out of four kinds, after
  somebody left or an answer went; cut at three, depth four.

`SessionCalm` states agreement for runs without failure. With failures the stores
can disagree for a while (a crash between the reselected checkpoint and the ranks
leaves the old rank in an inbox) and nothing in the code denies it; what survives
failures is in `SessionFaults`. `DeclinedIsRecorded` (part of `OutcomesTraced`) is
without crashes and corrections for the same reason: a crash between an outcome and
its resume, or a fallback after a correction, leaves a person declined whose row is
open: the ids of the superseded batch come first, so an exclusion closes nothing
and the request stays in the excluded person's inbox.

## Fairness

- `AgentGraph`: weak fairness of `Compute`; `graph.stream` runs nodes until an
  interrupt or the end, and a model call that fails is repeated by the client that
  reconnects. The same in `EventReplay` and `Answering`.
- `HandoffSession`: weak fairness of `Stream` (the browser reconnects, and
  `stream_events` runs what is queued or parked) and of `SecondStep` (a thread
  inside a handler goes on).
- `SessionLocks`: whoever has the lock goes on to release it; nobody is assumed to
  get a lock. `Requests`: a started daemon thread runs, a stream ends.
- `SolveCapture`: started threads and handlers of a press already delivered go on.
  `DirectorySync`: a cron asks for a sync again and again
  (`docs/slack-user-sync.md`) and a sync that began ends. `Deploy`: the sync that inserts
  newcomers is run again and its transaction ends.

No fairness is assumed of people, deployments or Slack: nobody has to press, answer
or deploy.

## Proofs

TLAPS checks the following for every value of the constants that satisfies the
assumptions named in the modules (`GraphAssumption`, `SessionAssumption`,
`LocksAssumption`, ...), which TLC evaluates in the runs. A hypothesis beyond them
is stated in the theorem and here. Every invariant and every action property of the
runs is stated by a theorem, in eight modules: `AgentGraphProofs`,
`HandoffSessionProofs`, `SessionLocksProofs`, `SlackProofs`, `DeskProofs`,
`DeployProofs`, `PipelineProofs`, and `ListProofs` for what they share.

**Lists** (`ListProofs`). What a sort, a filter, a cut, a merge in turns and a sum
return for every input. The provers have no rule of induction that takes a predicate,
so the module derives a least-number principle for sets (a nonempty set of naturals
has a least element, from `WellFoundedInduction`), and argues by the first place
where a claim would fail. The operators are defined by counting, so most facts need
no induction at all: that a sort is a bijection onto its set is about cardinalities.

**Agent graph** (`AgentGraphProofs`). One inductive invariant,
`GraphTypeOK /\ GraphSafe`, whose parts need each other: a reroute takes the head of
the list, which exists because the hand-off has a candidate; the list stays
disjoint from `declined` because it is injective. `ReferralComesFirst` needs
`ReferralInv`: a referral is pending only from the responder's choice to the scoring
pass, where the list is empty and the question has a topic.

**Replay and answers** (`AgentGraphProofs`). A chain of implementations:
`ReplayImplementsGraph` and `AnsweringImplementsReplay` take every step of the
detailed module to a step or a stutter of the other, so the graph's theorems hold
with the progress and the models' answers in view. `RevisitsAreFaithful` needs
`ReplayInv`: a checkpoint before C6 has nobody shown and no marks of an earlier
question, a document question has not surfaced its candidates, and from there on
the marks are the events that were streamed. `PeopleSeeOnlyVetted` needs
`RefusedBlank` beside the property: a question that was refused has nobody to hand it
to, so no fallback revives it past the screen. `AnswersAreCited` needs `CitedInv`: what
is cited now is what the composer of this question listed of the sources it was given,
without repetition, and a new question starts without any; with the vetting it is
`AnsweringIsSafe`.

**Session** (`HandoffSessionProofs`, which extends the graph's proofs). `SessionInv`
adds that every question in use has a row (`Numbered`) and that every row id in the
checkpoint or the segment is a row of the current question (`IdsKnown`), which makes
`_resolve_primary` right: a stored id may be stale in its person but not in its
question. From it: `SessionTyped`, `SessionGraphSafe`, `OutcomesLandRight`,
`StaleTabsRejected`, and `SessionImplementsLedger`, where every step is an offer, a
closing or a stutter. `AnswersStayAccepted` and `OutcomesStay` follow from the ledger
alone, so any other implementation of it would have them.

`PassedOverIsTraced` and `AcceptancesEnd` assume `MaxFaults = 0` and
`MaxCorrections = 0`, for any number of dropped clients; these are the conditions
under which the two runs check them, and each is needed: with a crash between an
outcome and its resume, or a corrected question whose superseded rows come first,
TLC finds them violated ([Bounds](#bounds)). Their invariant is `CalmInv`:

- whoever is handed to has a row, but for the fallback until its draft is handled
  (`HandedCovered`; the critic's verdict and the document route decide where the row
  is made, `Placed` and `Started` follow the update from node to node);
- the people behind the first are not closed (`OthersOpen`), so an outcome always
  finds an open row and a queued value is the one recorded;
- from the outcome on the row to the step of the graph somebody is on the way out
  (`Closing`), and everyone already declined has a closed row (`DeclinesTraced`);
- an acceptance is unique and either on its way to the graph or at its end
  (`AcceptedEnds`).

`RestingAgrees` assumes `MaxDrops = 0` as well, as its run does; without any one of the
three TLC refutes it. A client that leaves at the last event leaves a finished question
without its terminal event; without the critic, one that leaves at the route event takes
the route along, a local of the segment, and the continued run makes rows for the
candidates of a document. `RestInv` follows a batch of rows through the hand-off:

- from the update that makes them to an outcome for the first of them, the rows an
  inbox may show are among the ids of the segment or, once it ended, of the
  checkpoint: one row per person shown, in their order, ranked by position unless a
  reselection still has to write the ranks (`InHand`, `SegmentRows`, `HandedRows`);
  before and after, an inbox shows none;
- a fallback's candidates have no row until its draft is handled, and then either get
  their first ones or are found again: a batch ranked by position has only one display
  order (`OneDisplayOrder`), so `shown_recommendation_ids` returns the segment's ids;
- the segment knows the document route from C5 to the scoring pass (`DocumentRouted`),
  so a document's candidates are nobody's request;
- a new question is queued only where the old one left no request (`AtRest`).

**Locks** (`SessionLocksProofs`). `LockInv` (a thread inside owns the object it got)
gives `OneGenerationExcludes`; `NoEvictionExcludes` follows because without a sweep
no second object exists; `PausedStays` needs `SweepInv`: a session some sweep may
still evict is at its end. All are relative to one lock object: after an eviction
has split the requests over two, nothing is promised.

**Requests** (`SessionLocksProofs`). `RequestsInv`: a hand-off that can be answered
has a primary and open rows only (`HandoffOpen`), and an outcome in flight is by the
person whose row it names (`FlightOwn`), a person who may be the responder no
longer. `OutcomesAsMeant`: a request that echoes a row id or excludes a person, whenever it
was authorized, closes that hand-off or nothing; an outcome that echoes none closes the
first candidate asked at the time, which may be the next person, and nothing that has
its outcome. `RequestsSettled`: buttons stay until their row is closed, and
`active` counts the runs. Both are the safety half of `RequestsLand`.

**Slack** (`SlackProofs`). `ChannelInv`: a job past
`conversations.create` works on the one made channel, past the invitation on a
joined one, and so does the stored link. `RelayInv`: a relay past its look-up has a
channel both are in, and the row leads to the made channel from the first announcement
on. Hence `PairSharesPlace`. `AnchorInv`: an
anchor names a thread its message is stored in; hence `CapturesKeepThread`.
`RaceIsWon` needs `RaceInv`: as long as no call failed, a made channel has a stored
link or a job that is about to store it. `RacesAreSettled` adds that a message is
stored once, which needs `OnceInv` (an id is remembered from the first delivery on)
and the hypothesis `MaxMessages <= MaxSeen`: `SeenEventIds` forgets the oldest ids,
and an event that Slack delivered again after that would be stored again.
`CaptureInv`: who holds the advisory lock asks at most once, and the row a commit
leaves stands before any prompt; hence `PromptsAreSound`, through crashes.
`DiscardLasts` is an action property of the typed state. `PairHears` needs
`Informed`: without a fault a claim belongs to an attempt under way, to a draft or to
a no-case notice, and a box for review was preceded by the draft's first showing.

**Batches** (`SlackProofs`). `TalksAreWhole`: the loop of `group_rows` makes the
conversations of a reference that knows the whole history. Its invariant is `HeldFits`,
row by row: the buffer is the last piece of talk up to the row, and what was put out
are the first conversations in the order of their openings. Two facts carry it. A
message's place in its talk is a count (`UpTo`), whose quotient by the limit says which
piece it is in and only grows (`ChunkIs`, `QuotientGrows`); and the next row either
joins the piece or proves it complete (`PieceGoesOn`, `PieceEnds`). For
`BatchesAreSound` the inductive invariant is `CurationInv`: ids of chat rows are unique,
what is staged or stored has the topics its provenance allows, and the transcript of a
chat unit lies between the two messages its id names (`UnitsFit`). A unit written
again therefore has the text of the same two ends, to which only messages imported
late were added. `CurationAssumption` says that reports and hand-offs are tagged in
words of the vocabulary and that a conversation may have a message.

**Desk** (`DeskProofs`). What the bells show is decided by rank and outcome; what
makes them complete is where the session can be while a row is open
(`PrimariesClosed`: an undecided first candidate belongs to the open hand-off), and
what was stamped was listed. Hence `NoticesReachTheirReaders`.
`ConsultationsAreKept` needs that a retrospective past its checks credits somebody
who accepted (`AsksAccepted`) and, without a crash, that nobody selects past a
decision (`Undisturbed`). `DeletesSucceed` needs `DeleteInv`: a table behind the
statement to come holds late rows only, and once the recommendations are gone a message
can only come to a row inserted since. Then a statement is refused exactly when a row
came behind it. `ResolutionsStand` needs `ResolvedInv`: an acceptance has resolved the
question, and while a fallback is under way nobody has been asked.

**Deployment** (`DeployProofs`). `WhatReportsSuccessFits`: every vector has the width
of its column whatever the script is in the middle of, and a script past its upgrade
or one that ended well left the column as wide as the code in place says
(`ColumnsUpgraded`). `DeploymentsKeep`: vectors and the sequence of employees; a
realignment takes the largest committed id, which exists because colleagues are
finitely many (`MaxOfIds`).

**Directory** (`SlackProofs`). `DirectoryInv` adds to the types and to
one-to-one links that what a sync loaded is still there as far as its plan needs it
(`SyncInv`); hence `LinksStayOneToOne` and `SyncHasReason`.

**Retrieval, route and scorer** (`PipelineProofs`). `PipelineInv` is what time can
change: a cached index is the one of the pairs it is stored with (`CacheHonest`), a
search ranks with the index of the pairs it read (`SearchesFit`), and what was found
or seated stays what was computed from its inputs (`FoundFits`, `SeatedFits`). The
rest is about the operators. `SearchIsSound`: the index is current, near certainty has
an answer behind it, whoever left is not asked. `ChannelsAreWeighed`: where BM25 weighs
nothing the confident channel's order stands, and the best profile match that is there
is offered when two places are. `SeatsAreEarned`: nobody left out beats somebody seated
of the same side, whatever is capped and filled. `PipelineAssumption` bounds the pool
by the ranks a channel can have, as the limits in `config.py` do.

**Evaluation** (`PipelineProofs`). `EvaluationMirrors`: a search of the evaluation is
one of the pipeline, and the cut of its ranking is the seats of C6. For
`EvaluationIsSound` the invariant adds `RowsFit`: rows still to be run parse, and every
result is one the rankers can leave. Each figure of a report is the sum of what its
rows are worth (`EvaluateIs`), so a figure of the parts adds up because each row is in
exactly one layer, and under one decision. `EvaluationAssumption` says what query rows
and checkpoints look like, that the unit of the rates is divisible by the ranks up to
three, so that a reciprocal rank is exact, and that a checkpoint with citations is one
of an answered question, which is how C7' returns them.

**Reports** (`DeskProofs`). `ReportsAlwaysAgree` and `MonthsAlwaysStand` are about the
company without the bounds of its run. `CompanyInv` relates rows written at different
times: an answer and a retrospective come from an accepted hand-off (`RecordsTraced`),
only a question for a person is handed off and an acceptance resolves it
(`HandoffsTraced`), what was answered by a document or by the asker is resolved
(`QuestionsSettled`), nothing is dated later than today (`RecordsTimely`), and ids are
those of one row (`QuestionRows`, `HandoffRows`, `AnswerRows`, `ConsultRows`,
`LibraryRows`). Then two queries over different tables count the same questions,
and the pages of the library, merged in turns by kind, put together are the whole. A
month that is over changes only by a deletion because every row that counts for it is
dated today when it is written. `CompanySeesTheSame` and `CompanyMonthsStand` say so of
the specification that is run.

**Model-checked only.**
- Liveness (`GraphSettles`, `WorkSettles`, `LocksComeFree`, `ApprovedIsSearchable`,
  `DepartureCuts`, `NewcomerArrives`, the last conjunct of `RequestsLand`): the
  prover has no rule for fairness.

Where a module has no type invariant among its runs' properties (`SessionLocks`,
`SolveCapture`, `PairChannel`, `DirectorySync`, `HandoffSession`), its types are
proved; `Requests` has its types in `RequestsInv`.

## Disagreements between the code and what it says

`BugTwoAcceptances` is the one with a run: an acceptance is recorded, the process
dies with the queued resume, and selection looks at the checkpoint only, so the
asker can select another candidate, who accepts as well. `notifications.py:96-98`
and `models/tables.py:407-408` say at most one recommendation per question is ever
accepted, and chat, retrospective and bell are keyed by it.

The others were met while modelling. Properties are stated so that they hold
nevertheless; each exception is named where the property is defined.

*Session.*
- The sweep drops a lock object that another request already holds a reference to;
  the next request gets a new one and both go in (`service.py:378` against the
  docstrings at `:20` and `:358`).
- A client drops at the `route` event of a document question: the continued segment
  does not know the route and inserts the internal candidates as open rows. A
  client drops on the terminal event: nothing is stored to replay.
- An exclusion is recorded and the process dies with the queued reroute: the
  responder's next outcome resumes with the stored `excluded`, which the graph
  sends back to `send`. After an acceptance and such a crash the consultation method
  can still be switched, and a decline lost this way leaves no notice once the
  asker selects another candidate.
- `progress_events` (`events.py:217`) replays `recommend` whenever the checkpoint
  holds candidates, also those the document route or the critic held back, against
  `service.py:1557-1558` and `nodes.py:862-864`. `RevisitFaithful` allows for it.
- A referral carries no token (`routes.py:439-478`, `service.py:1209`): authorized
  for one hand-off it may close the next one's row, though only the session's
  responder is meant to refer.
- An outcome without a row id, authorized for one hand-off, closes the next person's
  row: `recommendation_id` is optional (`schemas.py:133`, where a comment says that leaving it out skips the check), and
  both checks (`service.py:540-547`, `:706-716`) are skipped. The docstring of
  `submit_resume` says that an outdated outcome "never binds to a new candidate" of
  those with a row id only.
- A stored primary and `document_fallback_requested` outlive the question they were
  set for; a reselection fails until the next scoring pass when a client dropped
  after rows were inserted.

*Desk and reports.*
- A message, feedback, retrospective, captured answer, hand-off or stage event that is
  committed behind the statement of `delete_question` for its table makes the delete
  fail on the foreign key and answer 500 (`writes.py:117`ff. serves each table once); the
  question stays whole, and a second click deletes it.
- A retrospective racing a delete answers 409 "already recorded". A fallback whose
  question-row update fails counts as a document answer in the dashboard while the
  history says a person. A Slack post may be about an acceptance that was rolled
  back.
- The join behind the captured answers is not DISTINCT; only the double acceptance
  above would give one question two.

*Slack.*
- `relay_to_channel` (`notify.py:149-157`, called at `routes.py:1274`) posts into the
  pair's row whatever workspace it is of, against the comment at `notify.py:70-72`. So a
  chat message may go to a channel of a former workspace until a hand-off has been
  announced in the configured one; `PostsReachBoth` allows for it and for nothing else.
- The sync never cuts the link of a deactivated account of another workspace
  (`user_sync.py:172-174` goes on before it looks at `deleted`).
- An event is marked as seen before it is processed; if that fails, the retry is a
  no-op. A STARTED post of a thread that failed is never closed.
- A reaction refreshes the draft between review and approval.
- A create planned for an address whose account is linked elsewhere clashes on every
  sync and rolls back the departures with it (`user_sync.py:197` against the
  docstring of `_drop_ambiguous`). A link committed between load and apply is
  overwritten or cut. `is_active` is never set back.

*Knowledge.*
- `chat.py:64-69` says a backdated row inside a window makes a new unit; it does not
  when the first and last ids stay the same, and a reviewed unit's content is
  overwritten. A unit rejected between select and store is embedded. A re-extraction
  refreshes an approved unit without another review and leaves its embedding stale.
- `extract_and_store` says storage failures are isolated per source; without
  savepoints PostgreSQL aborts the transaction and the batch is lost.
- A null channel and an empty one are the same to `group_rows` but sort apart.

*Deployment.*
- `knowledge_units` is not in the list of widened tables, against the comments in
  `seed.py` ("each embedding column"). A rollback keeps the widened schema, so the
  old release's queries fail. An abort under `set -e` leaves new code beside the old
  process, though `deploy.sh:7` says "On failure it restores the previous release",
  and the next deployment snapshots that release. Answers captured by the old
  process between upgrade and restart of a width change are dropped. A model of the
  same width keeps the vectors of the one before. A crash between load and the
  second realignment leaves the sequence behind.

*Evaluation.*
- `_pinned_responder` (`eval/pipeline.py:85`) "mirrors" a node that drops people who
  left; it does not. `MirrorsProduct` leaves those searches out.
- The graph ranker scores candidates of a run the critic rejected as hits; a row
  that raises counts as a correct abstention; the pipeline ranker never predicts an
  abstention.

## Abstractions and external assumptions

- **Models, retriever, scorer.** In `AgentGraph` and `HandoffSession` their answers
  are any the node accepts. The asker is not in `People`, as the scorer drops them.
- **LangGraph.** A node's checkpoint is saved before its update is delivered and
  before the next node runs; `update_state` is atomic; a resume at an interrupt
  re-runs the interrupted node with the value. `reset` and the start of a run are
  one step.
- **PostgreSQL.** Transactions are atomic steps; where the code uses several, so does
  the model. Row ids are positions. Unique constraints and advisory locks do what
  their names say; a vector has the width of its column.
- **Slack.** Delivers an event at least once, in any order with others; names of
  channels are unique per workspace.
- **Numbers.** Similarities, weights and scores are hundredths or multiples of a
  common unit; only the order they induce is used. `saturate` is an increasing table.
- **Time.** Only the order of a touch and a cutoff matters to the sweep; the reports
  tell months apart; the batches use small numbers around the gap. A run saves its
  first checkpoint within the TTL of the touch that started it.
- **Text** is a set of markers in `Answering`, a set of row ids in `Curation`, a
  version in `SolveCapture`, and left out elsewhere.
- **Rows may vanish** between a search and the composition of an answer, by a delete.

## Not modelled

Rate limiters (a rolling window under one lock, which unit tests reach), login,
tokens and password hashes, request and response schemas, prompts and the
structuring of questions, embedding models and tokenization, direct-message
fallbacks and message layout in Slack, linking by OAuth and slash commands, research
and benchmark scripts and the generators of fixtures, application set-up, and the
frontend, which is the environment of the models. `PROJECT.json` gives the reason
for each. The checkpointer's fallback to memory is left out: it would lose what the
models keep in a crash.

## Plan

Done: the graph, the ledger, the session and the locks; then `EventReplay`, `Desk`,
`PairChannel`, `SolveCapture`, `DirectorySync`, the C4-C6 operators and `Pipeline`,
`Deploy`, `Answering`, `Curation`, `Reports`, `Evaluation` and `Requests`; proofs of
every invariant and every action property the runs check.

Left, most valuable first:

1. A theorem that `SessionLocks` without sweeps implements an atomic dispatcher, the
   assumption of `HandoffSession`.
2. `Requests` and `HandoffSession` in one specification, so that requests in flight
   meet crashes and dropped clients.
3. The sliding windows of the rate limiters, and the OAuth linking flow beside
   `DirectorySync`.
