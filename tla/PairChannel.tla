----------------------------- MODULE PairChannel -----------------------------
(***************************************************************************)
(* The private Slack channel two employees share for all their hand-offs   *)
(* (slack/notify.py), and the events Slack delivers about it               *)
(* (api/slack_routes.py, slack/dedup.py).  A hand-off is named by its      *)
(* recommendation id, which is also the id of its chat thread.             *)
(*                                                                         *)
(* Background threads create or reuse the channel in several steps, what   *)
(* is written on the web is relayed after its request, Slack delivers an   *)
(* event at least once, and a message is attributed to the thread the      *)
(* channel stands for when it is handled.  Solve capture is on.            *)
(***************************************************************************)
EXTENDS Integers, Sequences, FiniteSets, SequencesExt

CONSTANTS
  Threads,       \* hand-offs of the pair, all chat consultations
  Asker, Responder,  \* the pair
  NoThread,
  MaxSeen,       \* SeenEventIds(max_size)
  MaxMessages,   \* bound: messages in the channel
  MaxTries,      \* bound: deliveries of one event
  MaxFailures    \* bound: failing Slack calls, transactions and threads

ASSUME ChannelAssumption ==
  /\ NoThread \notin Threads
  /\ Asker # Responder
  /\ {MaxSeen, MaxMessages, MaxTries, MaxFailures} \subseteq Nat
  /\ MaxSeen > 0

VARIABLES
  hand,      \* the outcome of each recommendation row
  link,      \* the slack_channel_links row of the pair, or NoLink
  chans,     \* Slack: channels by id, each with its name and whether both joined
  jobs,      \* the background threads of each hand-off
  feed,      \* Slack: what the bot posted, as <<channel, what, thread>>
  relays,    \* relay_to_channel tasks as <<thread, channel>>, 0 before the look-up
  log,       \* Slack: messages in channels, ids are positions
  tries,     \* deliveries so far of each message event
  seen,      \* SeenEventIds, most recently used last
  busy,      \* message events being handled
  stored,    \* the messages table: the threads each message is stored in
             \* (one written on the web before Slack has it)
  anchors,   \* slack_message_anchors: the thread of a message, or NoThread
  reacting,  \* reactions whose thread is still running
  marks,     \* captures started, as <<message, thread>>
  failures

channelVars == <<link, chans, jobs, feed, relays>>
eventVars == <<log, tries, seen, busy, stored, anchors, reacting, marks>>
pairVars == <<hand, channelVars, eventVars, failures>>

-----------------------------------------------------------------------------
(* Types *)

Pair == {Asker, Responder}
Kinds == {"send", "accept"}        \* schedule_pending_handoff, schedule_channel_setup_and_draft
Messages == 1..MaxMessages
Texts == {"plain", "solve", "thanks"}

PairName == 0
Elsewhere == -1    \* the name of a channel in a workspace used before

NoLink == [chan |-> 0, ours |-> FALSE, thread |-> NoThread]

\* ours: slack_team_id is the configured workspace.
Link == [chan : Nat, ours : BOOLEAN, thread : Threads \cup {NoThread}]

Job == [at : {"off", "look", "make", "invite", "save", "post", "over"},
        chan : Nat, had : BOOLEAN]

Off == [at |-> "off", chan |-> 0, had |-> FALSE]

ThreadSets == [Threads -> {"open", "accepting", "accepted", "declined"}]

ChannelTypeOK ==
  /\ hand \in ThreadSets
  /\ link \in Link
  /\ chans \in Seq([name : {PairName, Elsewhere} \cup Threads, joined : BOOLEAN])
  /\ jobs \in [Kinds \X Threads -> Job]
  /\ feed \subseteq Nat \X {"draft", "buttons", "accepted", "chat"} \X Threads
  /\ relays \subseteq Threads \X Nat

MessageTypeOK ==
  /\ log \in Seq([bot : BOOLEAN, chan : Nat])
  /\ Len(log) <= MaxMessages
  /\ busy \subseteq Messages /\ reacting \subseteq Messages
  /\ stored \in [Messages -> Seq(Threads)]
  /\ anchors \in [Messages -> Threads \cup {NoThread}]
  /\ marks \subseteq Messages \X Threads

PairTypeOK ==
  /\ ChannelTypeOK /\ MessageTypeOK
  /\ tries \in [Messages -> 0..MaxTries]
  /\ seen \in Seq(Messages) /\ Len(seen) <= MaxSeen
  /\ failures \in 0..MaxFailures

\* The pair may have a channel of a workspace used before (channel 1), which the
\* two joined there.
PairInit ==
  /\ hand = [t \in Threads |-> "open"]
  /\ \/ link = NoLink /\ chans = <<>>
     \/ /\ link = [chan |-> 1, ours |-> FALSE, thread |-> NoThread]
        /\ chans = <<[name |-> Elsewhere, joined |-> TRUE]>>
  /\ jobs = [j \in Kinds \X Threads |-> Off]
  /\ feed = {} /\ relays = {} /\ log = <<>> /\ seen = <<>>
  /\ tries = [m \in Messages |-> 0]
  /\ busy = {} /\ reacting = {} /\ marks = {}
  /\ stored = [m \in Messages |-> <<>>]
  /\ anchors = [m \in Messages |-> NoThread]
  /\ failures = 0

-----------------------------------------------------------------------------
(* Hand-offs *)

Running(j) == jobs[j].at \notin {"off", "over"}

Spawn(k, t) == jobs' = [jobs EXCEPT ![<<k, t>>].at = "look"]

\* POST /handoff/draft with the chat method.
SendDraft(t) ==
  /\ hand[t] = "open" /\ jobs[<<"send", t>>] = Off
  /\ Spawn("send", t)
  /\ UNCHANGED <<hand, link, chans, feed, relays, eventVars, failures>>

\* _record_outcome starts the thread inside its transaction.
AcceptStarts(t) ==
  /\ hand[t] = "open" /\ jobs[<<"accept", t>>] = Off
  /\ hand' = [hand EXCEPT ![t] = "accepting"]
  /\ Spawn("accept", t)
  /\ UNCHANGED <<link, chans, feed, relays, eventVars, failures>>

AcceptCommits(t) ==
  /\ hand[t] = "accepting"
  /\ hand' = [hand EXCEPT ![t] = "accepted"]
  /\ UNCHANGED <<channelVars, eventVars, failures>>

AcceptRollsBack(t) ==
  /\ hand[t] = "accepting" /\ failures < MaxFailures
  /\ hand' = [hand EXCEPT ![t] = "open"]
  /\ failures' = failures + 1
  /\ UNCHANGED <<channelVars, eventVars>>

Decline(t) ==
  /\ hand[t] = "open"
  /\ hand' = [hand EXCEPT ![t] = "declined"]
  /\ UNCHANGED <<channelVars, eventVars, failures>>

-----------------------------------------------------------------------------
(* ensure_pair_channel and the posts after it, step by step *)

\* Mutant: a channel per hand-off, as an earlier design had it.
ChannelNamePerThread(t) == t

\* The name is the pair's, and names are unique in a workspace.
ChannelName(t) == PairName

\* Mutant: whatever workspace the row is of.
UsableAny == link # NoLink

Usable == link # NoLink /\ link.ours

\* An existing channel is stamped with the thread; without one the two Slack
\* links are looked up (a missing link ends the thread, see JobEnds).
LookUp(k, t) ==
  /\ jobs[<<k, t>>].at = "look"
  /\ IF Usable
       THEN /\ link' = [link EXCEPT !.thread = t]
            /\ jobs' = [jobs EXCEPT ![<<k, t>>] =
                          [at |-> "post", chan |-> link.chan, had |-> TRUE]]
       ELSE /\ jobs' = [jobs EXCEPT ![<<k, t>>] =
                          [at |-> "make", chan |-> 0, had |-> link # NoLink]]
            /\ UNCHANGED link
  /\ UNCHANGED <<hand, chans, feed, relays, eventVars, failures>>

\* conversations.create: None when the name is taken.
MakeChannel(k, t) ==
  /\ jobs[<<k, t>>].at = "make"
  /\ IF \E c \in DOMAIN chans : chans[c].name = ChannelName(t)
       THEN /\ jobs' = [jobs EXCEPT ![<<k, t>>].at = "over"]
            /\ UNCHANGED chans
       ELSE /\ chans' = Append(chans, [name |-> ChannelName(t), joined |-> FALSE])
            /\ jobs' = [jobs EXCEPT ![<<k, t>>].at = "invite", ![<<k, t>>].chan = Len(chans) + 1]
  /\ UNCHANGED <<hand, link, feed, relays, eventVars, failures>>

Invite(k, t) ==
  /\ jobs[<<k, t>>].at = "invite"
  /\ chans' = [chans EXCEPT ![jobs[<<k, t>>].chan].joined = TRUE]
  /\ jobs' = [jobs EXCEPT ![<<k, t>>].at = "save"]
  /\ UNCHANGED <<hand, link, feed, relays, eventVars, failures>>

\* Mutant: an insert, which the row of another workspace makes fail.
SavedLinkInsert(k, t) ==
  IF link = NoLink THEN [chan |-> jobs[<<k, t>>].chan, ours |-> TRUE, thread |-> t] ELSE link

\* create_channel_link: an upsert on the pair.
SavedLink(k, t) == [chan |-> jobs[<<k, t>>].chan, ours |-> TRUE, thread |-> t]

SaveLink(k, t) ==
  /\ jobs[<<k, t>>].at = "save"
  /\ link' = SavedLink(k, t)
  /\ jobs' = [jobs EXCEPT ![<<k, t>>].at = "post"]
  /\ UNCHANGED <<hand, chans, feed, relays, eventVars, failures>>

\* Sent: the draft with the buttons.  Accepted: the draft unless there was a
\* channel before, then the announcement.
Posts(k, t) ==
  IF k = "send" THEN {"buttons"}
  ELSE {"accepted"} \cup (IF jobs[<<k, t>>].had THEN {} ELSE {"draft"})

PostToChannel(k, t) ==
  /\ jobs[<<k, t>>].at = "post"
  /\ feed' = feed \cup ({jobs[<<k, t>>].chan} \X Posts(k, t) \X {t})
  /\ jobs' = [jobs EXCEPT ![<<k, t>>].at = "over"]
  /\ UNCHANGED <<hand, link, chans, relays, eventVars, failures>>

\* A Slack call that fails, an unlinked party or an exception ends the thread.
JobEnds(k, t) ==
  /\ Running(<<k, t>>) /\ failures < MaxFailures
  /\ jobs' = [jobs EXCEPT ![<<k, t>>].at = "over"]
  /\ failures' = failures + 1
  /\ UNCHANGED <<hand, link, chans, feed, relays, eventVars>>

-----------------------------------------------------------------------------
(* Messages *)

\* Bound: a relay under way has its place among the messages.
Room == Len(log) + Cardinality(relays) < MaxMessages

Write(bot, chan) ==
  /\ Len(log) < MaxMessages
  /\ log' = Append(log, [bot |-> bot, chan |-> chan])

\* One of the pair writes in a channel both are in.
Say(c) ==
  /\ chans[c].joined /\ Room
  /\ Write(FALSE, c)
  /\ UNCHANGED <<hand, channelVars, tries, seen, busy, stored, anchors, reacting, marks, failures>>

-----------------------------------------------------------------------------
(* POST /messages and its relay *)

\* The message is stored in its thread; the relay runs after the response.
PostFromWeb(t) ==
  /\ hand[t] = "accepted" /\ Room
  /\ relays' = relays \cup {<<t, 0>>}
  /\ UNCHANGED <<hand, link, chans, jobs, feed, eventVars, failures>>

\* relay_to_channel: the pair's row as it is now, of whichever workspace; nothing
\* is relayed without one.
RelayLooks(r) ==
  /\ r[2] = 0
  /\ relays' = (relays \ {r}) \cup
                 (IF link = NoLink THEN {} ELSE {<<r[1], link.chan>>})
  /\ UNCHANGED <<hand, link, chans, jobs, feed, eventVars, failures>>

\* The thread the channel stands for is left alone.
RelayPosts(r) ==
  /\ r[2] # 0
  /\ Write(TRUE, r[2])
  /\ stored' = [stored EXCEPT ![Len(log) + 1] = Append(@, r[1])]
  /\ feed' = feed \cup {<<r[2], "chat", r[1]>>}
  /\ relays' = relays \ {r}
  /\ UNCHANGED <<hand, link, chans, jobs, tries, seen, busy, anchors, reacting, marks, failures>>

\* A Slack call that fails, or a task lost with its process: best effort.
RelayFails(r) ==
  /\ relays' = relays \ {r}
  /\ UNCHANGED <<hand, link, chans, jobs, feed, eventVars, failures>>

-----------------------------------------------------------------------------
(* POST /slack/events *)

\* Mutant: nothing is remembered.
RememberedNever(m) == seen

\* SeenEventIds.seen_before: a known id moves to the end, a new one is added there
\* and may evict the oldest.
Remembered(m) ==
  IF m \in ToSet(seen)
    THEN Append(RemoveAt(seen, CHOOSE i \in DOMAIN seen : seen[i] = m), m)
    ELSE Append(IF Len(seen) = MaxSeen THEN Tail(seen) ELSE seen, m)

\* A delivery, the first or a retry: marked as seen before it is handled.
DeliverMessage(m) ==
  /\ m \in DOMAIN log /\ tries[m] < MaxTries
  /\ tries' = [tries EXCEPT ![m] = @ + 1]
  /\ seen' = Remembered(m)
  /\ busy' = IF m \in ToSet(seen) THEN busy ELSE busy \cup {m}
  /\ UNCHANGED <<hand, channelVars, log, stored, anchors, reacting, marks, failures>>

\* Mutant: any thread a channel stands for.
ConversingAny(t) == TRUE

\* thread_parties: only an accepted thread has parties.
Conversing(t) == t # NoThread /\ hand[t] = "accepted"

\* The author is a person (no bot_id), the channel the pair's, its thread accepted.
Mirrored(m) ==
  /\ ~log[m].bot
  /\ link.chan = log[m].chan /\ Conversing(link.thread)

\* Resolved by either, or thanked for by the asker.
Closes(by, text) == text = "solve" \/ (text = "thanks" /\ by = Asker)

\* _handle_message_event: the message, its anchor and the trigger go together.
\* The author and the text matter here only.
HandleMessage(m, by, text) ==
  /\ m \in busy
  /\ busy' = busy \ {m}
  /\ IF Mirrored(m)
       THEN /\ stored' = [stored EXCEPT ![m] = Append(@, link.thread)]
            /\ anchors' = [anchors EXCEPT ![m] = link.thread]
            /\ marks' = IF Closes(by, text) THEN marks \cup {<<m, link.thread>>} ELSE marks
       ELSE UNCHANGED <<stored, anchors, marks>>
  /\ UNCHANGED <<hand, channelVars, log, tries, seen, reacting, failures>>

HandleFails(m) ==
  /\ m \in busy /\ failures < MaxFailures
  /\ busy' = busy \ {m}
  /\ failures' = failures + 1
  /\ UNCHANGED <<hand, channelVars, log, tries, seen, stored, anchors, reacting, marks>>

\* A check mark by one of the pair: schedule_solve_capture.
CheckMark(m) ==
  /\ m \in DOMAIN log /\ m \notin reacting
  /\ \A t \in Threads : <<m, t>> \notin marks
  /\ reacting' = reacting \cup {m}
  /\ UNCHANGED <<hand, channelVars, log, tries, seen, busy, stored, anchors, marks, failures>>

\* Mutant: the channel's current thread, whatever the message.
ReactedThreadCurrent(m) == link.thread

\* The thread the message was mirrored to, else the channel's current one.
ReactedThread(m) == IF anchors[m] # NoThread THEN anchors[m] ELSE link.thread

\* capture_resolved_thread up to the extraction (SolveCapture).
CaptureReacted(m) ==
  /\ m \in reacting
  /\ reacting' = reacting \ {m}
  /\ marks' = IF link.chan = log[m].chan /\ Conversing(ReactedThread(m))
                THEN marks \cup {<<m, ReactedThread(m)>>} ELSE marks
  /\ UNCHANGED <<hand, channelVars, log, tries, seen, busy, stored, anchors, failures>>

-----------------------------------------------------------------------------

JobStep(k, t) ==
  \/ LookUp(k, t) \/ MakeChannel(k, t) \/ Invite(k, t) \/ SaveLink(k, t)
  \/ PostToChannel(k, t)

PairNext ==
  \/ \E t \in Threads :
       \/ SendDraft(t) \/ AcceptStarts(t) \/ AcceptCommits(t) \/ AcceptRollsBack(t)
       \/ Decline(t) \/ PostFromWeb(t)
  \/ \E k \in Kinds, t \in Threads : JobStep(k, t) \/ JobEnds(k, t)
  \/ \E r \in relays : RelayLooks(r) \/ RelayPosts(r) \/ RelayFails(r)
  \/ \E c \in DOMAIN chans : Say(c)
  \/ \E m \in Messages :
       \/ DeliverMessage(m) \/ HandleFails(m) \/ CheckMark(m) \/ CaptureReacted(m)
       \/ \E p \in Pair, x \in Texts : HandleMessage(m, p, x)

PairSpec == PairInit /\ [][PairNext]_pairVars

-----------------------------------------------------------------------------
(* Properties *)

\* However many background threads run for its hand-offs at once, the pair gets
\* at most one channel in the workspace.
OneChannel ==
  Cardinality({c \in DOMAIN chans : chans[c].name # Elsewhere}) <= 1

\* What the bot posts about a hand-off.
Announcements == {post \in feed : post[2] # "chat"}

\* Every post is in a channel both have joined.  What is posted about a hand-off is
\* in the configured workspace, also when the row named another one before, and
\* from the first such post on the row leads there too: whatever a relay looks up
\* from then on is read beside it.  Only until then may a relay, which does not
\* look at the workspace, follow the row into one used before.
PostsReachBoth ==
  /\ \A post \in feed : chans[post[1]].joined
  /\ \A post \in Announcements : chans[post[1]].name # Elsewhere
  /\ Announcements # {} => link.ours /\ chans[link.chan].name # Elsewhere

\* The pair talks in one place: one channel in the workspace, and every post where
\* both read it (ensure_pair_channel, relay_to_channel).
PairMeets == OneChannel /\ PostsReachBoth

\* Threads that race to create the channel may lose, but as long as nothing
\* fails the pair has a usable channel once they are through.
RaceLeavesChannel ==
  \/ failures > 0 \/ \E j \in DOMAIN jobs : Running(j)
  \/ \A j \in DOMAIN jobs : jobs[j].at = "off"
  \/ Usable /\ chans[link.chan].joined

\* Retries, overlapping deliveries and the echo of the bot's own posts never
\* store a message twice (events, _handle_message_event).
StoredOnce == \A m \in Messages : Len(stored[m]) <= 1

\* What races in the background leaves the pair with one usable channel and one
\* copy of each message.
RacesSettle == RaceLeavesChannel /\ StoredOnce

\* A capture triggered by a message mirrored before, by a reaction much later, is
\* of a thread the message is stored in, whatever hand-off the channel stands for
\* at that time.  (The bot's own posts have no anchor.)
CaptureOnItsThread ==
  [][\A mark \in marks' \ marks :
       anchors[mark[1]] # NoThread => mark[2] \in ToSet(stored'[mark[1]])]_pairVars

=============================================================================
