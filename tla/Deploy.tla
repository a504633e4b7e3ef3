------------------------------- MODULE Deploy -------------------------------
(***************************************************************************)
(* Releases, migrations, fixture loads and embedding runs beside a live    *)
(* backend (deploy/deploy.sh, data/seed.py, retrieval/indexing.py).        *)
(*                                                                         *)
(* A job is a script of several transactions.  Between two of them the     *)
(* backend stores answers, indexes knowledge units and inserts colleagues  *)
(* its user sync found; the job or the backend may die.  A vector is the   *)
(* model that made it, a column the width it was declared with, and the    *)
(* five embedded tables, always altered together, are one column.          *)
(***************************************************************************)
EXTENDS Integers, FiniteSets, FiniteSetsExt

CONSTANTS
  Releases, First,     \* what can be deployed, and what runs at first
  Model, Dim, Healthy, \* of a release: embedding model, embedding_dim, /health
  Width,               \* of a model: the width of its vectors
  Texts, Fixtures,     \* rows of the embedded tables, those that seed loads
  Units,               \* rows of knowledge_units
  Roster,              \* ids of the employees in the fixtures
  Newcomers,           \* colleagues without a row
  None,
  MaxJobs, MaxEvents   \* bounds: jobs started; rows written or gone, crashes

ASSUME DeployAssumption ==
  /\ First \in Releases /\ None \notin Releases
  /\ Dim \in [Releases -> Nat \ {0}] /\ Healthy \in [Releases -> BOOLEAN]
  /\ \A r \in Releases : Width[Model[r]] \in Nat \ {0} /\ Model[r] # None
  /\ Fixtures \subseteq Texts /\ Texts \cap Units = {}
  /\ Roster \subseteq Nat \ {0} /\ IsFiniteSet(Roster) /\ IsFiniteSet(Newcomers)
  /\ MaxJobs \in Nat /\ MaxEvents \in Nat

VARIABLES
  code, prev,    \* releases in the deployment directory and in its .prev
  live,          \* the release the backend was started from
  report,        \* how the last job ended
  job,           \* the script that runs, its next step, the rows it embeds
  width,         \* of the embedding columns, 0 while there is no table
  vec,           \* embedding of a row: the model that made it, or None
  rows,          \* texts and units in the database
  row,           \* committed ids of the newcomers, 0 for none
  next,          \* what nextval of the employees sequence returns
  hire,          \* the id an open insertion of a newcomer drew, 0 for none
  jobs, events

releases == <<code, prev, live, report>>
corpus == <<width, vec, rows>>
people == <<row, next, hire>>
bounds == <<jobs, events>>
vars == <<releases, job, corpus, people, bounds>>

Steps == {"idle", "create", "upgrade", "realign", "load", "read", "write", "build", "restart",
          "health"}

Idle == [kind |-> "none", at |-> "idle", todo |-> {}]

\* The fixtures' rows come with their ids and without a vector.
Unembedded == [x \in Texts \cup Units |-> None]

Staff == Roster \cup ({row[n] : n \in Newcomers} \ {0})
Open == {hire[n] : n \in Newcomers} \ {0}

DeployTypeOK ==
  /\ {code, prev, live} \subseteq Releases
  /\ report \in {"none", "running", "ok", "rolled back", "aborted"}
  /\ job \in [kind : {"none", "deploy", "seed", "loaded"}, at : Steps, todo : SUBSET Texts]
  /\ width \in [{"corpus", "units"} -> Nat]
  /\ rows \subseteq Texts \cup Units
  /\ vec \in [Texts \cup Units -> {Model[r] : r \in Releases} \cup {None}]
  /\ \A x \in Texts \cup Units :
       vec[x] # None =>
         /\ x \in rows
         /\ Width[vec[x]] = IF x \in Units THEN width.units ELSE width.corpus
  /\ row \in [Newcomers -> Nat] /\ hire \in [Newcomers -> Nat] /\ next \in Nat \ {0}

Init ==
  /\ code = First /\ prev = First /\ live = First
  /\ report = "none" /\ job = Idle
  /\ width \in [corpus : {Dim[First]}, units : {0, Dim[First]}]
  /\ vec = Unembedded
  /\ rows = Fixtures
  /\ row = [n \in Newcomers |-> 0] /\ hire = [n \in Newcomers |-> 0]
  /\ next = Max(Roster \cup {0}) + 1
  /\ jobs = 0 /\ events = 0

-----------------------------------------------------------------------------
(* The live backend *)

Event == events < MaxEvents /\ events' = events + 1 /\ UNCHANGED jobs

Fits(x) == Width[Model[live]] = IF x \in Units THEN width.units ELSE width.corpus

\* _capture_answer: embedded first, stored without a vector when that fails; a
\* vector of another width than the column fails the insertion, which is logged.
Answer(t) ==
  /\ Event
  /\ t \in Texts \ (Fixtures \cup rows)
  /\ \E v \in {None, Model[live]} :
       /\ v # None => Fits(t)
       /\ rows' = rows \cup {t}
       /\ vec' = [vec EXCEPT ![t] = v]
  /\ UNCHANGED <<releases, job, width, people>>

\* delete_question takes the answers along.
Delete(t) ==
  /\ Event
  /\ t \in Texts \cap rows
  /\ rows' = rows \ {t}
  /\ vec' = [vec EXCEPT ![t] = None]
  /\ UNCHANGED <<releases, job, width, people>>

\* A capture stores a unit.
Capture(u) ==
  /\ Event
  /\ width.units # 0 /\ u \in Units \ rows
  /\ rows' = rows \cup {u}
  /\ UNCHANGED <<releases, job, width, vec, people>>

\* schedule_knowledge_embed: every unit without a vector in one transaction.
Index ==
  LET missing == {u \in Units \cap rows : vec[u] = None}
  IN  /\ missing # {} /\ \A u \in missing : Fits(u)
      /\ vec' = [x \in DOMAIN vec |-> IF x \in missing THEN Model[live] ELSE vec[x]]
      /\ UNCHANGED <<releases, job, width, rows, people, bounds>>

\* Mutant: every insertion realigns first, and draws what it sees free.
DrawnRealigned == Max(Staff \cup {0}) + 1

\* Mutant: the id is the number of colleagues, plus one.
DrawnByCount == Cardinality(Staff) + 1

\* nextval hands an id out once, whatever becomes of the transaction.
Drawn == next

\* _create_employee: the insertion fails at once on the id of a committed row.
Hire(n) ==
  /\ row[n] = 0 /\ hire[n] = 0
  /\ next' = Drawn + 1
  /\ hire' = [hire EXCEPT ![n] = IF Drawn \in Staff THEN 0 ELSE Drawn]
  /\ UNCHANGED <<releases, job, corpus, row, bounds>>

\* The sync commits, unless somebody else's insertion took the id meanwhile.
Hired(n) ==
  /\ hire[n] # 0
  /\ row' = IF hire[n] \in Staff THEN row ELSE [row EXCEPT ![n] = hire[n]]
  /\ hire' = [hire EXCEPT ![n] = 0]
  /\ UNCHANGED <<releases, job, corpus, next, bounds>>

\* The supervisor starts what is in the directory; open transactions are gone.
Crash ==
  /\ Event
  /\ live' = code
  /\ hire' = [n \in Newcomers |-> 0]
  /\ UNCHANGED <<code, prev, report, job, corpus, row, next>>

-----------------------------------------------------------------------------
(* The scripts *)

At(step) == job.at = step
Goto(step) == job' = [job EXCEPT !.at = step]

Started(kind) ==
  /\ job = Idle /\ jobs < MaxJobs
  /\ jobs' = jobs + 1
  /\ job' = [kind |-> kind, at |-> "create", todo |-> {}]
  /\ report' = "running"
  /\ UNCHANGED <<live, corpus, people, events>>

\* deploy.sh: snapshot the directory, then sync the new release into it.
Release(r) == Started("deploy") /\ prev' = code /\ code' = r

\* python -m tekijin.data.seed
Seed == Started("seed") /\ UNCHANGED <<code, prev>>

\* Mutant: a narrower model leaves the columns as they are.
WantedAtLeast == Max({width.corpus, Dim[code]})

\* settings.embedding_dim of the code the script runs from.
Wanted == Dim[code]

\* create_all makes missing tables with the width of the new code.
Create ==
  /\ At("create") /\ Goto("upgrade")
  /\ width' = [width EXCEPT !.units = IF @ = 0 THEN Wanted ELSE @]
  /\ UNCHANGED <<releases, vec, rows, people, bounds>>

\* Mutant: the block alters the columns on every run.
StaleAlways == Texts

\* The rows a new width empties: ALTER ... USING NULL, of the listed tables.
Stale == IF width.corpus = Wanted THEN {} ELSE Texts

\* _apply_schema_upgrades, one transaction, which waits for open insertions.
Upgrade ==
  /\ At("upgrade") /\ Goto("realign")
  /\ Open = {}
  /\ width' = [width EXCEPT !.corpus = Wanted]
  /\ vec' = [x \in DOMAIN vec |-> IF x \in Stale THEN None ELSE vec[x]]
  /\ UNCHANGED <<releases, rows, people, bounds>>

\* setval to the largest id committed, which counts as called; without one, nextval
\* starts over.
Realigned == Max(Staff \cup {0}) + 1

Ended(how) == job' = Idle /\ report' = how /\ UNCHANGED <<code, prev, live>>

\* realign_identity_sequences waits for nobody.
Realign ==
  /\ At("realign")
  /\ next' = Realigned
  /\ CASE job.kind = "deploy" -> Goto("read") /\ UNCHANGED releases
       [] job.kind = "seed"   -> Goto("load") /\ UNCHANGED releases
       [] OTHER               -> Ended("ok")
  /\ UNCHANGED <<corpus, row, hire, bounds>>

\* seed_session: TRUNCATE ... RESTART IDENTITY CASCADE and insert, in one
\* transaction; the fixtures bring their ids along.
Load ==
  /\ At("load") /\ job' = [job EXCEPT !.kind = "loaded", !.at = "realign"]
  /\ Open = {}
  /\ rows' = Fixtures
  /\ vec' = Unembedded
  /\ row' = [n \in Newcomers |-> 0] /\ next' = 1
  /\ UNCHANGED <<releases, width, hire, bounds>>

\* embed_corpus, as the scripts call it, skips rows that have a vector.
Missing == {t \in Texts \cap rows : vec[t] = None}

\* embed_fixtures: the width is probed first, then rows without a vector read.
EmbedRead ==
  /\ At("read")
  /\ job' = IF Width[Model[code]] = Dim[code]
              THEN [job EXCEPT !.at = "write", !.todo = Missing]
              ELSE [job EXCEPT !.at = "build"]
  /\ UNCHANGED <<releases, corpus, people, bounds>>

\* One commit at the end; a row that has gone meanwhile fails it as a whole, and
\* the deployment goes on.
EmbedWrite ==
  /\ At("write")
  /\ job' = [job EXCEPT !.at = "build", !.todo = {}]
  /\ vec' = [x \in DOMAIN vec |->
              IF x \in job.todo /\ job.todo \subseteq rows THEN Model[code] ELSE vec[x]]
  /\ UNCHANGED <<releases, width, rows, people, bounds>>

Build == At("build") /\ Goto("restart") /\ UNCHANGED <<releases, corpus, people, bounds>>

\* The old process goes, and its transactions with it.
Restart ==
  /\ At("restart") /\ Goto("health")
  /\ live' = code
  /\ hire' = [n \in Newcomers |-> 0]
  /\ UNCHANGED <<code, prev, report, corpus, row, next, bounds>>

\* Unhealthy: the previous tree comes back and is started; the schema stays.
Health ==
  /\ At("health")
  /\ IF Healthy[code] THEN Ended("ok") /\ UNCHANGED hire
       ELSE /\ job' = Idle /\ report' = "rolled back"
            /\ code' = prev /\ live' = prev /\ UNCHANGED prev
            /\ hire' = [n \in Newcomers |-> 0]
  /\ UNCHANGED <<corpus, row, next, bounds>>

\* embed_missing is best effort: the deployment goes on without it.
EmbedFails ==
  /\ job.at \in {"read", "write"}
  /\ job' = [job EXCEPT !.at = "build", !.todo = {}]
  /\ UNCHANGED <<releases, corpus, people, bounds>>

\* set -e: a step that fails ends the script where it is, or the runner dies.
Abort ==
  /\ job # Idle
  /\ Ended("aborted")
  /\ UNCHANGED <<corpus, people, bounds>>

Script ==
  \/ Create \/ Upgrade \/ Realign \/ Load
  \/ EmbedRead \/ EmbedWrite \/ EmbedFails \/ Build \/ Restart \/ Health

Next ==
  \/ \E t \in Texts : Answer(t) \/ Delete(t)
  \/ \E u \in Units : Capture(u)
  \/ Index
  \/ \E n \in Newcomers : Hire(n) \/ Hired(n)
  \/ Crash
  \/ \E r \in Releases : Release(r)
  \/ Seed \/ Script \/ Abort

Fairness == \A n \in Newcomers : WF_vars(Hire(n)) /\ WF_vars(Hired(n))

Spec == Init /\ [][Next]_vars /\ Fairness

-----------------------------------------------------------------------------
(* Properties *)

\* "so the new code never serves against a stale schema" (deploy.sh): after a
\* deployment or a load that reported success, a query of the live release meets
\* vectors of its own width in every searched table that is migrated.
DeployedFits ==
  report = "ok" /\ job = Idle /\ live = code /\ Width[Model[live]] = Dim[live]
    => \A t \in Texts : vec[t] # None => Width[vec[t]] = Width[Model[live]]

\* "a no-op there (no table rewrite)" (_apply_schema_upgrades): a text loses its
\* vector to a new width, to its deletion or to a load, and to no other step.
VectorsKept ==
  [][\A x \in Texts \cup Units :
       vec[x] # None /\ vec'[x] = None =>
         \/ x \notin rows'
         \/ job.at = "load"
         \/ x \in Texts /\ width'.corpus # width.corpus]_vars

\* The ids ahead are free, and no two open insertions drew the same one.
Ahead ==
  /\ \A id \in Staff \cup Open : id < next
  /\ \A m, n \in Newcomers : m # n /\ hire[m] # 0 => hire[m] # hire[n]

\* "Doing this ONCE, here, is what lets every insert afterwards simply use the
\* sequence" (realign_identity_sequences): only a load puts the sequence behind
\* the ids, until it is realigned, or a realignment that an open insertion crosses.
IdsFresh ==
  [][Ahead /\ ~Ahead' => \/ job.at = "load"
                         \/ job.at = "realign" /\ Open # {}]_vars

\* What a deployment does not mean to change stays: vectors and free ids.
UpgradesKeep == VectorsKept /\ IdsFresh

\* However often the sequence was put behind, each new colleague gets a row in
\* the end: a conflict costs a run of the sync, not the colleague.
NewcomerArrives == \A n \in Newcomers : <>[](row[n] # 0)

=============================================================================
