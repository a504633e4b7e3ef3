---------------------------- MODULE DeployProofs ----------------------------
(***************************************************************************)
(* Proofs about Deploy, for any releases, models, rows, colleagues and     *)
(* bounds: what reports success fits the columns, a vector goes only with  *)
(* its width, its row or a load, and the employees sequence stays ahead of *)
(* the ids but for a load and a realignment that an insertion crosses.     *)
(*                                                                         *)
(* A query fits because every vector fits its column whatever the script   *)
(* is in the middle of, and because a script past its schema upgrade, or   *)
(* one that ended well, left the column as wide as the code in place says. *)
(***************************************************************************)
EXTENDS Deploy, FiniteSetTheorems, WellFoundedInduction, TLAPS

\* Where a script is once the columns are those of its code.
UpgradedSteps == {"realign", "load", "read", "write", "build", "restart", "health"}

ScriptsReport == job # Idle => report = "running"

ColumnsUpgraded == job.at \in UpgradedSteps \/ report = "ok" => width.corpus = Dim[code]

\* Rows are embedded with a model that was probed first.
WidthProbed == job.at = "write" => Width[Model[code]] = Dim[code]

DeployInv == DeployTypeOK /\ ScriptsReport /\ ColumnsUpgraded /\ WidthProbed

-----------------------------------------------------------------------------
(* The largest id *)

\* A finite set of ids has a largest one.
LEMMA MaxOfIds ==
  ASSUME NEW S \in SUBSET Nat, IsFiniteSet(S), S # {}
  PROVE  Max(S) \in S /\ \A x \in S : x <= Max(S)
<1> DEFINE Above(x) == {y \in S : y > x}
           T == {Above(x) : x \in S}
<1>1. T \subseteq FiniteSubsetsOf(S) /\ T # {}
  <2>1. \A x \in S : Above(x) \subseteq S
    OBVIOUS
  <2>2. \A x \in S : IsFiniteSet(Above(x))
    BY <2>1, FS_Subset
  <2> QED
    BY <2>1, <2>2 DEF FiniteSubsetsOf
<1>2. IsWellFoundedOn(StrictSubsetOrdering(S), FiniteSubsetsOf(S))
  BY FS_StrictSubsetOrderingWellFounded
<1>3. PICK t \in T : \A u \in T : ~(<<u, t>> \in StrictSubsetOrdering(S))
  <2> HIDE DEF T
  <2> QED
    BY <1>1, <1>2, WFMin
<1>4. PICK x \in S : t = Above(x)
  OBVIOUS
<1>5. ASSUME NEW y \in S, y > x PROVE FALSE
  <2>0. x \in Nat /\ y \in Nat /\ ~(y > y) /\ \A z \in S : z > y => z > x
    BY <1>5
  <2>1. Above(y) \subseteq Above(x) /\ y \in Above(x) /\ y \notin Above(y)
    BY <2>0, <1>5
  <2>2. <<Above(y), t>> \in StrictSubsetOrdering(S)
    <3>1. Above(y) \in SUBSET S /\ t \in SUBSET S /\ Above(y) \subseteq t /\ Above(y) # t
      BY <2>1, <1>4
    <3> HIDE DEF Above
    <3> QED
      BY <3>1 DEF StrictSubsetOrdering
  <2> QED
    BY <2>2, <1>3
<1>6. \A y \in S : x >= y
  BY <1>5
<1> QED
  BY <1>6 DEF Max

\* The sequence realigned is past every id that is committed.
LEMMA RealignedPast ==
  ASSUME DeployTypeOK
  PROVE  Realigned \in Nat \ {0} /\ \A id \in Staff : id < Realigned
<1> DEFINE Taken == {row[n] : n \in Newcomers}
           S == Staff \cup {0}
<1>1. row \in [Newcomers -> Nat] /\ Roster \subseteq Nat
  BY DeployAssumption DEF DeployTypeOK
<1>2. IsFiniteSet(Taken)
  <2>1. row \in Surjection(Newcomers, Taken)
    BY <1>1 DEF Surjection
  <2> HIDE DEF Taken
  <2> QED
    BY <2>1, FS_Surjection, DeployAssumption
<1>3. S = (Roster \cup {0}) \cup Taken
  BY DEF Staff
<1>4. IsFiniteSet(S)
  <2>1. IsFiniteSet(Roster \cup {0})
    BY FS_AddElement, DeployAssumption
  <2> HIDE DEF Taken, S
  <2> QED
    BY <1>2, <1>3, <2>1, FS_Union
<1>5. S \in SUBSET Nat /\ S # {} /\ \A id \in Staff : id \in S
  <2>1. Taken \subseteq Nat
    BY <1>1
  <2>2. S \subseteq Nat
    <3> HIDE DEF Taken, S
    <3> QED
      BY <1>1, <1>3, <2>1
  <2>3. 0 \in S /\ \A id \in Staff : id \in S
    OBVIOUS
  <2> HIDE DEF S
  <2> QED
    BY <2>2, <2>3
<1>6. Max(S) \in S /\ \A x \in S : x <= Max(S)
  <2> HIDE DEF S
  <2> QED
    BY <1>4, <1>5, MaxOfIds
<1>7. Realigned = Max(S) + 1
  BY DEF Realigned
<1>8. PICK m \in Nat : m = Max(S) /\ \A id \in Staff : id <= m /\ id \in Nat
  <2> HIDE DEF S
  <2> QED
    BY <1>5, <1>6
<1>9. Realigned = m + 1
  BY <1>7, <1>8
<1> QED
  BY <1>8, <1>9

-----------------------------------------------------------------------------
(* What the columns hold *)

\* A width in the schema, and the vectors of a release in place.
LEMMA Models ==
  ASSUME DeployTypeOK
  PROVE  /\ \A r \in Releases : /\ Model[r] \in {Model[q] : q \in Releases} \cup {None}
                                /\ Model[r] # None /\ Dim[r] \in Nat \ {0}
                                /\ Width[Model[r]] \in Nat \ {0}
         /\ code \in Releases /\ live \in Releases /\ prev \in Releases
         /\ width.corpus \in Nat /\ width.units \in Nat
  BY DeployAssumption DEF DeployTypeOK

\* The steps of the backend keep what the columns hold, and touch no script.
LEMMA BackendTyped ==
  ASSUME DeployTypeOK,
         \/ \E t \in Texts : Answer(t) \/ Delete(t)
         \/ \E u \in Units : Capture(u)
         \/ Index
         \/ \E n \in Newcomers : Hire(n) \/ Hired(n)
         \/ Crash
  PROVE  DeployTypeOK' /\ UNCHANGED <<code, prev, report, job, width>>
<1>t. /\ vec \in [Texts \cup Units -> {Model[r] : r \in Releases} \cup {None}]
      /\ row \in [Newcomers -> Nat] /\ hire \in [Newcomers -> Nat] /\ next \in Nat \ {0}
      /\ rows \subseteq Texts \cup Units /\ Texts \cap Units = {}
  BY DeployAssumption DEF DeployTypeOK
<1>1. ASSUME NEW t \in Texts, Answer(t)
      PROVE  DeployTypeOK' /\ UNCHANGED <<code, prev, report, job, width>>
  <2>1. PICK v \in {None, Model[live]} :
          (v # None => Fits(t)) /\ rows' = rows \cup {t} /\ vec' = [vec EXCEPT ![t] = v]
    BY <1>1 DEF Answer
  <2>2. vec' \in [Texts \cup Units -> {Model[r] : r \in Releases} \cup {None}]
    BY <2>1, <1>t, Models
  <2>3. /\ UNCHANGED <<code, prev, live, report, job, width, row, next, hire>>
    BY <1>1 DEF Answer, releases, people
  <2>4. \A x \in Texts \cup Units : vec'[x] # None =>
          x \in rows' /\ Width[vec'[x]] = IF x \in Units THEN width.units ELSE width.corpus
    BY <2>1, <1>t DEF Fits, DeployTypeOK
  <2>5. rows' \subseteq Texts \cup Units
    BY <2>1, <1>t
  <2> QED
    BY <2>2, <2>3, <2>4, <2>5 DEF DeployTypeOK
<1>2. ASSUME NEW t \in Texts, Delete(t)
      PROVE  DeployTypeOK' /\ UNCHANGED <<code, prev, report, job, width>>
  <2>1. rows' = rows \ {t} /\ vec' = [vec EXCEPT ![t] = None]
    BY <1>2 DEF Delete
  <2>2. vec' \in [Texts \cup Units -> {Model[r] : r \in Releases} \cup {None}]
    BY <2>1, <1>t
  <2>3. UNCHANGED <<code, prev, live, report, job, width, row, next, hire>>
    BY <1>2 DEF Delete, releases, people
  <2>4. \A x \in Texts \cup Units : vec'[x] # None => vec'[x] = vec[x] /\ x # t
    BY <2>1, <1>t
  <2> QED
    BY <2>1, <2>2, <2>3, <2>4 DEF DeployTypeOK
<1>3. ASSUME NEW u \in Units, Capture(u)
      PROVE  DeployTypeOK' /\ UNCHANGED <<code, prev, report, job, width>>
  BY <1>3 DEF Capture, DeployTypeOK, releases, people
<1>4. CASE Index
  <2> DEFINE missing == {u \in Units \cap rows : vec[u] = None}
  <2>1. /\ \A u \in missing : Fits(u)
        /\ vec' = [x \in DOMAIN vec |-> IF x \in missing THEN Model[live] ELSE vec[x]]
        /\ UNCHANGED <<code, prev, live, report, job, width, rows, row, next, hire>>
    BY <1>4 DEF Index, releases, people
  <2>2. vec' \in [Texts \cup Units -> {Model[r] : r \in Releases} \cup {None}]
    BY <2>1, <1>t, Models
  <2>3. \A x \in Texts \cup Units :
          vec'[x] = IF x \in missing THEN Model[live] ELSE vec[x]
    BY <2>1, <1>t
  <2>4. \A x \in missing : x \in Units /\ x \in rows /\ Width[Model[live]] = width.units
    BY <2>1 DEF Fits
  <2> HIDE DEF missing
  <2>5. \A x \in Texts \cup Units : vec'[x] # None =>
          x \in rows' /\ Width[vec'[x]] = IF x \in Units THEN width'.units ELSE width'.corpus
    BY <2>1, <2>3, <2>4 DEF DeployTypeOK
  <2> QED
    BY <2>1, <2>2, <2>5 DEF DeployTypeOK
<1>5. ASSUME NEW n \in Newcomers, Hire(n)
      PROVE  DeployTypeOK' /\ UNCHANGED <<code, prev, report, job, width>>
  <2>1. next' \in Nat \ {0} /\ hire' \in [Newcomers -> Nat]
    BY <1>5, <1>t DEF Hire, Drawn
  <2> QED
    BY <1>5, <2>1 DEF Hire, DeployTypeOK, releases, corpus
<1>6. ASSUME NEW n \in Newcomers, Hired(n)
      PROVE  DeployTypeOK' /\ UNCHANGED <<code, prev, report, job, width>>
  <2>1. row' \in [Newcomers -> Nat] /\ hire' \in [Newcomers -> Nat]
    BY <1>6, <1>t DEF Hired
  <2> QED
    BY <1>6, <2>1 DEF Hired, DeployTypeOK, releases, corpus
<1>7. CASE Crash
  <2>1. live' \in Releases /\ hire' \in [Newcomers -> Nat]
    BY <1>7, Models DEF Crash
  <2> QED
    BY <1>7, <2>1 DEF Crash, DeployTypeOK, corpus
<1> QED
  BY <1>1, <1>2, <1>3, <1>4, <1>5, <1>6, <1>7

\* Every step of a script keeps what the columns hold, and where the script is.
LEMMA ScriptStep ==
  ASSUME DeployInv, Script
  PROVE  DeployTypeOK' /\ ScriptsReport' /\ ColumnsUpgraded' /\ WidthProbed'
<1>t. /\ DeployTypeOK /\ job \in [kind : {"none", "deploy", "seed", "loaded"}, at : Steps,
                                 todo : SUBSET Texts]
      /\ vec \in [Texts \cup Units -> {Model[r] : r \in Releases} \cup {None}]
      /\ width \in [{"corpus", "units"} -> Nat]
      /\ row \in [Newcomers -> Nat] /\ hire \in [Newcomers -> Nat] /\ next \in Nat \ {0}
      /\ rows \subseteq Texts \cup Units /\ Texts \cap Units = {} /\ Fixtures \subseteq Texts
      /\ \A x \in Texts \cup Units : vec[x] # None =>
           x \in rows /\ Width[vec[x]] = IF x \in Units THEN width.units ELSE width.corpus
  BY DeployAssumption DEF DeployInv, DeployTypeOK
<1>s. /\ \A step \in Steps \ {"idle"} : job.at = step => job # Idle /\ report = "running"
      /\ \A step \in Steps \ {"idle"} : [job EXCEPT !.at = step] # Idle
  BY <1>t DEF DeployInv, ScriptsReport, Idle
<1>w. Wanted \in Nat \ {0} /\ Wanted = Dim[code]
  BY <1>t, Models DEF Wanted
<1>1. CASE Create
  <2>1. /\ job' = [job EXCEPT !.at = "upgrade"] /\ job.at = "create"
        /\ width' = [width EXCEPT !.units = IF @ = 0 THEN Wanted ELSE @]
        /\ UNCHANGED <<code, prev, live, report, vec, rows, row, next, hire>>
    BY <1>1 DEF Create, At, Goto, releases, people
  <2>2. width' \in [{"corpus", "units"} -> Nat] /\ width'.corpus = width.corpus
        /\ (width.units # 0 => width'.units = width.units)
    BY <2>1, <1>t, <1>w
  <2>3. \A x \in Texts \cup Units : vec[x] # None => Width[vec[x]] # 0
    BY <1>t, Models
  <2>4. \A x \in Texts \cup Units : vec'[x] # None =>
          x \in rows' /\ Width[vec'[x]] = IF x \in Units THEN width'.units ELSE width'.corpus
    BY <2>1, <2>2, <2>3, <1>t
  <2>5. job' \in [kind : {"none", "deploy", "seed", "loaded"}, at : Steps, todo : SUBSET Texts]
        /\ job'.at = "upgrade"
    BY <2>1, <1>t DEF Steps
  <2>6. report' = "running"
    BY <2>1, <1>s DEF Steps
  <2>7. DeployTypeOK'
    BY <2>1, <2>2, <2>4, <2>5, <1>t DEF DeployTypeOK
  <2> QED
    BY <2>5, <2>6, <2>7 DEF ScriptsReport, ColumnsUpgraded, WidthProbed, UpgradedSteps
<1>2. CASE Upgrade
  <2>1. /\ job' = [job EXCEPT !.at = "realign"] /\ job.at = "upgrade"
        /\ width' = [width EXCEPT !.corpus = Wanted]
        /\ vec' = [x \in DOMAIN vec |-> IF x \in Stale THEN None ELSE vec[x]]
        /\ UNCHANGED <<code, prev, live, report, rows, row, next, hire>>
    BY <1>2 DEF Upgrade, At, Goto, releases, people
  <2>2. /\ width' \in [{"corpus", "units"} -> Nat] /\ width'.corpus = Dim[code]
        /\ width'.units = width.units /\ (width.corpus = Wanted => width' = width)
    BY <2>1, <1>t, <1>w
  <2>3. /\ vec' \in [Texts \cup Units -> {Model[r] : r \in Releases} \cup {None}]
        /\ \A x \in Texts \cup Units : vec'[x] # None => vec'[x] = vec[x] /\ x \notin Stale
    BY <2>1, <1>t
  <2>4. \A x \in Texts \cup Units : x \notin Stale => x \in Units \/ width.corpus = Wanted
    BY DEF Stale
  <2>5. \A x \in Texts \cup Units : vec'[x] # None =>
          x \in rows' /\ Width[vec'[x]] = IF x \in Units THEN width'.units ELSE width'.corpus
    BY <2>1, <2>2, <2>3, <2>4, <1>t
  <2>6. job' \in [kind : {"none", "deploy", "seed", "loaded"}, at : Steps, todo : SUBSET Texts]
        /\ job'.at = "realign"
    BY <2>1, <1>t DEF Steps
  <2>7. report' = "running"
    BY <2>1, <1>s DEF Steps
  <2>8. DeployTypeOK'
    BY <2>1, <2>2, <2>3, <2>5, <2>6, <1>t DEF DeployTypeOK
  <2> QED
    BY <2>1, <2>2, <2>6, <2>7, <2>8 DEF ScriptsReport, ColumnsUpgraded, WidthProbed
<1>3. CASE Realign
  <2>1. /\ job.at = "realign" /\ next' = Realigned
        /\ UNCHANGED <<code, prev, live, width, vec, rows, row, hire>>
        /\ \/ job' = [job EXCEPT !.at = "read"] /\ report' = report
           \/ job' = [job EXCEPT !.at = "load"] /\ report' = report
           \/ job' = Idle /\ report' = "ok"
    BY <1>3 DEF Realign, At, Goto, Ended, releases, corpus
  <2>2. width.corpus = Dim[code]
    BY <2>1 DEF DeployInv, ColumnsUpgraded, UpgradedSteps
  <2>3. /\ job' \in [kind : {"none", "deploy", "seed", "loaded"}, at : Steps, todo : SUBSET Texts]
        /\ job'.at # "write"
    BY <2>1, <1>t DEF Steps, Idle
  <2>4. job' # Idle => report' = "running"
    BY <2>1, <1>s DEF Steps
  <2>5. report' \in {"none", "running", "ok", "rolled back", "aborted"}
    BY <2>1, <1>t DEF DeployTypeOK
  <2>6. next' \in Nat \ {0}
    BY <2>1, <1>t, RealignedPast
  <2>7. DeployTypeOK'
    BY <2>1, <2>3, <2>5, <2>6, <1>t DEF DeployTypeOK
  <2> QED
    BY <2>1, <2>2, <2>3, <2>4, <2>7 DEF ScriptsReport, ColumnsUpgraded, WidthProbed
<1>4. CASE Load
  <2>1. /\ job.at = "load" /\ job' = [job EXCEPT !.kind = "loaded", !.at = "realign"]
        /\ rows' = Fixtures /\ vec' = Unembedded
        /\ row' = [n \in Newcomers |-> 0] /\ next' = 1
        /\ UNCHANGED <<code, prev, live, report, width, hire>>
    BY <1>4 DEF Load, At, releases
  <2>2. width.corpus = Dim[code]
    BY <2>1 DEF DeployInv, ColumnsUpgraded, UpgradedSteps
  <2>3. /\ job' \in [kind : {"none", "deploy", "seed", "loaded"}, at : Steps, todo : SUBSET Texts]
        /\ job'.at = "realign"
    BY <2>1, <1>t DEF Steps
  <2>4. report' = "running"
    BY <2>1, <1>s DEF Steps
  <2>5. /\ vec' \in [Texts \cup Units -> {Model[r] : r \in Releases} \cup {None}]
        /\ \A x \in Texts \cup Units : vec'[x] = None
        /\ row' \in [Newcomers -> Nat] /\ next' \in Nat \ {0} /\ rows' \subseteq Texts \cup Units
    BY <2>1, <1>t DEF Unembedded
  <2>6. DeployTypeOK'
    BY <2>1, <2>3, <2>5, <1>t DEF DeployTypeOK
  <2> QED
    BY <2>1, <2>2, <2>3, <2>4, <2>6 DEF ScriptsReport, ColumnsUpgraded, WidthProbed
<1>5. CASE EmbedRead \/ EmbedFails \/ Build
  <2>1. /\ UNCHANGED <<code, prev, live, report, width, vec, rows, row, next, hire>>
        /\ job.at \in {"read", "write", "build"}
        /\ \/ /\ job' = [job EXCEPT !.at = "write", !.todo = Missing]
              /\ Width[Model[code]] = Dim[code]
           \/ job' = [job EXCEPT !.at = "build"]
           \/ job' = [job EXCEPT !.at = "build", !.todo = {}]
           \/ job' = [job EXCEPT !.at = "restart"]
    BY <1>5 DEF EmbedRead, EmbedFails, Build, At, Goto, releases, corpus, people
  <2>2. width.corpus = Dim[code]
    BY <2>1 DEF DeployInv, ColumnsUpgraded, UpgradedSteps
  <2>3. Missing \subseteq Texts
    BY DEF Missing
  <2>4. /\ job' \in [kind : {"none", "deploy", "seed", "loaded"}, at : Steps, todo : SUBSET Texts]
        /\ job'.at = "write" => Width[Model[code]] = Dim[code]
    BY <2>1, <2>3, <1>t DEF Steps
  <2>5. report' = "running"
    BY <2>1, <1>s DEF Steps
  <2>6. DeployTypeOK'
    BY <2>1, <2>4, <1>t DEF DeployTypeOK
  <2> QED
    BY <2>1, <2>2, <2>4, <2>5, <2>6 DEF ScriptsReport, ColumnsUpgraded, WidthProbed
<1>6. CASE EmbedWrite
  <2>1. /\ job.at = "write" /\ job' = [job EXCEPT !.at = "build", !.todo = {}]
        /\ vec' = [x \in DOMAIN vec |->
             IF x \in job.todo /\ job.todo \subseteq rows THEN Model[code] ELSE vec[x]]
        /\ UNCHANGED <<code, prev, live, report, width, rows, row, next, hire>>
    BY <1>6 DEF EmbedWrite, At, releases, people
  <2>2. width.corpus = Dim[code] /\ Width[Model[code]] = Dim[code]
    BY <2>1 DEF DeployInv, ColumnsUpgraded, UpgradedSteps, WidthProbed
  <2>3. /\ job' \in [kind : {"none", "deploy", "seed", "loaded"}, at : Steps, todo : SUBSET Texts]
        /\ job'.at = "build" /\ job.todo \subseteq Texts
    BY <2>1, <1>t DEF Steps
  <2>4. report' = "running"
    BY <2>1, <1>s DEF Steps
  <2>5. vec' \in [Texts \cup Units -> {Model[r] : r \in Releases} \cup {None}]
    BY <2>1, <1>t, Models
  <2>6. \A x \in Texts \cup Units : vec'[x] # None =>
          x \in rows' /\ Width[vec'[x]] = IF x \in Units THEN width'.units ELSE width'.corpus
    BY <2>1, <2>2, <2>3, <1>t
  <2>7. DeployTypeOK'
    BY <2>1, <2>3, <2>5, <2>6, <1>t DEF DeployTypeOK
  <2> QED
    BY <2>1, <2>2, <2>3, <2>4, <2>7 DEF ScriptsReport, ColumnsUpgraded, WidthProbed
<1>7. CASE Restart
  <2>1. /\ job.at = "restart" /\ job' = [job EXCEPT !.at = "health"]
        /\ live' = code /\ hire' = [n \in Newcomers |-> 0]
        /\ UNCHANGED <<code, prev, report, width, vec, rows, row, next>>
    BY <1>7 DEF Restart, At, Goto, corpus
  <2>2. width.corpus = Dim[code]
    BY <2>1 DEF DeployInv, ColumnsUpgraded, UpgradedSteps
  <2>3. /\ job' \in [kind : {"none", "deploy", "seed", "loaded"}, at : Steps, todo : SUBSET Texts]
        /\ job'.at = "health"
    BY <2>1, <1>t DEF Steps
  <2>4. report' = "running"
    BY <2>1, <1>s DEF Steps
  <2>5. DeployTypeOK'
    BY <2>1, <2>3, <1>t, Models DEF DeployTypeOK
  <2> QED
    BY <2>1, <2>2, <2>3, <2>4, <2>5 DEF ScriptsReport, ColumnsUpgraded, WidthProbed
<1>8. CASE Health
  <2>1. /\ job.at = "health" /\ job' = Idle
        /\ hire' \in {hire, [n \in Newcomers |-> 0]}
        /\ UNCHANGED <<width, vec, rows, row, next>>
        /\ \/ report' = "ok" /\ UNCHANGED <<code, prev, live>>
           \/ report' = "rolled back" /\ code' = prev /\ live' = prev /\ prev' = prev
    BY <1>8 DEF Health, At, Ended, corpus
  <2>2. width.corpus = Dim[code]
    BY <2>1 DEF DeployInv, ColumnsUpgraded, UpgradedSteps
  <2>3. /\ Idle \in [kind : {"none", "deploy", "seed", "loaded"}, at : Steps, todo : SUBSET Texts]
        /\ Idle.at = "idle"
    BY DEF Steps, Idle
  <2>4. hire' \in [Newcomers -> Nat]
    <3>1. [n \in Newcomers |-> 0] \in [Newcomers -> Nat]
      OBVIOUS
    <3>2. hire' = hire \/ hire' = [n \in Newcomers |-> 0]
      BY <2>1
    <3> QED
      BY <3>1, <3>2, <1>t
  <2>5. {code', prev', live'} \subseteq Releases
        /\ report' \in {"none", "running", "ok", "rolled back", "aborted"}
    BY <2>1, <1>t, Models
  <2>6. DeployTypeOK'
    BY <2>1, <2>3, <2>4, <2>5, <1>t DEF DeployTypeOK
  <2>7. job' = Idle /\ job'.at = "idle" /\ width' = width
    BY <2>1, <2>3
  <2>8. report' = "ok" => code' = code
    BY <2>1
  <2>9. ColumnsUpgraded'
    BY <2>2, <2>7, <2>8 DEF ColumnsUpgraded, UpgradedSteps
  <2>10. ScriptsReport' /\ WidthProbed'
    BY <2>7 DEF ScriptsReport, WidthProbed
  <2> QED
    BY <2>6, <2>9, <2>10
<1> QED
  BY <1>1, <1>2, <1>3, <1>4, <1>5, <1>6, <1>7, <1>8 DEF Script

\* Every step keeps the invariant.
LEMMA NextDeploy == DeployInv /\ [Next]_vars => DeployInv'
<1> SUFFICES ASSUME DeployInv, [Next]_vars PROVE DeployInv'
  OBVIOUS
<1>t. DeployTypeOK
  BY DEF DeployInv
<1>1. CASE \/ \E t \in Texts : Answer(t) \/ Delete(t)
           \/ \E u \in Units : Capture(u)
           \/ Index
           \/ \E n \in Newcomers : Hire(n) \/ Hired(n)
           \/ Crash
  <2>1. DeployTypeOK' /\ UNCHANGED <<code, report, job, width>>
    BY <1>1, <1>t, BackendTyped
  <2> QED
    BY <2>1 DEF DeployInv, ScriptsReport, ColumnsUpgraded, WidthProbed
<1>2. CASE Seed \/ \E r \in Releases : Release(r)
  <2>1. /\ \E kind \in {"deploy", "seed"} : job' = [kind |-> kind, at |-> "create", todo |-> {}]
        /\ report' = "running" /\ code' \in Releases /\ prev' \in Releases
        /\ UNCHANGED <<live, width, vec, rows, row, next, hire>>
    BY <1>2, <1>t, Models DEF Seed, Release, Started, corpus, people
  <2>2. /\ job' \in [kind : {"none", "deploy", "seed", "loaded"}, at : Steps, todo : SUBSET Texts]
        /\ job'.at = "create"
    BY <2>1 DEF Steps
  <2>3. DeployTypeOK'
    BY <2>1, <2>2, <1>t DEF DeployTypeOK
  <2> QED
    BY <2>1, <2>2, <2>3 DEF DeployInv, ScriptsReport, ColumnsUpgraded, WidthProbed, UpgradedSteps
<1>3. CASE Script
  BY <1>3, ScriptStep DEF DeployInv
<1>4. CASE Abort
  <2>1. /\ job' = Idle /\ report' = "aborted"
        /\ UNCHANGED <<code, prev, live, width, vec, rows, row, next, hire>>
    BY <1>4 DEF Abort, Ended, corpus, people
  <2>2. /\ Idle \in [kind : {"none", "deploy", "seed", "loaded"}, at : Steps, todo : SUBSET Texts]
        /\ Idle.at = "idle"
    BY DEF Steps, Idle
  <2>3. DeployTypeOK'
    BY <2>1, <2>2, <1>t DEF DeployTypeOK
  <2> QED
    BY <2>1, <2>2, <2>3 DEF DeployInv, ScriptsReport, ColumnsUpgraded, WidthProbed, UpgradedSteps
<1>5. CASE UNCHANGED vars
  BY <1>5 DEF vars, releases, corpus, people, bounds, DeployInv, DeployTypeOK, ScriptsReport,
    ColumnsUpgraded, WidthProbed
<1> QED
  BY <1>1, <1>2, <1>3, <1>4, <1>5 DEF Next

\* The invariant holds in every run.
LEMMA SpecDeploy == Spec => []DeployInv
<1>1. Init => DeployInv
  <2> SUFFICES ASSUME Init PROVE DeployInv
    OBVIOUS
  <2>1. /\ job \in [kind : {"none", "deploy", "seed", "loaded"}, at : Steps, todo : SUBSET Texts]
        /\ job.at = "idle" /\ job = Idle /\ report = "none"
    BY DEF Init, Idle, Steps
  <2>2. {code, prev, live} \subseteq Releases
    BY DeployAssumption DEF Init
  <2>3. width \in [{"corpus", "units"} -> Nat]
    <3>1. Dim[First] \in Nat
      BY DeployAssumption
    <3>2. PICK c \in Nat, u \in Nat : width = [corpus |-> c, units |-> u]
      BY <3>1 DEF Init
    <3> QED
      BY <3>2
  <2>4. /\ vec \in [Texts \cup Units -> {Model[r] : r \in Releases} \cup {None}]
        /\ \A x \in Texts \cup Units : vec[x] = None
    BY DEF Init, Unembedded
  <2>5. rows \subseteq Texts \cup Units
    BY DeployAssumption DEF Init
  <2>6. row \in [Newcomers -> Nat] /\ hire \in [Newcomers -> Nat]
    BY DEF Init
  <2>7. next \in Nat \ {0}
    <3> DEFINE S == Roster \cup {0}
    <3>1. S \in SUBSET Nat /\ S # {} /\ IsFiniteSet(S)
      BY DeployAssumption, FS_AddElement
    <3>2. next = Max(S) + 1
      BY DEF Init
    <3>3. Max(S) \in S
      <4> HIDE DEF S
      <4> QED
        BY <3>1, MaxOfIds
    <3>4. Max(S) \in Nat
      BY <3>1, <3>3
    <3> QED
      BY <3>2, <3>4
  <2>8. DeployTypeOK
    BY <2>1, <2>2, <2>3, <2>4, <2>5, <2>6, <2>7 DEF DeployTypeOK
  <2> QED
    BY <2>1, <2>8 DEF DeployInv, ScriptsReport, ColumnsUpgraded, WidthProbed, UpgradedSteps
<1> QED
  BY <1>1, NextDeploy, PTL DEF Spec

-----------------------------------------------------------------------------
(* What a deployment promises *)

\* What a deployment or a load reports as done fits: the vectors of the searched
\* tables are as wide as the queries of the release that is live (deploy.sh).
THEOREM WhatReportsSuccessFits == Spec => []DeployedFits
<1>1. DeployInv => DeployedFits
  <2> SUFFICES ASSUME DeployInv, report = "ok", live = code, Width[Model[live]] = Dim[live],
                      NEW t \in Texts, vec[t] # None
               PROVE  Width[vec[t]] = Width[Model[live]]
    BY DEF DeployedFits
  <2>1. Width[vec[t]] = width.corpus
    BY DeployAssumption DEF DeployInv, DeployTypeOK
  <2> QED
    BY <2>1 DEF DeployInv, ColumnsUpgraded
<1> QED
  BY <1>1, SpecDeploy, PTL

\* A vector goes with its row, with a load or with the width of its column: a second
\* deployment of the same width rewrites nothing (_apply_schema_upgrades).
LEMMA StepKeepsVectors ==
  ASSUME DeployInv, [Next]_vars, NEW x \in Texts \cup Units, vec[x] # None, vec'[x] = None
  PROVE  \/ x \notin rows'
         \/ job.at = "load"
         \/ x \in Texts /\ width'.corpus # width.corpus
<1>t. /\ vec \in [Texts \cup Units -> {Model[r] : r \in Releases} \cup {None}]
      /\ width \in [{"corpus", "units"} -> Nat] /\ x \in rows
      /\ \A r \in Releases : Model[r] # None
      /\ code \in Releases /\ live \in Releases
  BY DeployAssumption DEF DeployInv, DeployTypeOK
<1>1. CASE vec' = vec
  BY <1>1
<1>2. ASSUME NEW t \in Texts, Answer(t) PROVE FALSE
  <2>1. t \notin rows /\ \E v \in {None, Model[live]} : vec' = [vec EXCEPT ![t] = v]
    BY <1>2 DEF Answer
  <2> QED
    BY <2>1, <1>t
<1>3. ASSUME NEW t \in Texts, Delete(t) PROVE x \notin rows'
  BY <1>3, <1>t DEF Delete
<1>4. CASE Index
  BY <1>4, <1>t DEF Index
<1>5. CASE Upgrade
  <2>1. x \in Stale /\ width' = [width EXCEPT !.corpus = Wanted]
    BY <1>5, <1>t DEF Upgrade
  <2>2. width.corpus # Wanted /\ x \in Texts
    BY <2>1 DEF Stale
  <2> QED
    BY <2>1, <2>2, <1>t
<1>6. CASE Load
  BY <1>6 DEF Load, At
<1>7. CASE EmbedWrite
  BY <1>7, <1>t DEF EmbedWrite
<1>8. CASE \/ \E u \in Units : Capture(u)
           \/ \E n \in Newcomers : Hire(n) \/ Hired(n)
           \/ Crash \/ Seed \/ Abort
           \/ \E r \in Releases : Release(r)
           \/ Create \/ Realign \/ EmbedRead \/ EmbedFails \/ Build \/ Restart \/ Health
           \/ UNCHANGED vars
  BY <1>8, <1>1 DEF Capture, Hire, Hired, Crash, Seed, Abort, Release, Started, Create, Realign,
    EmbedRead, EmbedFails, Build, Restart, Health, vars, corpus
<1> QED
  BY <1>2, <1>3, <1>4, <1>5, <1>6, <1>7, <1>8 DEF Next, Script

\* Only a load, or a realignment that an open insertion crosses, puts the sequence
\* behind the ids.
LEMMA StepKeepsAhead ==
  ASSUME DeployInv, [Next]_vars, Ahead, job.at # "load", ~(job.at = "realign" /\ Open # {})
  PROVE  Ahead'
<1>t. /\ DeployTypeOK /\ row \in [Newcomers -> Nat] /\ hire \in [Newcomers -> Nat]
      /\ next \in Nat \ {0} /\ Roster \subseteq Nat
  BY DeployAssumption DEF DeployInv, DeployTypeOK
<1>a. /\ \A id \in Roster : id < next
      /\ \A n \in Newcomers : (row[n] # 0 => row[n] < next) /\ (hire[n] # 0 => hire[n] < next)
      /\ \A m, n \in Newcomers : m # n /\ hire[m] # 0 => hire[m] # hire[n]
  BY DEF Ahead, Staff, Open
<1> DEFINE AheadNow ==
      /\ \A id \in Roster : id < next'
      /\ \A n \in Newcomers : (row'[n] # 0 => row'[n] < next') /\ (hire'[n] # 0 => hire'[n] < next')
      /\ \A m, n \in Newcomers : m # n /\ hire'[m] # 0 => hire'[m] # hire'[n]
<1>g. AheadNow => Ahead'
  BY DEF Ahead, Staff, Open
<1>1. CASE UNCHANGED <<row, next>> /\ hire' \in {hire, [n \in Newcomers |-> 0]}
  <2>1. AheadNow
    BY <1>1, <1>a
  <2> QED
    BY <2>1, <1>g
<1>2. ASSUME NEW n \in Newcomers, Hire(n) PROVE Ahead'
  <2>1. /\ next' = next + 1 /\ row' = row
        /\ hire' = [hire EXCEPT ![n] = IF next \in Staff THEN 0 ELSE next]
    BY <1>2 DEF Hire, Drawn
  <2>2. \A m \in Newcomers : hire'[m] = IF m = n THEN IF next \in Staff THEN 0 ELSE next ELSE hire[m]
    BY <2>1, <1>t
  <2>3. AheadNow
    BY <2>1, <2>2, <1>a, <1>t
  <2> QED
    BY <2>3, <1>g
<1>3. ASSUME NEW n \in Newcomers, Hired(n) PROVE Ahead'
  <2>1. /\ next' = next /\ hire[n] # 0
        /\ row' = IF hire[n] \in Staff THEN row ELSE [row EXCEPT ![n] = hire[n]]
        /\ hire' = [hire EXCEPT ![n] = 0]
    BY <1>3 DEF Hired
  <2>2. \A m \in Newcomers : /\ row'[m] \in {row[m], hire[m]}
                             /\ hire'[m] = IF m = n THEN 0 ELSE hire[m]
    BY <2>1, <1>t
  <2>3. AheadNow
    BY <2>1, <2>2, <1>a, <1>t
  <2> QED
    BY <2>3, <1>g
<1>4. CASE Realign
  <2>1. job.at = "realign" /\ next' = Realigned /\ row' = row /\ hire' = hire
    BY <1>4 DEF Realign, At
  <2>2. \A m \in Newcomers : hire[m] = 0
    BY <2>1 DEF Open
  <2>3. Realigned \in Nat /\ \A id \in Staff : id < Realigned
    BY <1>t, RealignedPast
  <2>4. \A id \in Roster : id \in Staff
    BY DEF Staff
  <2>5. \A m \in Newcomers : row[m] # 0 => row[m] \in Staff
    BY DEF Staff
  <2>6. AheadNow
    BY <2>1, <2>2, <2>3, <2>4, <2>5
  <2> QED
    BY <2>6, <1>g
<1>5. CASE Load
  BY <1>5 DEF Load, At
<1>6. CASE \/ \E t \in Texts : Answer(t) \/ Delete(t)
           \/ \E u \in Units : Capture(u)
           \/ Index \/ Crash \/ Seed \/ Abort
           \/ \E r \in Releases : Release(r)
           \/ Create \/ Upgrade \/ EmbedRead \/ EmbedWrite \/ EmbedFails \/ Build \/ Restart
           \/ Health \/ UNCHANGED vars
  <2>1. UNCHANGED <<row, next>> /\ hire' \in {hire, [n \in Newcomers |-> 0]}
    BY <1>6 DEF Answer, Delete, Capture, Index, Crash, Seed, Abort, Release, Started, Create,
      Upgrade, EmbedRead, EmbedWrite, EmbedFails, Build, Restart, Health, vars, people
  <2> QED
    BY <2>1, <1>1
<1> QED
  BY <1>2, <1>3, <1>4, <1>5, <1>6 DEF Next, Script

\* What a deployment does not mean to change stays: vectors, and the ids the
\* sequence has yet to hand out.
THEOREM DeploymentsKeep == Spec => UpgradesKeep
<1>1. DeployInv /\ [Next]_vars =>
        [\A x \in Texts \cup Units :
           vec[x] # None /\ vec'[x] = None =>
             \/ x \notin rows'
             \/ job.at = "load"
             \/ x \in Texts /\ width'.corpus # width.corpus]_vars
  BY StepKeepsVectors
<1>2. DeployInv /\ [Next]_vars =>
        [Ahead /\ ~Ahead' => \/ job.at = "load"
                             \/ job.at = "realign" /\ Open # {}]_vars
  BY StepKeepsAhead
<1>3. Spec => VectorsKept
  BY <1>1, SpecDeploy, PTL DEF Spec, VectorsKept
<1>4. Spec => IdsFresh
  BY <1>2, SpecDeploy, PTL DEF Spec, IdsFresh
<1> QED
  BY <1>3, <1>4 DEF UpgradesKeep

=============================================================================
