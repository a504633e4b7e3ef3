------------------------- MODULE SessionLocksProofs -------------------------
(***************************************************************************)
(* Proofs about SessionLocks and about Requests: what requests meet at the *)
(* session lock, for any number of requests, sweepers and lock objects,    *)
(* and what brings them there, for any number of colleagues, rows,         *)
(* requests and run slots.                                                 *)
(***************************************************************************)
EXTENDS SessionLocks, Requests, SequenceTheorems, TLAPS

\* Where a thread refers to a lock object, and where it holds it.
Waiting == {"submit", "stream", "locking"}
Holding == {"submitting", "queueing", "taking", "running", "deleted", "leaving"}

\* A thread holds exactly the object it got from _lock.
LockInv ==
  /\ table # None => table \in used
  /\ \A t \in Everyone :
       /\ pc[t] \in Waiting \cup Holding => ref[t] \in used
       /\ pc[t] \in Holding => owner[ref[t]] = t

-----------------------------------------------------------------------------
(* The types are an invariant *)

\* The initial state is well typed.
LEMMA InitTypes == Init => TypeOK
  BY LocksAssumption DEF Init, TypeOK, Everyone

\* Every step keeps the types.
LEMMA NextTypes == TypeOK /\ [Next]_vars => TypeOK'
<1> SUFFICES ASSUME TypeOK, [Next]_vars PROVE TypeOK'
  OBVIOUS
<1> USE LocksAssumption DEF TypeOK, Everyone
<1>1. CASE Age
  BY <1>1 DEF Age, lockVars
<1>2. ASSUME NEW t \in Threads, Request(t) PROVE TypeOK'
  <2>1. CASE Arrive(t)
    BY <2>1 DEF Arrive, Step, GetLock, regVars
  <2>2. CASE Enter(t)
    BY <2>2 DEF Enter, Step, Acquire, regVars
  <2>3. CASE Check(t)
    BY <2>3 DEF Check, Step, lockVars, regVars
  <2>4. CASE Submit(t)
    BY <2>4 DEF Submit, Step, Touch, lockVars
  <2>5. CASE Take(t)
    BY <2>5 DEF Take, Step, Touch, lockVars
  <2>6. CASE EndRun(t)
    BY <2>6 DEF EndRun, Step, lockVars, regVars
  <2>7. CASE Leave(t)
    BY <2>7 DEF Leave, Step, Release, regVars
  <2> QED
    BY <1>2, <2>1, <2>2, <2>3, <2>4, <2>5, <2>6, <2>7 DEF Request
<1>3. ASSUME NEW s \in Sweepers, Sweep(s) PROVE TypeOK'
  <2>1. CASE SweepScan(s)
    BY <2>1 DEF SweepScan, Step, lockVars
  <2>2. CASE SweepGetLock(s)
    BY <2>2 DEF SweepGetLock, Step, GetLock, regVars
  <2>3. CASE SweepSkip(s)
    BY <2>3 DEF SweepSkip, Step, regVars
  <2>4. CASE SweepDelete(s)
    BY <2>4 DEF SweepDelete, Step, Acquire, regVars
  <2>5. CASE SweepPopLock(s)
    BY <2>5 DEF SweepPopLock, Step, regVars
  <2>6. CASE Leave(s)
    BY <2>6 DEF Leave, Step, Release, regVars
  <2> QED
    BY <1>3, <2>1, <2>2, <2>3, <2>4, <2>5, <2>6 DEF Sweep
<1>4. CASE UNCHANGED vars
  BY <1>4 DEF vars, lockVars, regVars
<1> QED
  BY <1>1, <1>2, <1>3, <1>4 DEF Next

\* Types hold for any number of threads and sweepers.
THEOREM LocksTyped == Spec => []TypeOK
<1>1. Init => TypeOK
  BY InitTypes
<1>2. TypeOK /\ [Next]_vars => TypeOK'
  BY NextTypes
<1> QED
  BY <1>1, <1>2, PTL DEF Spec

-----------------------------------------------------------------------------
(* Mutual exclusion on one lock object *)

\* Taking and releasing an object disturbs nobody who holds another, nor the holder.
LEMMA NextLocks == TypeOK /\ LockInv /\ [Next]_vars => LockInv'
<1> SUFFICES ASSUME TypeOK, LockInv, [Next]_vars PROVE LockInv'
  OBVIOUS
<1> USE LocksAssumption DEF TypeOK, LockInv, Waiting, Holding, Everyone
<1>1. CASE Age
  BY <1>1 DEF Age, lockVars
<1>2. ASSUME NEW t \in Threads, Request(t) PROVE LockInv'
  <2>1. CASE Arrive(t)
    BY <2>1 DEF Arrive, Step, GetLock, regVars
  <2>2. CASE Enter(t)
    BY <2>2 DEF Enter, Step, Acquire, regVars
  <2>3. CASE Check(t)
    BY <2>3 DEF Check, Step, lockVars, regVars
  <2>4. CASE Submit(t)
    BY <2>4 DEF Submit, Step, Touch, lockVars
  <2>5. CASE Take(t)
    BY <2>5 DEF Take, Step, Touch, lockVars
  <2>6. CASE EndRun(t)
    BY <2>6 DEF EndRun, Step, lockVars, regVars
  <2>7. CASE Leave(t)
    BY <2>7 DEF Leave, Step, Release, regVars
  <2> QED
    BY <1>2, <2>1, <2>2, <2>3, <2>4, <2>5, <2>6, <2>7 DEF Request
<1>3. ASSUME NEW s \in Sweepers, Sweep(s) PROVE LockInv'
  <2>1. CASE SweepScan(s)
    BY <2>1 DEF SweepScan, Step, lockVars
  <2>2. CASE SweepGetLock(s)
    BY <2>2 DEF SweepGetLock, Step, GetLock, regVars
  <2>3. CASE SweepSkip(s)
    BY <2>3 DEF SweepSkip, Step, regVars
  <2>4. CASE SweepDelete(s)
    BY <2>4 DEF SweepDelete, Step, Acquire, regVars
  <2>5. CASE SweepPopLock(s)
    BY <2>5 DEF SweepPopLock, Step, regVars
  <2>6. CASE Leave(s)
    BY <2>6 DEF Leave, Step, Release, regVars
  <2> QED
    BY <1>3, <2>1, <2>2, <2>3, <2>4, <2>5, <2>6 DEF Sweep
<1>4. CASE UNCHANGED vars
  BY <1>4 DEF vars, lockVars, regVars
<1> QED
  BY <1>1, <1>2, <1>3, <1>4 DEF Next

\* Types and the discipline of holders hold in every reachable state.
LEMMA Locked == Spec => [](TypeOK /\ LockInv)
<1>1. Init => TypeOK /\ LockInv
  BY InitTypes DEF Init, LockInv, Waiting, Holding
<1>2. TypeOK /\ LockInv /\ [Next]_vars => (TypeOK /\ LockInv)'
  BY NextTypes, NextLocks
<1> QED
  BY <1>1, <1>2, PTL DEF Spec

\* With one lock object, two threads inside would both be its owner.
LEMMA OneHolder == TypeOK /\ LockInv /\ OneGeneration => OneDispatch
  BY DEF TypeOK, LockInv, OneGeneration, OneDispatch, Inside, Holding, Waiting, Everyone

\* Until an eviction makes requests create a second lock object, accept, resume and
\* stream are mutually exclusive, whatever the sweeps do.
THEOREM OneGenerationExcludes == Spec => []DispatchesExclude
<1>1. TypeOK /\ LockInv => DispatchesExclude
  BY OneHolder DEF DispatchesExclude
<1> QED
  BY <1>1, Locked, PTL

\* Without sweeps the registry keeps the one object it creates.
Kept == used = IF table = None THEN {} ELSE {table}

\* Without sweepers the lock entry is never removed, so no second object is created.
LEMMA NextKept == ASSUME Sweepers = {} PROVE Kept /\ [Next]_vars => Kept'
<1> SUFFICES ASSUME Kept, [Next]_vars PROVE Kept'
  OBVIOUS
<1> USE LocksAssumption DEF Kept
<1>1. CASE Age
  BY <1>1 DEF Age, lockVars
<1>2. ASSUME NEW t \in Threads, Request(t) PROVE Kept'
  <2>1. CASE Arrive(t)
    BY <2>1 DEF Arrive, Step, GetLock, regVars
  <2>2. CASE Enter(t)
    BY <2>2 DEF Enter, Step, Acquire, regVars
  <2>3. CASE Check(t)
    BY <2>3 DEF Check, Step, lockVars, regVars
  <2>4. CASE Submit(t)
    BY <2>4 DEF Submit, Step, Touch, lockVars
  <2>5. CASE Take(t)
    BY <2>5 DEF Take, Step, Touch, lockVars
  <2>6. CASE EndRun(t)
    BY <2>6 DEF EndRun, Step, lockVars, regVars
  <2>7. CASE Leave(t)
    BY <2>7 DEF Leave, Step, Release, regVars
  <2> QED
    BY <1>2, <2>1, <2>2, <2>3, <2>4, <2>5, <2>6, <2>7 DEF Request
<1>4. CASE UNCHANGED vars
  BY <1>4 DEF vars, lockVars, regVars
<1> QED
  BY <1>1, <1>2, <1>4 DEF Next

\* In a deployment whose sessions never reach the TTL, accept, resume and stream of
\* one session never overlap, for any number of requests.
THEOREM NoEvictionExcludes == ASSUME Sweepers = {} PROVE Spec => []OneDispatch
<1>1. Init => Kept
  BY DEF Init, Kept
<1>2. Kept /\ [Next]_vars => Kept'
  BY NextKept
<1>3. Kept /\ DispatchesExclude => OneDispatch
  BY DEF Kept, OneGeneration, DispatchesExclude
<1> QED
  BY <1>1, <1>2, <1>3, OneGenerationExcludes, PTL DEF Spec

-----------------------------------------------------------------------------
(* The recheck of touched_at *)

\* A run marks the graph busy, and a sweep's verdict outlives no run: a session
\* some sweep may still evict is at its end.
Undisturbed ==
  /\ \A t \in Threads : pc[t] = "running" => rest = "busy"
  /\ ctx /\ doomed # {} => rest = "end"

SweepInv == OneGeneration => Undisturbed

\* Every step keeps what the sweep relies on between its scan and its recheck.
LEMMA NextSweep == TypeOK /\ LockInv /\ SweepInv /\ [Next]_vars => SweepInv'
<1> SUFFICES ASSUME TypeOK, LockInv, SweepInv, [Next]_vars, OneGeneration'
             PROVE Undisturbed'
  BY DEF SweepInv
<1>0. OneGeneration /\ OneDispatch
  <2>1. used \subseteq used'
    BY DEF Next, Age, Request, Sweep, vars, lockVars, regVars, Arrive, Enter, Check,
           Submit, Take, EndRun, Leave, SweepScan, SweepGetLock, SweepSkip, SweepDelete,
           SweepPopLock, GetLock, Acquire, Release
  <2> QED
    BY <2>1, OneHolder DEF OneGeneration
<1> USE <1>0, LocksAssumption DEF TypeOK, Everyone, SweepInv, Undisturbed, OneDispatch, Inside
<1>1. CASE Age
  BY <1>1 DEF Age, lockVars
<1>2. ASSUME NEW t \in Threads, Request(t) PROVE Undisturbed'
  <2>1. CASE Arrive(t)
    BY <2>1 DEF Arrive, Step, GetLock, regVars
  <2>2. CASE Enter(t)
    BY <2>2 DEF Enter, Step, Acquire, regVars
  <2>3. CASE Check(t)
    BY <2>3 DEF Check, Step, lockVars, regVars
  <2>4. CASE Submit(t)
    BY <2>4 DEF Submit, Step, Touch, lockVars
  <2>5. CASE Take(t)
    BY <2>5 DEF Take, Step, Touch, lockVars
  <2>6. CASE EndRun(t)
    BY <2>6 DEF EndRun, Step, lockVars, regVars
  <2>7. CASE Leave(t)
    BY <2>7 DEF Leave, Step, Release, regVars
  <2> QED
    BY <1>2, <2>1, <2>2, <2>3, <2>4, <2>5, <2>6, <2>7 DEF Request
<1>3. ASSUME NEW s \in Sweepers, Sweep(s) PROVE Undisturbed'
  <2>1. CASE SweepScan(s)
    BY <2>1 DEF SweepScan, Step, lockVars
  <2>2. CASE SweepGetLock(s)
    BY <2>2 DEF SweepGetLock, Step, GetLock, regVars
  <2>3. CASE SweepSkip(s)
    BY <2>3 DEF SweepSkip, Step, regVars
  <2>4. CASE SweepDelete(s)
    BY <2>4 DEF SweepDelete, Step, Acquire, regVars
  <2>5. CASE SweepPopLock(s)
    BY <2>5 DEF SweepPopLock, Step, regVars
  <2>6. CASE Leave(s)
    BY <2>6 DEF Leave, Step, Release, regVars
  <2> QED
    BY <1>3, <2>1, <2>2, <2>3, <2>4, <2>5, <2>6 DEF Sweep
<1>4. CASE UNCHANGED vars
  BY <1>4 DEF vars, lockVars, regVars
<1> QED
  BY <1>1, <1>2, <1>3, <1>4 DEF Next


\* The sweep's recheck suffices for any number of requests and sweeps: until a second
\* lock object exists, a session that waits for a human is not evicted.
THEOREM PausedStays == Spec => PausedNotEvicted
<1>1. Init => SweepInv
  BY DEF Init, SweepInv, Undisturbed, Everyone
<1>2. TypeOK /\ LockInv /\ SweepInv /\ [Next]_vars => SweepInv'
  BY NextSweep
<1>3. TypeOK /\ SweepInv /\ [Next]_vars
        => [ctx /\ ~ctx' /\ OneGeneration => rest # "paused"]_vars
  <2> SUFFICES ASSUME TypeOK, SweepInv, Next, ctx, ~ctx', OneGeneration
               PROVE  rest # "paused"
    OBVIOUS
  <2>1. ASSUME NEW t \in Threads PROVE ~Request(t)
    BY DEF Request, lockVars, regVars, Arrive, Enter, Check, Submit, Take, EndRun, Leave
  <2>2. ~Age
    BY DEF Age
  <2>3. PICK s \in Sweepers : Sweep(s)
    BY <2>1, <2>2 DEF Next
  <2>4. SweepDelete(s) /\ s \in doomed
    BY <2>3 DEF Sweep, lockVars, regVars, Leave, SweepScan, SweepGetLock, SweepSkip,
                SweepDelete, SweepPopLock
  <2> QED
    BY <2>4 DEF SweepInv, Undisturbed
<1> QED
  BY <1>1, <1>2, <1>3, Locked, PTL DEF Spec, PausedNotEvicted

-----------------------------------------------------------------------------
(* Requests *)

Closings == {"open", "accepted", "declined", "excluded", "referred", "superseded"}

Row == [person : Colleagues, outcome : Closings]

RowsTyped ==
  /\ shown \in Seq(Row)
  /\ batch \in Seq(Nat)
  /\ \A k \in DOMAIN batch : batch[k] \in DOMAIN shown
  /\ queued \in Inputs \cup {"none"} /\ doing \in Inputs \cup {"none"}
  /\ streaming \in BOOLEAN
  /\ active \in Nat /\ others \in Nat

\* An input is queued only where nothing runs, a decline only where somebody
\* declined, and a hand-off that can be answered, or that is being redrafted, has
\* a primary and open rows only.
HandoffOpen ==
  /\ streaming => place = "busy"
  /\ place = "busy" => queued = "none"
  /\ queued = "declined" => batch # <<>>
  /\ \/ place = "send" /\ queued = "none"
     \/ queued = "redraft"
     \/ place = "busy" /\ doing = "redraft"
     => batch # <<>> /\ \A k \in DOMAIN batch : shown[batch[k]].outcome = "open"

\* An outcome in flight that names a row is by the row's person: that person may
\* be the responder no longer, but the row stays theirs.  A button names its row.
FlightOwn ==
  \A r \in flight :
    /\ r.slack => r.kind \in {"accepted", "declined"} /\ r.on # 0
    /\ r.kind \in {"accepted", "declined"} /\ r.on # 0 =>
         r.on \in DOMAIN shown /\ r.by \in {Admin, shown[r.on].person}

PostsAgree ==
  /\ posts \subseteq DOMAIN shown /\ buttons \subseteq posts
  /\ ButtonsUntilClosed

RequestsInv == RowsTyped /\ HandoffOpen /\ FlightOwn /\ PostsAgree /\ SlotsReturned

-----------------------------------------------------------------------------
\* A function on 1..n is a sequence of length n.
LEMMA ListIsSeq ==
  ASSUME NEW S, NEW n \in Nat, NEW f \in [1..n -> S]
  PROVE  f \in Seq(S) /\ Len(f) = n
<1>1. f \in Seq(S)
  BY SeqDef
<1> QED
  BY <1>1, LenProperties

\* The responder is the person of a row, a colleague.
LEMMA ResponderIsColleague ==
  ASSUME RowsTyped
  PROVE  /\ Primary \in Nat /\ (Primary # 0 => Primary \in DOMAIN shown)
         /\ Responder \subseteq Colleagues
         /\ batch # <<>> => Primary = batch[1] /\ 1 \in DOMAIN batch
<1>1. batch # <<>> => Head(batch) = batch[1] /\ 1 \in DOMAIN batch
  BY EmptySeq, LenProperties, HeadTailProperties DEF RowsTyped
<1>2. batch # <<>> => Head(batch) \in Nat /\ Head(batch) \in DOMAIN shown
  BY <1>1, ElementOfSeq, LenProperties DEF RowsTyped
<1>3. \A i \in DOMAIN shown : shown[i] \in Row
  BY ElementOfSeq, LenProperties DEF RowsTyped
<1> QED
  BY <1>1, <1>2, <1>3 DEF Primary, Responder, Row

\* Seating appends rows: the ones there were keep their place.
LEMMA SeatedRows ==
  ASSUME RowsTyped, NEW people \in Lists
  PROVE  LET t == shown \o Seated(people)
             b == [k \in DOMAIN people |-> Len(shown) + k]
         IN  /\ t \in Seq(Row)
             /\ DOMAIN shown \subseteq DOMAIN t
             /\ \A i \in DOMAIN shown : t[i] = shown[i]
             /\ b \in Seq(Nat) /\ b # <<>>
             /\ \A k \in DOMAIN b : b[k] \in DOMAIN t /\ t[b[k]].outcome = "open"
<1> DEFINE s == Seated(people)
           t == shown \o s
           b == [k \in DOMAIN people |-> Len(shown) + k]
<1>1. people \in Seq(Colleagues) /\ Len(people) \in {1, 2} /\ DOMAIN people = 1..Len(people)
  <2>1. PICK p \in Colleagues, q \in Colleagues : people = <<p>> \/ people = <<p, q>>
    BY DEF Lists
  <2>2. people \in Seq(Colleagues) /\ Len(people) \in {1, 2}
    <3>1. <<p>> \in Seq(Colleagues) /\ Len(<<p>>) = 1
      OBVIOUS
    <3>2. <<p, q>> \in Seq(Colleagues) /\ Len(<<p, q>>) = 2
      OBVIOUS
    <3> QED
      BY <2>1, <3>1, <3>2
  <2> QED
    BY <2>2, LenProperties
<1>2. s \in [1..Len(people) -> Row] /\ \A k \in 1..Len(people) : s[k].outcome = "open"
  BY <1>1, ElementOfSeq DEF Seated, Row, Closings
<1>3. s \in Seq(Row) /\ Len(s) = Len(people)
  BY <1>1, <1>2, ListIsSeq
<1>4. shown \in Seq(Row) /\ Len(shown) \in Nat /\ DOMAIN shown = 1..Len(shown)
  BY LenProperties DEF RowsTyped
<1>5. /\ t \in Seq(Row) /\ Len(t) = Len(shown) + Len(s)
      /\ \A i \in 1..Len(t) : t[i] = IF i <= Len(shown) THEN shown[i] ELSE s[i - Len(shown)]
  BY <1>3, <1>4, ConcatProperties
<1>6. DOMAIN t = 1..(Len(shown) + Len(people))
  BY <1>3, <1>5, LenProperties
<1>7. b \in Seq(Nat) /\ b # <<>> /\ DOMAIN b = 1..Len(people)
  <2>1. b \in [1..Len(people) -> Nat]
    BY <1>1, <1>4
  <2> QED
    BY <1>1, <2>1, ListIsSeq, EmptySeq
<1>8. \A i \in DOMAIN shown : i \in DOMAIN t /\ t[i] = shown[i]
  BY <1>1, <1>3, <1>4, <1>5, <1>6
<1>9. \A k \in DOMAIN b : b[k] \in DOMAIN t /\ t[b[k]].outcome = "open"
  <2> SUFFICES ASSUME NEW k \in 1..Len(people) PROVE b[k] \in DOMAIN t /\ t[b[k]].outcome = "open"
    BY <1>7
  <2>1. b[k] = Len(shown) + k /\ b[k] \in 1..(Len(shown) + Len(people)) /\ ~(b[k] <= Len(shown))
    BY <1>1, <1>4
  <2>2. t[b[k]] = s[k]
    BY <1>1, <1>3, <1>4, <1>5, <2>1
  <2> QED
    BY <1>2, <1>6, <2>1, <2>2
<1> QED
  BY <1>5, <1>7, <1>8, <1>9

-----------------------------------------------------------------------------
\* The initial state satisfies the invariant.
LEMMA InitRequests == RequestsInit => RequestsInv
<1> SUFFICES ASSUME RequestsInit PROVE RequestsInv
  OBVIOUS
<1>1. <<>> \in Seq(Row) /\ <<>> \in Seq(Nat) /\ \A k \in DOMAIN << >> : FALSE
  BY EmptySeq
<1>2. RowsTyped
  BY <1>1 DEF RequestsInit, RowsTyped
<1> QED
  BY <1>2 DEF RequestsInit, RequestsInv, HandoffOpen, FlightOwn, PostsAgree,
     ButtonsUntilClosed, SlotsReturned

\* What an answered request leaves alone, and what it does to the posts.
LEMMA AnsweredKeeps ==
  ASSUME NEW r, NEW done \in BOOLEAN, Answered(r, done), RequestsInv,
         DOMAIN shown' = DOMAIN shown,
         \A i \in DOMAIN shown : shown'[i].person = shown[i].person
  PROVE  FlightOwn' /\ posts' \subseteq DOMAIN shown' /\ buttons' \subseteq posts' /\ SlotsReturned'
         /\ ~streaming /\ ~streaming'
<1>1. ~streaming /\ ~streaming' /\ posts' = posts /\ active' = active /\ others' = others
  BY DEF Answered, slotState
<1>2. FlightOwn'
  BY DEF Answered, RequestsInv, FlightOwn
<1>3. SlotsReturned'
  BY <1>1 DEF RequestsInv, SlotsReturned
<1>4. posts' \subseteq DOMAIN shown' /\ buttons' \subseteq posts'
  BY <1>1 DEF Answered, ButtonsLeft, RequestsInv, PostsAgree
<1> QED
  BY <1>1, <1>2, <1>3, <1>4

\* A request enters: its route saw who it is about.
LEMMA FlyKeeps ==
  ASSUME RequestsInv, NEW r, Fly(r),
         r.slack => r.kind \in {"accepted", "declined"} /\ r.on # 0,
         r.kind \in {"accepted", "declined"} /\ r.on # 0 =>
           r.on \in DOMAIN shown /\ r.by \in {Admin, shown[r.on].person}
  PROVE  RequestsInv'
<1>1. RowsTyped' /\ HandoffOpen' /\ PostsAgree' /\ SlotsReturned'
  BY DEF Fly, RequestsInv, RowsTyped, HandoffOpen, PostsAgree, ButtonsUntilClosed,
     SlotsReturned, sessionState, inputState, slackState, slotState
<1>2. FlightOwn'
  BY DEF Fly, RequestsInv, FlightOwn, sessionState
<1> QED
  BY <1>1, <1>2 DEF RequestsInv

\* An outcome goes to the primary row and is queued with what the graph makes of it.
LEMMA CloseKeeps ==
  ASSUME RequestsInv, NEW r \in flight,
         NEW outcome \in Closings \ {"open"}, NEW input \in Inputs \ {"redraft"},
         CloseHandoff(r, outcome, input),
         r.kind \in {"accepted", "declined"} => outcome = r.kind
  PROVE  /\ RequestsInv'
         /\ Primary \in DOMAIN shown /\ shown[Primary].outcome = "open"
         /\ \A i \in DOMAIN shown : i # Primary => shown'[i] = shown[i]
         /\ shown'[Primary].outcome = outcome
         /\ r \in flight \ flight' /\ StillMeant(r)
<1>1. /\ Answered(r, TRUE) /\ AtSend /\ StillMeant(r)
      /\ shown' = [shown EXCEPT ![Primary].outcome = outcome]
      /\ queued' = input /\ batch' = batch
  BY DEF CloseHandoff
<1>2. batch # <<>> /\ \A k \in DOMAIN batch : shown[batch[k]].outcome = "open"
  BY <1>1 DEF AtSend, RequestsInv, HandoffOpen
<1>3. Primary \in DOMAIN shown /\ shown[Primary].outcome = "open"
  BY <1>2, ResponderIsColleague DEF RequestsInv, RowsTyped
<1>4. /\ DOMAIN shown' = DOMAIN shown
      /\ \A i \in DOMAIN shown : i # Primary => shown'[i] = shown[i]
      /\ shown'[Primary] = [shown[Primary] EXCEPT !.outcome = outcome]
  BY <1>1, <1>3
<1>5. \A i \in DOMAIN shown : shown[i] \in Row
  BY ElementOfSeq, LenProperties DEF RequestsInv, RowsTyped
<1>6. shown' \in Seq(Row)
  <2>1. [shown[Primary] EXCEPT !.outcome = outcome] \in Row
    BY <1>3, <1>5 DEF Row
  <2>2. shown' = [shown EXCEPT ![Primary] = [shown[Primary] EXCEPT !.outcome = outcome]]
    BY <1>1
  <2> QED
    BY <1>3, <2>1, <2>2, ExceptSeq, LenProperties DEF RequestsInv, RowsTyped
<1>7. shown'[Primary].outcome = outcome /\ shown'[Primary].person = shown[Primary].person
  BY <1>3, <1>4, <1>5 DEF Row
<1>8. FlightOwn' /\ posts' \subseteq DOMAIN shown' /\ buttons' \subseteq posts' /\ SlotsReturned' /\ ~streaming'
  <2>1. \A i \in DOMAIN shown : shown'[i].person = shown[i].person
    BY <1>4, <1>7
  <2> QED
    BY <1>1, <1>4, <2>1, AnsweredKeeps
<1>9. RowsTyped'
  BY <1>1, <1>4, <1>6 DEF Answered, RequestsInv, RowsTyped, slotState
<1>10. HandoffOpen'
  BY <1>1, <1>2, <1>8 DEF Answered, AtSend, HandoffOpen, Inputs
<1>11. ButtonsUntilClosed'
  <2>1. posts' = posts /\ buttons' = ButtonsLeft(r, TRUE)
    BY <1>1 DEF Answered
  <2>2. r.slack => r.on = Primary
    BY <1>1 DEF StillMeant, RequestsInv, FlightOwn
  <2>3. posts' \ buttons' \subseteq (posts \ buttons) \cup {Primary}
    BY <2>1, <2>2 DEF ButtonsLeft
  <2> QED
    BY <1>4, <1>7, <2>3 DEF Closings, ButtonsUntilClosed, RequestsInv, PostsAgree
<1>12. r \in flight \ flight'
  BY <1>1 DEF Answered
<1> QED
  BY <1>1, <1>3, <1>4, <1>7, <1>8, <1>9, <1>10, <1>11, <1>12 DEF RequestsInv, PostsAgree

\* A handler that closes nothing and is not asked for by a button.
LEMMA OtherKeeps ==
  ASSUME RequestsInv, NEW r \in flight, NEW done \in BOOLEAN, Answered(r, done),
         done => ~r.slack,
         shown' = shown, batch' \in Seq(Nat),
         \A k \in DOMAIN batch' : batch'[k] \in DOMAIN shown,
         queued' \in Inputs \cup {"none"},
         place = "busy" => queued' = "none",
         queued' = "declined" => batch' # <<>>,
         (\/ place' = "send" /\ queued' = "none"
          \/ queued' = "redraft"
          \/ place' = "busy" /\ doing' = "redraft")
           => batch' # <<>> /\ \A k \in DOMAIN batch' : shown'[batch'[k]].outcome = "open"
  PROVE  RequestsInv'
<1>1. FlightOwn' /\ posts' \subseteq DOMAIN shown' /\ buttons' \subseteq posts' /\ SlotsReturned' /\ ~streaming'
  BY AnsweredKeeps
<1>2. RowsTyped'
  BY DEF Answered, RequestsInv, RowsTyped, slotState
<1>3. HandoffOpen'
  BY <1>1 DEF Answered, HandoffOpen
<1>4. ButtonsUntilClosed'
  BY DEF Answered, ButtonsLeft, RequestsInv, PostsAgree, ButtonsUntilClosed
<1> QED
  BY <1>1, <1>2, <1>3, <1>4 DEF RequestsInv, PostsAgree

\* What the handlers take keeps the invariant.
LEMMA TakenKeeps ==
  ASSUME RequestsInv, NEW r \in flight, Taken(r)
  PROVE  RequestsInv'
<1>1. CASE OutcomeGiven(r)
  BY <1>1, CloseKeeps DEF OutcomeGiven, Closings, Inputs
<1>2. CASE Excluding(r)
  BY <1>2, CloseKeeps DEF Excluding, Closings, Inputs
<1>3. CASE Referring(r)
  BY <1>3, CloseKeeps DEF Referring, Closings, Inputs
<1>4. CASE Correcting(r)
  BY <1>4, CloseKeeps DEF Correcting, Closings, Inputs
<1>5. CASE Redrafting(r)
  <2>1. ~r.slack
    BY <1>5 DEF Redrafting, RequestsInv, FlightOwn
  <2>2. Answered(r, TRUE) /\ shown' = shown /\ batch' = batch /\ queued' = "redraft" /\ AtSend
    BY <1>5 DEF Redrafting
  <2> QED
    BY <2>1, <2>2, OtherKeeps DEF Answered, AtSend, RequestsInv, RowsTyped, HandoffOpen, Inputs
<1>6. CASE Reseat(r)
  <2>1. ~r.slack /\ Answered(r, TRUE) /\ AtSend /\ shown' = shown /\ queued' = queued
    BY <1>6 DEF Reseat, RequestsInv, FlightOwn
  <2>2. PICK k \in DOMAIN batch :
          batch' = [j \in DOMAIN batch |-> IF j = 1 THEN batch[k]
                                         ELSE IF j <= k THEN batch[j - 1] ELSE batch[j]]
    BY <1>6 DEF Reseat
  <2>3. batch \in Seq(Nat) /\ DOMAIN batch = 1..Len(batch) /\ Len(batch) \in Nat
    BY LenProperties DEF RequestsInv, RowsTyped
  <2>4. \A j \in DOMAIN batch : \E i \in DOMAIN batch : batch'[j] = batch[i]
    BY <2>2, <2>3
  <2>5. batch' \in Seq(Nat) /\ DOMAIN batch' = DOMAIN batch /\ batch' # <<>>
    <3>1. batch' \in [1..Len(batch) -> Nat]
      BY <2>2, <2>3, <2>4, ElementOfSeq
    <3> QED
      BY <2>2, <2>3, <3>1, ListIsSeq, EmptySeq
  <2>6. \A j \in DOMAIN batch' : batch'[j] \in DOMAIN shown /\ shown[batch'[j]].outcome = "open"
    BY <2>1, <2>4, <2>5 DEF AtSend, RequestsInv, RowsTyped, HandoffOpen
  <2> QED
    BY <2>1, <2>5, <2>6, OtherKeeps DEF Answered, AtSend, RequestsInv, RowsTyped
<1>7. CASE ReplyGiven(r)
  <2>1. ~r.slack
    BY <1>7 DEF ReplyGiven, RequestsInv, FlightOwn
  <2> QED
    BY <1>7, <2>1, OtherKeeps DEF ReplyGiven, Answered, RequestsInv, RowsTyped, HandoffOpen, Inputs
<1>8. CASE AskTaken(r)
  <2>1. ~r.slack
    BY <1>8 DEF AskTaken, RequestsInv, FlightOwn
  <2> QED
    BY <1>8, <2>1, OtherKeeps DEF AskTaken, Answered, RequestsInv, RowsTyped, HandoffOpen, Inputs
<1> QED
  BY <1>1, <1>2, <1>3, <1>4, <1>5, <1>6, <1>7, <1>8 DEF Taken

\* A stream that begins keeps the invariant.
LEMMA DispatchKeeps ==
  ASSUME RequestsInv, Dispatch
  PROVE  RequestsInv'
<1>1. /\ ~streaming /\ queued' = "none" /\ shown' = shown /\ flight' = flight
      /\ posts' = posts /\ buttons' = buttons /\ others' = others
  BY DEF Dispatch
<1>2. CASE queued # "none" \/ place = "busy"
  <2>1. /\ streaming' = TRUE /\ place' = "busy" /\ active' = active + 1
        /\ doing' = IF queued # "none" THEN queued ELSE doing
    BY <1>2 DEF Dispatch
  <2>2. /\ batch' \in Seq(Nat)
        /\ \A k \in DOMAIN batch' : batch'[k] \in DOMAIN shown
        /\ queued \notin {"fresh", "declined"} => batch' = batch
    <3>1. CASE queued = "fresh"
      BY <3>1, EmptySeq DEF Dispatch
    <3>2. CASE queued = "declined"
      <4>1. batch' = Tail(batch) /\ batch # <<>> /\ batch \in Seq(Nat)
        BY <3>2 DEF Dispatch, RequestsInv, HandoffOpen, RowsTyped
      <4>2. /\ batch' \in Seq(Nat) /\ DOMAIN batch = 1..Len(batch) /\ Len(batch) \in Nat
            /\ DOMAIN batch' = 1..(Len(batch) - 1)
            /\ \A k \in 1..(Len(batch) - 1) : batch'[k] = batch[k + 1]
        BY <4>1, HeadTailProperties, LenProperties
      <4>3. \A k \in DOMAIN batch' : batch'[k] \in DOMAIN shown
        <5> SUFFICES ASSUME NEW k \in 1..(Len(batch) - 1) PROVE batch'[k] \in DOMAIN shown
          BY <4>2
        <5>1. k + 1 \in DOMAIN batch
          BY <4>2
        <5> QED
          BY <4>2, <5>1 DEF RequestsInv, RowsTyped
      <4> QED
        BY <3>2, <4>2, <4>3
    <3>3. CASE queued \notin {"fresh", "declined"}
      BY <3>3 DEF Dispatch, RequestsInv, RowsTyped
    <3> QED
      BY <3>1, <3>2, <3>3
  <2>3. RowsTyped'
    BY <1>1, <2>1, <2>2 DEF RequestsInv, RowsTyped
  <2>4. HandoffOpen'
    <3>1. CASE doing' = "redraft"
      <4>1. queued = "redraft" \/ (queued = "none" /\ place = "busy" /\ doing = "redraft")
        BY <1>2, <2>1, <3>1
      <4>2. batch # <<>> /\ \A k \in DOMAIN batch : shown[batch[k]].outcome = "open"
        BY <4>1 DEF RequestsInv, HandoffOpen
      <4>3. batch' = batch
        BY <2>2, <4>1
      <4> QED
        BY <1>1, <2>1, <4>2, <4>3 DEF HandoffOpen
    <3>2. CASE doing' # "redraft"
      BY <1>1, <2>1, <3>2 DEF HandoffOpen
    <3> QED
      BY <3>1, <3>2
  <2>5. SlotsReturned'
    BY <1>1, <2>1 DEF RequestsInv, RowsTyped, SlotsReturned
  <2> QED
    BY <1>1, <2>3, <2>4, <2>5 DEF RequestsInv, FlightOwn, PostsAgree, ButtonsUntilClosed
<1>3. CASE queued = "none" /\ place # "busy"
  BY <1>1, <1>3 DEF Dispatch, RequestsInv, RowsTyped, HandoffOpen, FlightOwn, PostsAgree,
     ButtonsUntilClosed, SlotsReturned
<1> QED
  BY <1>2, <1>3

-----------------------------------------------------------------------------
\* The end of a stream gives its slot back.
LEMMA StreamEnds ==
  ASSUME RequestsInv, streaming, streaming' = FALSE, active' = SlotReleased,
         UNCHANGED <<queued, flight, requests, slackState, others>>
  PROVE  /\ SlotsReturned' /\ active' \in Nat
         /\ place = "busy" /\ queued = "none" /\ queued' = "none"
         /\ posts' = posts /\ buttons' = buttons /\ others' = others /\ flight' = flight
<1>1. active = others + 1 /\ others \in Nat
  BY DEF RequestsInv, SlotsReturned, RowsTyped
<1> QED
  BY <1>1 DEF SlotReleased, SlotsReturned, RequestsInv, HandoffOpen, slackState

\* However a run goes on or stops, the invariant is kept, and no row that was
\* there changes.
LEMMA StreamKeeps ==
  ASSUME RequestsInv, Stream
  PROVE  RequestsInv' /\ \A i \in DOMAIN shown : shown'[i] = shown[i]
<1>1. CASE RunEnds \/ RunAsks \/ RunRedrafts
  <2>1. /\ SlotsReturned' /\ active' \in Nat
        /\ place = "busy" /\ queued = "none" /\ queued' = "none"
        /\ posts' = posts /\ buttons' = buttons /\ others' = others /\ flight' = flight
    BY <1>1, StreamEnds DEF RunEnds, RunAsks, RunRedrafts, RunOver
  <2>2. shown' = shown /\ batch' = batch /\ streaming' = FALSE /\ doing' = "none"
    BY <1>1 DEF RunEnds, RunAsks, RunRedrafts, RunOver
  <2>3. HandoffOpen'
    BY <1>1, <2>1, <2>2 DEF RunEnds, RunAsks, RunRedrafts, RequestsInv, HandoffOpen
  <2>4. RowsTyped'
    BY <2>1, <2>2 DEF RequestsInv, RowsTyped
  <2> QED
    BY <2>1, <2>2, <2>3, <2>4 DEF RequestsInv, FlightOwn, PostsAgree, ButtonsUntilClosed
<1>2. CASE RunParks
  <2>1. /\ SlotsReturned' /\ active' \in Nat
        /\ queued' = queued
        /\ posts' = posts /\ buttons' = buttons /\ others' = others /\ flight' = flight
    BY <1>2, StreamEnds DEF RunParks
  <2>2. /\ shown' = shown /\ batch' = batch /\ streaming' = FALSE /\ doing' = doing
        /\ place' = place
    BY <1>2 DEF RunParks, sessionState
  <2> QED
    BY <2>1, <2>2 DEF RequestsInv, RowsTyped, HandoffOpen, FlightOwn, PostsAgree,
       ButtonsUntilClosed
<1>3. CASE \E people \in {l \in Lists : IsInjective(l)} : RunSeats(people)
  <2>1. PICK people \in Lists : RunSeats(people)
    BY <1>3
  <2>2. /\ SlotsReturned' /\ active' \in Nat
        /\ place = "busy" /\ queued = "none" /\ queued' = "none"
        /\ posts' = posts /\ buttons' = buttons /\ others' = others /\ flight' = flight
    BY <2>1, StreamEnds DEF RunSeats, RunOver
  <2>3. /\ shown' \in Seq(Row) /\ DOMAIN shown \subseteq DOMAIN shown'
        /\ \A i \in DOMAIN shown : shown'[i] = shown[i]
        /\ batch' \in Seq(Nat) /\ batch' # <<>>
        /\ \A k \in DOMAIN batch' : batch'[k] \in DOMAIN shown' /\ shown'[batch'[k]].outcome = "open"
    BY <2>1, SeatedRows DEF RunSeats, RequestsInv
  <2>4. streaming' = FALSE /\ place' = "send" /\ doing' = "none"
    BY <2>1 DEF RunSeats, RunOver
  <2>5. RowsTyped'
    BY <2>2, <2>3, <2>4 DEF RequestsInv, RowsTyped
  <2>6. HandoffOpen'
    BY <2>2, <2>3, <2>4 DEF HandoffOpen
  <2>7. FlightOwn'
    BY <2>2, <2>3 DEF RequestsInv, FlightOwn
  <2>8. PostsAgree'
    BY <2>2, <2>3 DEF RequestsInv, PostsAgree, ButtonsUntilClosed
  <2> QED
    BY <2>2, <2>3, <2>5, <2>6, <2>7, <2>8 DEF RequestsInv
<1> QED
  BY <1>1, <1>2, <1>3 DEF Stream, RunEnds, RunAsks, RunRedrafts, RunParks

\* What enters, is refused, posted to Slack, or done for other sessions keeps the
\* invariant and the rows.
LEMMA ElsewhereKeeps ==
  ASSUME RequestsInv,
         \/ \E p \in Callers, kind \in Kinds : \E on \in Named(p, kind) : Authorize(p, kind, on)
         \/ \E p \in Colleagues, kind \in Kinds, i \in buttons : PressButton(p, kind, i)
         \/ \E r \in flight : Refused(r)
         \/ PostConsultation \/ OtherRunStarts \/ OtherRunEnds
  PROVE  RequestsInv' /\ shown' = shown
<1>1. CASE \E p \in Callers, kind \in Kinds : \E on \in Named(p, kind) : Authorize(p, kind, on)
  <2>1. PICK p \in Callers, kind \in Kinds : \E on \in Named(p, kind) : Authorize(p, kind, on)
    BY <1>1
  <2> PICK on \in Named(p, kind) : Authorize(p, kind, on)
    BY <2>1
  <2> DEFINE r == [by |-> p, kind |-> kind, on |-> on, slack |-> FALSE]
  <2>2. Fly(r) /\ May(p, kind)
    BY DEF Authorize
  <2>3. kind \in {"accepted", "declined"} /\ on # 0 =>
          on \in DOMAIN shown /\ p \in {Admin, shown[on].person}
    <3> SUFFICES ASSUME kind \in {"accepted", "declined"}, on # 0
                 PROVE  on \in DOMAIN shown /\ p \in {Admin, shown[on].person}
      OBVIOUS
    <3>1. on \in DOMAIN shown /\ p \in {Asker, Admin, shown[on].person}
      BY DEF Named
    <3>2. p \in {Admin} \cup Responder
      BY <2>2 DEF May
    <3>3. p # Asker
      BY <3>2, ResponderIsColleague, RequestsAssumption DEF RequestsInv
    <3> QED
      BY <3>1, <3>3
  <2>4. RequestsInv'
    BY <2>2, <2>3, FlyKeeps
  <2> QED
    BY <2>2, <2>4 DEF Fly, sessionState
<1>2. CASE \E p \in Colleagues, kind \in Kinds, i \in buttons : PressButton(p, kind, i)
  <2>1. PICK p \in Colleagues, kind \in Kinds, i \in buttons : PressButton(p, kind, i)
    BY <1>2
  <2> DEFINE r == [by |-> p, kind |-> kind, on |-> i, slack |-> TRUE]
  <2>2. Fly(r) /\ p = shown[i].person /\ i \in DOMAIN shown /\ kind \in {"accepted", "declined"}
    BY <2>1 DEF PressButton, RequestsInv, PostsAgree
  <2>3. i # 0
    BY <2>2, LenProperties DEF RequestsInv, RowsTyped
  <2>4. RequestsInv'
    BY <2>2, <2>3, FlyKeeps
  <2> QED
    BY <2>2, <2>4 DEF Fly, sessionState
<1>3. CASE \E r \in flight : Refused(r)
  <2>1. PICK r \in flight : Refused(r)
    BY <1>3
  <2>2. Answered(r, FALSE) /\ UNCHANGED <<shown, batch, queued>>
    BY <2>1 DEF Refused
  <2>3. UNCHANGED <<place, doing>>
    BY <2>2 DEF Answered
  <2>4. RequestsInv'
    BY <2>2, <2>3, OtherKeeps DEF RequestsInv, RowsTyped, HandoffOpen
  <2> QED
    BY <2>2, <2>4
<1>4. CASE PostConsultation
  <2>1. /\ posts' = posts \cup {Primary} /\ buttons' = buttons \cup {Primary}
        /\ UNCHANGED <<shown, batch, place, queued, doing, streaming, flight, active, others>>
    BY <1>4 DEF PostConsultation, sessionState, inputState, slotState
  <2>2. Primary \in DOMAIN shown
    BY <1>4, ResponderIsColleague DEF PostConsultation, AtSend, RequestsInv, HandoffOpen, RowsTyped
  <2> QED
    BY <2>1, <2>2 DEF RequestsInv, RowsTyped, HandoffOpen, FlightOwn, PostsAgree,
       ButtonsUntilClosed, SlotsReturned
<1>5. CASE OtherRunStarts \/ OtherRunEnds
  <2>1. UNCHANGED <<shown, batch, place, queued, doing, streaming, flight, posts, buttons>>
    BY <1>5 DEF OtherRunStarts, OtherRunEnds, sessionState, inputState, slackState
  <2>2. others' \in Nat /\ active' \in Nat /\ SlotsReturned'
    BY <1>5, <2>1 DEF OtherRunStarts, OtherRunEnds, RequestsInv, RowsTyped, SlotsReturned
  <2> QED
    BY <2>1, <2>2 DEF RequestsInv, RowsTyped, HandoffOpen, FlightOwn, PostsAgree, ButtonsUntilClosed
<1> QED
  BY <1>1, <1>2, <1>3, <1>4, <1>5

-----------------------------------------------------------------------------
\* Every step keeps the invariant.
LEMMA NextRequests == RequestsInv /\ [RequestsNext]_requestsVars => RequestsInv'
<1> SUFFICES ASSUME RequestsInv, [RequestsNext]_requestsVars PROVE RequestsInv'
  OBVIOUS
<1>1. CASE UNCHANGED requestsVars
  BY <1>1 DEF requestsVars, sessionState, inputState, slackState, slotState, RequestsInv,
     RowsTyped, HandoffOpen, FlightOwn, PostsAgree, ButtonsUntilClosed, SlotsReturned
<1>2. CASE RequestsNext
  BY <1>2, TakenKeeps, DispatchKeeps, StreamKeeps, ElsewhereKeeps
     DEF RequestsNext, OpenEvents, AdvanceAfterResume
<1> QED
  BY <1>1, <1>2

\* Every step closes rows as they were meant.
LEMMA StepClosesAsMeant == RequestsInv /\ [RequestsNext]_requestsVars => ClosedAsMeant
<1> SUFFICES ASSUME RequestsInv, [RequestsNext]_requestsVars PROVE ClosedAsMeant
  OBVIOUS
<1>1. CASE \A i \in DOMAIN shown : shown'[i] = shown[i]
  BY <1>1 DEF ClosedAsMeant
<1>2. CASE \E r \in flight : OutcomeGiven(r) \/ Excluding(r) \/ Referring(r) \/ Correcting(r)
  <2>1. PICK r \in flight : OutcomeGiven(r) \/ Excluding(r) \/ Referring(r) \/ Correcting(r)
    BY <1>2
  <2>2. PICK outcome \in Closings \ {"open"}, input \in Inputs \ {"redraft"} :
          /\ CloseHandoff(r, outcome, input)
          /\ r.kind \in {"accepted", "declined"} => outcome = r.kind
          /\ outcome \in {"accepted", "declined"} => outcome = r.kind
          /\ outcome = "excluded" => r.kind = "exclude"
    BY <2>1 DEF OutcomeGiven, Excluding, Referring, Correcting, Closings, Inputs
  <2>3. /\ Primary \in DOMAIN shown /\ shown[Primary].outcome = "open"
        /\ \A i \in DOMAIN shown : i # Primary => shown'[i] = shown[i]
        /\ shown'[Primary].outcome = outcome
        /\ r \in flight \ flight' /\ StillMeant(r)
    BY <2>2, CloseKeeps
  <2>4. CASE outcome \in {"accepted", "declined"}
    <3>1. r.on # 0 => r.on = Primary /\ r.by \in {shown[Primary].person, Admin}
      BY <2>2, <2>3, <2>4 DEF StillMeant, RequestsInv, FlightOwn
    <3> QED
      BY <2>3, <2>4, <3>1 DEF ClosedAsMeant
  <2>5. CASE outcome = "excluded"
    <3>1. r.on = shown[Primary].person
      BY <2>2, <2>3, <2>5, ResponderIsColleague DEF StillMeant, Responder, RequestsInv
    <3> QED
      BY <2>3, <2>5, <3>1 DEF ClosedAsMeant
  <2>6. CASE outcome \notin {"accepted", "declined", "excluded"}
    BY <2>3, <2>6 DEF ClosedAsMeant
  <2> QED
    BY <2>4, <2>5, <2>6
<1>3. CASE UNCHANGED requestsVars
  BY <1>1, <1>3 DEF requestsVars, sessionState
<1>4. CASE RequestsNext
  BY <1>1, <1>2, <1>4, StreamKeeps, ElsewhereKeeps
     DEF RequestsNext, OpenEvents, AdvanceAfterResume, Dispatch, Taken, Redrafting, Reseat,
         ReplyGiven, AskTaken
<1> QED
  BY <1>3, <1>4

\* For any number of people, rows, requests and run slots: a post keeps its
\* buttons until its row has its outcome, and every run slot is given back
\* (_handle_interactivity_action, _run_slot).
THEOREM RequestsSettled == RequestsSpec => [](ButtonsUntilClosed /\ SlotsReturned)
<1>1. RequestsInv => ButtonsUntilClosed /\ SlotsReturned
  BY DEF RequestsInv, PostsAgree
<1> QED
  BY <1>1, InitRequests, NextRequests, PTL DEF RequestsSpec

\* A request authorized for one hand-off never closes another one's row by an
\* acceptance or a decline that echoes its row or by an exclusion, however long it
\* waited for the lock (answer, handoff_exclude); what names nothing closes the
\* open hand-off that is asked for, and an outcome once given is not replaced.
THEOREM OutcomesAsMeant == RequestsSpec => [][ClosedAsMeant]_requestsVars
<1> QED
  BY InitRequests, NextRequests, StepClosesAsMeant, PTL DEF RequestsSpec
=============================================================================
