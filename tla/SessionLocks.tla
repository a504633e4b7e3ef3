---------------------------- MODULE SessionLocks ----------------------------
(***************************************************************************)
(* The per-session lock of api/service.py and its garbage collection.      *)
(*                                                                         *)
(* A request thread asks _lock(session_id) for the lock object under       *)
(* _locks_guard and only then acquires it; the TTL sweep, run by /ask      *)
(* requests of other sessions, may delete the registry entry and the lock  *)
(* object in between.  One session is modelled; a request either submits   *)
(* (queues an input: /ask, /answer) or streams (/events: takes the input   *)
(* and runs the graph).                                                    *)
(***************************************************************************)
EXTENDS Naturals, FiniteSets

CONSTANTS
  Threads,    \* requests for this session that may be served at once
  Sweepers,   \* requests for other sessions, whose /ask sweeps this one
  Locks,      \* lock objects; a bound on how often one is created afresh
  None

ASSUME LocksAssumption ==
  /\ Threads \cap Sweepers = {}
  /\ None \notin Locks \cup Threads \cup Sweepers

VARIABLES
  table,      \* _locks[session_id], None when there is no entry
  used,       \* lock objects ever created
  owner,      \* the thread holding each lock object, None when it is free
  ref,        \* the lock object a thread got from _lock
  pc,         \* where each thread is
  ctx,        \* the registry has an entry for the session
  pending,    \* ... and an input is queued in it
  idle,       \* ... and its touched_at is older than the TTL
  doomed,     \* sweepers whose cutoff is still after touched_at
  rest        \* the durable graph: finished, running or paused at a human

lockVars == <<table, used, owner, ref>>
regVars  == <<ctx, pending, idle, doomed>>
vars     == <<lockVars, pc, regVars, rest>>

Everyone == Threads \cup Sweepers

TypeOK ==
  /\ table \in Locks \cup {None}
  /\ used \subseteq Locks
  /\ owner \in [Locks -> Everyone \cup {None}]
  /\ ref \in [Everyone -> Locks \cup {None}]
  /\ pc \in [Everyone -> {"out", "submit", "stream", "submitting", "queueing",
                          "taking", "running", "checked", "locking", "deleted", "leaving"}]
  /\ ctx \in BOOLEAN /\ pending \in BOOLEAN /\ idle \in BOOLEAN
  /\ doomed \subseteq Sweepers
  /\ rest \in {"end", "busy", "paused"}

Init ==
  /\ table = None /\ used = {}
  /\ owner = [l \in Locks |-> None] /\ ref = [t \in Everyone |-> None]
  /\ pc = [t \in Everyone |-> "out"]
  /\ ctx = FALSE /\ pending = FALSE /\ idle = FALSE /\ doomed = {}
  /\ rest = "end"

Step(t, from, to) == pc[t] = from /\ pc' = [pc EXCEPT ![t] = to]

-----------------------------------------------------------------------------
(* The lock object *)

\* _lock: setdefault under the guard.
GetLock(t) ==
  \/ /\ table # None
     /\ ref' = [ref EXCEPT ![t] = table]
     /\ UNCHANGED <<table, used, owner>>
  \/ /\ table = None
     /\ \E l \in Locks \ used :
          /\ table' = l /\ used' = used \cup {l}
          /\ ref' = [ref EXCEPT ![t] = l]
     /\ UNCHANGED owner

\* Mutant: the lock's owner is recorded as the lock.
AcquireSelf(t) ==
  /\ owner[ref[t]] = None
  /\ owner' = [owner EXCEPT ![ref[t]] = ref[t]]
  /\ UNCHANGED <<table, used, ref>>

\* Mutant: the handler goes on although the lock is held.
AcquireAnyway(t) ==
  /\ owner' = [owner EXCEPT ![ref[t]] = t]
  /\ UNCHANGED <<table, used, ref>>

Acquire(t) ==
  /\ owner[ref[t]] = None
  /\ owner' = [owner EXCEPT ![ref[t]] = t]
  /\ UNCHANGED <<table, used, ref>>

\* Mutant: a path out of the handler without the release.
ReleaseForgotten(t) ==
  /\ ref' = [ref EXCEPT ![t] = None]
  /\ UNCHANGED <<table, used, owner>>

Release(t) ==
  /\ owner' = [owner EXCEPT ![ref[t]] = None]
  /\ ref' = [ref EXCEPT ![t] = None]
  /\ UNCHANGED <<table, used>>

\* Mutant: the recheck does not see a touch made after the scan.
TouchUnseen == idle' = FALSE /\ UNCHANGED doomed

\* touched_at = now: whatever cutoff a sweep computed before is now earlier.
Touch == idle' = FALSE /\ doomed' = {}

-----------------------------------------------------------------------------
(* Requests for this session *)

Arrive(t) ==
  /\ \E job \in {"submit", "stream"} : Step(t, "out", job)
  /\ GetLock(t)
  /\ UNCHANGED <<regVars, rest>>

Enter(t) ==
  /\ Step(t, "submit", "submitting") \/ Step(t, "stream", "taking")
  /\ Acquire(t)
  /\ UNCHANGED <<regVars, rest>>

\* An input may be queued: none is queued yet (409) and the graph is not mid-run.
Check(t) ==
  /\ IF pending \/ rest = "busy" THEN Step(t, "submitting", "leaving")
     ELSE Step(t, "submitting", "queueing")
  /\ UNCHANGED <<lockVars, regVars, rest>>

Submit(t) ==
  /\ Step(t, "queueing", "leaving")
  /\ ctx' = TRUE /\ pending' = TRUE
  /\ Touch
  /\ UNCHANGED <<lockVars, rest>>

\* Run the queued input, or continue a run parked mid-way, or only replay.  The
\* first checkpoint of the run follows the touch well within the TTL.
Take(t) ==
  /\ IF pending \/ rest = "busy"
       THEN Step(t, "taking", "running") /\ rest' = "busy"
       ELSE Step(t, "taking", "leaving") /\ UNCHANGED rest
  /\ pending' = FALSE
  /\ IF ctx THEN Touch ELSE UNCHANGED <<idle, doomed>>
  /\ UNCHANGED <<lockVars, ctx>>

\* At its end, at a human, or parked mid-way because the client is gone.
EndRun(t) ==
  /\ Step(t, "running", "leaving")
  /\ rest' \in {"end", "paused", "busy"}
  /\ UNCHANGED <<lockVars, regVars>>

Leave(t) ==
  /\ Step(t, "leaving", "out")
  /\ Release(t)
  /\ UNCHANGED <<regVars, rest>>

-----------------------------------------------------------------------------
(* _sweep, run by a request for another session *)

\* A candidate by age whose graph waits for no human.  The age is read first; a
\* touch between the two reads makes the recheck refuse, like one after them.
SweepScan(s) ==
  /\ ctx /\ idle /\ rest = "end"
  /\ Step(s, "out", "checked")
  /\ doomed' = doomed \cup {s}
  /\ UNCHANGED <<lockVars, ctx, pending, idle, rest>>

SweepGetLock(s) ==
  /\ Step(s, "checked", "locking")
  /\ GetLock(s)
  /\ UNCHANGED <<regVars, rest>>

\* acquire(blocking=False): busy means next sweep.
SweepSkip(s) ==
  /\ Step(s, "locking", "out")
  /\ owner[ref[s]] # None
  /\ ref' = [ref EXCEPT ![s] = None]
  /\ UNCHANGED <<table, used, owner, regVars, rest>>

\* With the lock: gone or revived since the scan, or deleted.
SweepDelete(s) ==
  /\ pc[s] = "locking"
  /\ Acquire(s)
  /\ IF ctx /\ s \in doomed
       THEN /\ Step(s, "locking", "deleted")
            /\ ctx' = FALSE /\ pending' = FALSE /\ idle' = FALSE
            /\ UNCHANGED doomed
       ELSE /\ Step(s, "locking", "leaving")
            /\ UNCHANGED regVars
  /\ UNCHANGED rest

SweepPopLock(s) ==
  /\ Step(s, "deleted", "leaving")
  /\ table' = None
  /\ UNCHANGED <<used, owner, ref, regVars, rest>>

\* The TTL elapses without a touch.
Age ==
  /\ ctx /\ ~idle
  /\ idle' = TRUE
  /\ UNCHANGED <<lockVars, pc, ctx, pending, doomed, rest>>

-----------------------------------------------------------------------------
Request(t) ==
  \/ Arrive(t) \/ Enter(t) \/ Check(t) \/ Submit(t) \/ Take(t)
  \/ EndRun(t) \/ Leave(t)

Sweep(s) ==
  \/ SweepScan(s) \/ SweepGetLock(s) \/ SweepSkip(s)
  \/ SweepDelete(s) \/ SweepPopLock(s) \/ Leave(s)

Next == Age \/ (\E t \in Threads : Request(t)) \/ (\E s \in Sweepers : Sweep(s))

Spec == Init /\ [][Next]_vars

\* A thread that holds a lock object goes on to release it.
Fairness == \A t \in Everyone :
  WF_vars(Check(t) \/ Submit(t) \/ Take(t) \/ EndRun(t) \/ SweepPopLock(t) \/ Leave(t))

-----------------------------------------------------------------------------
(* Properties *)

Inside == {t \in Threads : pc[t] \in {"submitting", "queueing", "taking", "running"}}

\* Accept, resume and stream are mutually exclusive: two requests never work on
\* the session at once, in particular the graph is never run twice (_lock and the
\* handlers that take it).
OneDispatch == \A t, u \in Inside : t = u

\* No second lock object was created, so no thread can hold a forgotten one.
OneGeneration == \A k, l \in used : k = l

\* As long as no eviction has made _lock create a second object, requests exclude
\* each other, also while sweeps scan the session, take its lock and find it
\* revived or evict it.
DispatchesExclude == OneGeneration => OneDispatch

\* A session a human is waited on is never evicted, although the sweep looks at
\* the graph before it holds the lock: the recheck of touched_at covers every
\* run that could have paused in between (_sweep).  Once an eviction has split
\* the requests over two lock objects, nothing is promised: see OneDispatch.
PausedNotEvicted ==
  [][ ctx /\ ~ctx' /\ OneGeneration => rest # "paused" ]_vars

\* No request waits for ever on a lock object, evicted or not.
LocksComeFree ==
  \A l \in Locks : owner[l] # None ~> owner[l] = None
=============================================================================
