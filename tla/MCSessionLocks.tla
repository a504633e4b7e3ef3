--------------------------- MODULE MCSessionLocks ---------------------------
(***************************************************************************)
(* Instances of SessionLocks and of Requests for TLC: what requests meet   *)
(* at the session lock, and what brings them there.  A behaviour is of one *)
(* of the two modules from its start to its end.                           *)
(***************************************************************************)
EXTENDS SessionLocks, Requests, FiniteSets

CONSTANTS t1, t2, s1, l1, l2, asker, ann, bob, admin

VARIABLE routed   \* the behaviour is Requests'

TwoThreads == {t1, t2}
OneSweeper == {s1}
TwoLocks == {l1, l2}
TwoColleagues == {ann, bob}

MCInit == Init /\ RequestsInit /\ routed \in BOOLEAN

Locking == ~routed /\ Next /\ UNCHANGED <<requestsVars, routed>>

\* Bounds: the asker asks first, and other sessions run while that question comes.
RequestsBounded ==
  /\ requests = 0 /\ requests' = 1 => \A r \in flight' : r.by = asker /\ r.kind = "ask"
  /\ others' # others => requests <= 1

Routing == routed /\ RequestsNext /\ RequestsBounded /\ UNCHANGED <<vars, routed>>

MCSpec ==
  /\ MCInit /\ [][Locking \/ Routing]_<<vars, requestsVars, routed>>
  /\ Fairness /\ RequestsFairness
=============================================================================
