---------------------------- MODULE DirectorySync ----------------------------
(***************************************************************************)
(* Who is linked to which Slack account: the directory sync (POST          *)
(* /slack/sync-users, slack/user_sync.py, data/slack_directory.py) beside  *)
(* employees who link and unlink their accounts (api/slack_routes.py) and  *)
(* a workspace that changes.                                               *)
(*                                                                         *)
(* employees.email is unique and no code changes it: an employee is named  *)
(* by the address.  A sync reads the roster, then in one transaction the   *)
(* rows, and writes what it planned from both; other requests commit in    *)
(* between (READ COMMITTED).                                               *)
(***************************************************************************)
EXTENDS Integers, FiniteSets

CONSTANTS
  Addresses,      \* e-mail addresses, normalised
  Staff,          \* addresses of the employees seeded
  AdminAddress,
  Accounts,       \* Slack accounts
  Guests,         \* bots and guests of the workspace
  Foreign,        \* accounts of other workspaces, which its roster lists too
  None,
  CreateMissing,  \* slack_user_sync_create_employees
  Allowed,        \* addresses in slack_user_sync_allowed_domains
  Syncs,          \* requests of the scheduler
  MaxChanges      \* bound: what people, Slack and the network do

ASSUME DirectoryAssumption ==
  /\ Staff \subseteq Addresses \ {AdminAddress}
  /\ Allowed \subseteq Addresses
  /\ Guests \subseteq Accounts /\ Foreign \subseteq Accounts \ Guests
  /\ None \notin Accounts \cup Addresses
  /\ CreateMissing \in BOOLEAN
  /\ MaxChanges \in Nat

VARIABLES
  roster,    \* Slack: address and deleted flag of each account
  staff,     \* employees rows
  active,    \* those with is_active
  links,     \* slack_links: the account of each employee, or None
  pending,   \* pending-link tokens, as <<employee, account>>
  syncs,     \* the requests
  changes

dbVars == <<staff, active, links>>
directoryVars == <<roster, dbVars, pending, syncs, changes>>

-----------------------------------------------------------------------------
(* Types *)

Member == [email : Addresses \cup {None}, deleted : BOOLEAN]
Rosters == [Accounts -> Member]
Links == [Addresses -> Accounts \cup {None}]

NoSync == [at |-> "idle", members |-> <<>>, staff |-> {}, links |-> <<>>]

Sync == {NoSync}
          \cup [at : {"fetched"}, members : Rosters, staff : {{}}, links : {<<>>}]
          \cup [at : {"loaded"}, members : Rosters, staff : SUBSET Addresses, links : Links]

DirectoryTypeOK ==
  /\ roster \in Rosters
  /\ staff \in SUBSET Addresses /\ Staff \subseteq staff
  /\ active \in SUBSET staff
  /\ links \in Links
  /\ \A m \in Addresses : links[m] # None => m \in staff
  /\ pending \in SUBSET (staff \X Accounts)
  /\ syncs \in [Syncs -> Sync]
  /\ changes \in 0..MaxChanges

\* An employee may hold an account whose profile says another address, a guest's,
\* or one of a workspace used before this one was configured.
DirectoryInit ==
  /\ roster \in [Accounts -> [email : Addresses \cup {None}, deleted : {FALSE}]]
  /\ staff = Staff /\ active = Staff
  /\ links \in [Addresses -> Accounts \cup {None}]
  /\ \A m \in Addresses : links[m] # None => m \in Staff
  /\ \A m, n \in Staff : links[m] = links[n] /\ m # n => links[m] = None
  /\ pending = {}
  /\ syncs = [s \in Syncs |-> NoSync]
  /\ changes = 0

Change ==
  /\ changes < MaxChanges
  /\ changes' = changes + 1

-----------------------------------------------------------------------------
(* The workspace *)

Reconfigure(u, member) ==
  /\ Change
  /\ member # roster[u]
  /\ roster' = [roster EXCEPT ![u] = member]
  /\ UNCHANGED <<dbVars, pending, syncs>>

Deactivate(u) == Reconfigure(u, [roster[u] EXCEPT !.deleted = TRUE])
Reactivate(u) == Reconfigure(u, [roster[u] EXCEPT !.deleted = FALSE])
Readdress(u, m) == Reconfigure(u, [roster[u] EXCEPT !.email = m])

-----------------------------------------------------------------------------
(* One's own link *)

\* authorize_url and oauth_callback: a signed token for the employee who started,
\* for an account of the configured workspace, a guest's too.
Consent(m, u) ==
  /\ Change
  /\ m \in staff /\ ~roster[u].deleted /\ u \notin Foreign
  /\ pending' = pending \cup {<<m, u>>}
  /\ UNCHANGED <<roster, dbVars, syncs>>

Expire(p) ==
  /\ Change
  /\ p \in pending
  /\ pending' = pending \ {p}
  /\ UNCHANGED <<roster, dbVars, syncs>>

\* Mutant: slack_links.slack_user_id is not unique.
ClashesNever(l) == FALSE

\* The unique index on slack_user_id.
Clashes(l) == \E m, n \in Addresses : m # n /\ l[m] # None /\ l[m] = l[n]

\* link_complete: upsert_slack_link replaces the row, a clash is answered with 409.
\* A token may be redeemed as long as it lives.
LinkComplete(m, u) ==
  LET relinked == [links EXCEPT ![m] = u]
  IN  /\ Change
      /\ <<m, u>> \in pending
      /\ ~Clashes(relinked)
      /\ links' = relinked
      /\ UNCHANGED <<roster, staff, active, pending, syncs>>

Unlink(m) ==
  /\ Change
  /\ links[m] # None
  /\ links' = [links EXCEPT ![m] = None]
  /\ UNCHANGED <<roster, staff, active, pending, syncs>>

-----------------------------------------------------------------------------
(* plan_user_sync, from a roster r, employees e and links l *)

Colleague(r, u) == ~r[u].deleted /\ u \notin Guests \cup Foreign

Claims(r) ==
  {<<r[u].email, u>> : u \in {v \in Accounts : Colleague(r, v)}}
    \ ({None, AdminAddress} \X Accounts)

Linked(l, u) == \E m \in Addresses : l[m] = u

\* Mutant: the first claimant wins.
SoleFirst(pairs) ==
  {p \in pairs : p = CHOOSE q \in pairs : q[1] = p[1]}

\* _drop_ambiguous, _drop_contested_new_people: both halves claimed once.
Sole(pairs) ==
  {p \in pairs : \A q \in pairs : q[1] = p[1] \/ q[2] = p[2] => q = p}

\* Mutant: an employee linked to another account is moved.
ToLinkMoves(r, e, l) ==
  Sole({c \in Claims(r) : c[1] \in e /\ ~Linked(l, c[2])})

\* Mutant: the employee need not exist.
ToLinkUnknown(r, e, l) ==
  Sole({c \in Claims(r) : l[c[1]] = None /\ ~Linked(l, c[2])})

\* Neither the employee nor the account is linked yet.
ToLink(r, e, l) ==
  Sole({c \in Claims(r) : c[1] \in e /\ l[c[1]] = None /\ ~Linked(l, c[2])})

\* A colleague without a row; whether the account is linked is not asked.
ToCreate(r, e) ==
  Sole({c \in Claims(r) : CreateMissing /\ c[1] \notin e /\ c[1] \in Allowed})

\* Mutant: departures are looked up by address.
ToUnlinkByAddress(r, l) ==
  {m \in Addresses : l[m] # None /\ \E u \in Accounts : r[u].deleted /\ r[u].email = m}

\* Mutants: bots and guests are skipped before departures are looked at, or other
\* workspaces' accounts are not.
ToUnlinkColleagues(r, l) ==
  {m \in Addresses : \E u \in Accounts \ (Guests \cup Foreign) : l[m] = u /\ r[u].deleted}

ToUnlinkForeign(r, l) == {m \in Addresses : \E u \in Accounts : l[m] = u /\ r[u].deleted}

\* Departures are looked up by account, guest or not; another workspace's account
\* is passed over whatever became of it.
ToUnlink(r, l) ==
  {m \in Addresses : \E u \in Accounts \ Foreign : l[m] = u /\ r[u].deleted}

-----------------------------------------------------------------------------
(* sync_users *)

\* list_users: the whole roster; a failure changes nothing (502).
Fetch(s) ==
  /\ syncs[s].at = "idle"
  /\ syncs' = [syncs EXCEPT ![s] = [at |-> "fetched", members |-> roster,
                                   staff |-> {}, links |-> <<>>]]
  /\ UNCHANGED <<roster, dbVars, pending, changes>>

\* load_directory_state
Load(s) ==
  /\ syncs[s].at = "fetched"
  /\ syncs' = [syncs EXCEPT ![s] = [at |-> "loaded", members |-> @.members,
                                   staff |-> staff, links |-> links]]
  /\ UNCHANGED <<roster, dbVars, pending, changes>>

Attached(pairs, l) ==
  [m \in Addresses |-> IF \E p \in pairs : p[1] = m
                         THEN (CHOOSE p \in pairs : p[1] = m)[2] ELSE l[m]]

\* apply_sync_plan: new rows and links are written before links are cut; a clash
\* of an address or an account rolls all of it back (500).
Apply(s) ==
  LET r == syncs[s].members
      new == ToCreate(r, syncs[s].staff)
      add == ToLink(r, syncs[s].staff, syncs[s].links)
      cut == ToUnlink(r, syncs[s].links)
      written == Attached(new \cup add, links)
  IN  /\ syncs[s].at = "loaded"
      /\ syncs' = [syncs EXCEPT ![s] = NoSync]
      /\ IF Clashes(written) \/ \E p \in new : p[1] \in staff
           THEN UNCHANGED dbVars
           ELSE /\ staff' = staff \cup {p[1] : p \in new}
                /\ active' = (active \cup {p[1] : p \in new}) \ cut
                /\ links' = [m \in Addresses |-> IF m \in cut THEN None ELSE written[m]]
      /\ UNCHANGED <<roster, pending, changes>>

-----------------------------------------------------------------------------

SyncStep(s) == Fetch(s) \/ Load(s) \/ Apply(s)

DirectoryNext ==
  \/ \E u \in Accounts :
       \/ Deactivate(u) \/ Reactivate(u)
       \/ \E m \in Addresses \cup {None} : Readdress(u, m)
       \/ \E m \in Addresses : Consent(m, u) \/ LinkComplete(m, u)
  \/ \E p \in pending : Expire(p)
  \/ \E m \in Addresses : Unlink(m)
  \/ \E s \in Syncs : SyncStep(s)

\* The scheduler keeps asking, a request that was begun is finished.
DirectorySpec ==
  /\ DirectoryInit
  /\ [][DirectoryNext]_directoryVars
  /\ \A s \in Syncs : WF_directoryVars(SyncStep(s))

-----------------------------------------------------------------------------
(* Properties *)

\* No Slack account is linked to two employees, whatever syncs overlap and
\* whoever links meanwhile (apply_sync_plan, link_complete).
OneToOne == \A m, n \in Addresses : links[m] = links[n] /\ m # n => links[m] = None

Applied(s) == syncs[s].at = "loaded" /\ syncs'[s] = NoSync

\* The colleagues whose profile said the address when a sync read the roster.
Claimants(s, m) ==
  {u \in Accounts \ (Guests \cup Foreign) : syncs[s].members[u] = [email |-> m, deleted |-> FALSE]}

\* An account a sync attaches belongs to a colleague whose profile says the
\* employee's address, and no other unlinked colleague's does (plan_user_sync,
\* _drop_ambiguous).
SyncedLinkIsClaimed ==
  [][\A s \in Syncs, m \in Addresses :
       Applied(s) /\ links'[m] \notin {None, links[m]} =>
         /\ links'[m] \in Claimants(s, m)
         /\ \A u \in Claimants(s, m) : u = links'[m] \/ Linked(syncs[s].links, u)]_directoryVars

\* Unless a link changed while the sync ran, a sync moves nobody: it cuts the links
\* of the workspace's deactivated accounts and leaves every other existing one, a
\* link to another workspace's account whatever the roster says of it.
ExistingLinksKept ==
  [][\A s \in Syncs, m \in Addresses :
       Applied(s) /\ links = syncs[s].links /\ links[m] # None /\ links'[m] # links[m] =>
         /\ links'[m] = None
         /\ links[m] \notin Foreign /\ syncs[s].members[links[m]].deleted]_directoryVars

\* A sync changes the links its plan has a reason to change, and no other.
SyncJustified == SyncedLinkIsClaimed /\ ExistingLinksKept

\* An account of the workspace is deactivated, and still linked.
Departed == \E u \in Accounts \ Foreign : roster[u].deleted /\ Linked(links, u)

\* A colleague without an employee row whose account somebody else holds.
HeldUp == \E c \in Claims(roster) : c[1] \notin staff /\ Linked(links, c[2])

\* The links of the workspace's deactivated accounts are cut in the end, guests'
\* too, however syncs, links and changes of the workspace interleave, unless the
\* workspace is held up.
DepartureCuts == Departed ~> (~Departed \/ HeldUp)
=============================================================================
