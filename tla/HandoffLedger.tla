---------------------------- MODULE HandoffLedger ----------------------------
(***************************************************************************)
(* What the recommendations table promises its readers (the inbox, the     *)
(* dashboard, the audit trail), whatever the sessions that write it go     *)
(* through: a row names one question and one person for ever, and the      *)
(* first outcome written on it is the only one it ever has.  Ranks are a   *)
(* projection the sessions may rewrite; the ledger does not show them.     *)
(***************************************************************************)
EXTENDS Naturals, Sequences

CONSTANTS People, Questions

VARIABLES
  entries,   \* the rows in id order, each [q, person, outcome]
  answers    \* ids of the entries whose responder's answer text was captured

Closings == {"accepted", "declined", "excluded", "referred", "superseded"}

Entry == [q : Questions, person : People, outcome : Closings \cup {"open"}]

LedgerInit == entries = <<>> /\ answers = {}

\* A batch of candidates shown for one question is appended, all open.
Offer ==
  /\ entries' \in Seq(Entry)
  /\ Len(entries') > Len(entries)
  /\ \A i \in DOMAIN entries : entries'[i] = entries[i]
  /\ \E q \in Questions : \A i \in (Len(entries) + 1)..Len(entries') :
       entries'[i].q = q /\ entries'[i].outcome = "open"
  /\ UNCHANGED answers

\* One open entry closes, with one outcome; an acceptance may carry an answer.
Close ==
  \E i \in DOMAIN entries, o \in Closings :
    /\ entries[i].outcome = "open"
    /\ entries' = [entries EXCEPT ![i].outcome = o]
    /\ \/ UNCHANGED answers
       \/ o = "accepted" /\ answers' = answers \cup {i}

LedgerNext == Offer \/ Close

LedgerSpec == LedgerInit /\ [][LedgerNext]_<<entries, answers>>

-----------------------------------------------------------------------------
(* What follows for a reader of the ledger *)

\* An outcome once recorded is never overwritten, and no row ever changes hands
\* (set_recommendation_outcome's guard on outcome IS NULL).
FirstOutcomeWins ==
  [][ \A i \in DOMAIN entries :
        /\ i \in DOMAIN entries'
        /\ entries'[i].q = entries[i].q /\ entries'[i].person = entries[i].person
        /\ entries[i].outcome # "open" => entries'[i] = entries[i] ]_<<entries, answers>>

\* A captured answer is always that of a responder who accepted (#274).
AnswersAccepted ==
  \A i \in answers : i \in DOMAIN entries /\ entries[i].outcome = "accepted"
=============================================================================
