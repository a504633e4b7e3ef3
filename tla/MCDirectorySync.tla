-------------------------- MODULE MCDirectorySync --------------------------
(***************************************************************************)
(* Instances of DirectorySync for TLC: an employee, an address nobody      *)
(* holds yet, two colleagues' accounts, a guest's and one of a workspace   *)
(* used before.                                                            *)
(***************************************************************************)
EXTENDS DirectorySync, TLC

CONSTANTS m1, m2, m3, u1, u2, u3, u4, admin, s1, s2

ThreeAddresses == {m1, m2, m3}
TwoEmployees == {m1, m2}
OneEmployee == {m1}
TwoAddresses == {m1, m2}
TwoAccounts == {u1, u2}
FourAccounts == {u1, u2, u3, u4}
OneGuest == {u3}
OneForeign == {u4}
OneSync == {s1}
TwoSyncs == {s1, s2}

\* The guest's profile and the one of the other workspace name the employee: both
\* accounts may be linked, and deactivated.
OutsidersNameEmployee == \A u \in {u3, u4} : roster[u].email = m1
=============================================================================
