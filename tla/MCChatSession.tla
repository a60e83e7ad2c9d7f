---------------------------- MODULE MCChatSession ----------------------------
(* Instances of ChatSession for TLC: sends that share an idempotency key   *)
(* and one that has none, deletions and a renaming, on one session that    *)
(* may fail over; or one that may and one that may not.  Sessions share    *)
(* nothing but the accounts.                                               *)
EXTENDS ChatSession, TLC

CONSTANTS s1, s2, a1, a2, m1, m2, m3, d1, t1, k1

OneSession == {s1}
TwoSessions == {s1, s2}
TwoAccounts == {a1, a2}
TwoSends == {m1, m2}
ThreeSends == {m1, m2, m3}
OneDelete == {d1}
OneRename == {t1}
NoRequests == {}

OnOneSession == [r \in Sends \cup Deletes \cup Renames |-> s1]
OnTwoSessions ==
  [r \in Sends \cup Deletes \cup Renames |-> IF r = m2 THEN s2 ELSE s1]
SharedKey == [r \in Sends |-> IF r = m3 THEN NoKey ELSE k1]

AccountSymmetry == Permutations(Accounts)
=============================================================================
