----------------------------- MODULE MCWeekLock -----------------------------
(* WeekLock on small instances: the symmetry set of its safety runs. *)
EXTENDS WeekLock, TLC

\* Cards, accounts and admins are interchangeable in every definition of WeekLock.
Symmetry == Permutations(Cards) \cup Permutations(Users) \cup Permutations(Admins)
=============================================================================
