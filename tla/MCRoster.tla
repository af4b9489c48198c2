------------------------------ MODULE MCRoster ------------------------------
(* Roster on small instances: the symmetry sets of its runs. *)
EXTENDS Roster, TLC

\* Ids and clients are interchangeable in every definition of Roster.
Symmetry == Permutations(CardIds) \cup Permutations(Clients)
=============================================================================
