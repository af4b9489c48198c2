---------------------------- MODULE MCTwitchMVP ----------------------------
(* TwitchMVP on small instances: the symmetry set of its runs. *)
EXTENDS TwitchMVP, TLC

\* Only equality is asked of players, viewers, channels and clients.
Symmetry ==
  Permutations(Players) \cup Permutations(Watchers)
    \cup Permutations(Channels) \cup Permutations(Clients)
=============================================================================
