------------------------------- MODULE MCHub -------------------------------
(* Small instances of Hub for TLC. *)
EXTENDS Hub, TLC

Symmetry == Permutations(Sids) \cup Permutations(LobbyIds) \cup Permutations(Accounts)
               \cup Permutations(Nonces) \cup Permutations(MatchIds)

=============================================================================
