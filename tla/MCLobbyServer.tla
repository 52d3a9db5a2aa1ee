--------------------------- MODULE MCLobbyServer ---------------------------
(* Small instances of LobbyServer for TLC. *)
EXTENDS LobbyServer, TLC

Symmetry == Permutations(Sids) \cup Permutations(Accounts) \cup Permutations(MatchIds)

=============================================================================
