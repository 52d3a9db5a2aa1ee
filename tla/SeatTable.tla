----------------------------- MODULE SeatTable -----------------------------
(***************************************************************************)
(* What a game server promises to the players who join it: one match at a  *)
(* time, chosen while nobody is seated, kept for as long as anybody is,    *)
(* and every seat of it given to one player at most.                       *)
(***************************************************************************)
EXTENDS Naturals

CONSTANTS Peers, Contracts, CoopContracts, None

VARIABLES
    match,   \* the contract of the match, or None
    seated   \* player -> the seats it holds

seatVars == <<match, seated>>

\* MatchContract.seat_count_for_mode: only co-op has a second seat.
SeatsOf(c) == IF c \in CoopContracts THEN {0, 1} ELSE {0}

Nobody(s) == \A p \in Peers : s[p] = {}

Init ==
    /\ match = None
    /\ seated = [p \in Peers |-> {}]

\* A match is chosen while nobody is seated, or given up again.
Choose(c) ==
    /\ Nobody(seated)
    /\ c = None \/ match = None
    /\ match' = c
    /\ UNCHANGED seated

\* p takes the seats S of the running match, or of one that starts with it.
Sit(p, c, S) ==
    /\ match = c \/ (match = None /\ Nobody(seated))
    /\ seated[p] = {}
    /\ S # {} /\ S \subseteq SeatsOf(c)
    /\ \A q \in Peers : seated[q] \cap S = {}
    /\ match' = c
    /\ seated' = [seated EXCEPT ![p] = S]

\* p goes; the match may end only when nobody is left.
Leave(p) ==
    /\ seated' = [seated EXCEPT ![p] = {}]
    /\ match' = match \/ (match' = None /\ Nobody(seated'))

\* The server process ends, and everybody is gone.
Stop ==
    /\ match' = None
    /\ seated' = [p \in Peers |-> {}]

Next ==
    \/ \E c \in Contracts \cup {None} : Choose(c)
    \/ \E p \in Peers, c \in Contracts, S \in SUBSET {0, 1} : Sit(p, c, S)
    \/ \E p \in Peers : Leave(p)
    \/ Stop

Spec == Init /\ [][Next]_seatVars

\* Two players never hold one seat, and every held seat is one of the match.
SeatsShared ==
    /\ \A p, q \in Peers : p # q => seated[p] \cap seated[q] = {}
    /\ \A p \in Peers : seated[p] # {} => match \in Contracts /\ seated[p] \subseteq SeatsOf(match)

=============================================================================
