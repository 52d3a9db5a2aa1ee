---------------------------- MODULE MCLobbyCrowd ----------------------------
(***************************************************************************)
(* Instances of LobbyServer that are checked for safety.  A behaviour is   *)
(*   crowd   : the hub alone, with every connection there is, or           *)
(*   matches : two players on two connections and match after match; the   *)
(*             readers' handlers run one at a time, interleaved with the   *)
(*             owner, the sweeper, the clock and the database calls, which *)
(*             may fail.                                                   *)
(***************************************************************************)
EXTENDS LobbyServer, TLC

VARIABLE focus

Busy == {s \in Sids : task[s] # NoTask}
Used == Live \cup Busy \cup ({b.by : b \in abandoning} \ {None})

Players ==
    DOMAIN byAccount \cup {task[s].account : s \in Busy} \cup UNION {rows[m].seats : m \in DOMAIN rows}

OneAtATime == Cardinality(Busy) <= 1

\* Every player says hello with its content before it logs in.
Announced == \A s \in Live : sessions[s].account # None => sessions[s].content # None

CrowdInit == LSInit /\ focus \in {"crowd", "matches"}

CrowdNext ==
    /\ \/ focus = "crowd" /\ Next /\ UNCHANGED dbVars
       \/ /\ focus = "matches" /\ LSNext
          /\ OneAtATime' /\ Announced'
          /\ Cardinality(Used') <= 2 /\ Cardinality(Players' \ {None}) <= 2
    /\ UNCHANGED focus

CrowdSpec == CrowdInit /\ [][CrowdNext]_<<vars, focus>>

\* The running match of a lobby is its host's (RunningMatchIsHosts), in the behaviours
\* that have the rows: the hub alone tells of matches that nobody inserted.
MatchesAreHosts == focus = "matches" => RunningMatchIsHosts

Symmetry == Permutations(Sids) \cup Permutations(Accounts) \cup Permutations(MatchIds)
=============================================================================
