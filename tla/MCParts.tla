------------------------------ MODULE MCParts ------------------------------
(***************************************************************************)
(* Instances of the wallets, of the tasks behind a connection and of the   *)
(* client's end of one, beside those of the authoring tools.  They share   *)
(* nothing, so a behaviour exercises one of them while the others rest.    *)
(***************************************************************************)
EXTENDS MCTalents, Outbound, LobbyClient, MCAssetTools

CONSTANT home

VARIABLE part

lobbyVars == <<talentVars, outboundVars, clientVars>>
toolVars  == <<pipelineVars, editorVars, tool>>

\* Two connections from one address.
FromHome == [c \in Conns |-> home]

\* The initial state in which all of them rest.
AtRest == catalog = FirstCatalog /\ tool = "sprites"

PartsInit ==
    /\ TalentsInit /\ OutboundInit /\ ClientInit /\ MCInit
    /\ \/ part \in {"tasks", "client"} /\ AtRest
       \/ part = "wallets" /\ tool = "sprites"
       \/ part = "tools" /\ catalog = FirstCatalog

PartsNext ==
    /\ \/ part = "wallets" /\ TalentsNext /\ UNCHANGED <<outboundVars, clientVars, toolVars>>
       \/ part = "tasks" /\ OutboundNext /\ UNCHANGED <<talentVars, clientVars, toolVars>>
       \/ part = "client" /\ ClientNext /\ UNCHANGED <<talentVars, outboundVars, toolVars>>
       \/ part = "tools" /\ MCNext /\ UNCHANGED lobbyVars
    /\ UNCHANGED part

PartsSpec == PartsInit /\ [][PartsNext]_<<lobbyVars, toolVars, part>>

\* The two people w1 and w2 are the authors, the users, the connections and the
\* clients of the parts: one exchange of them serves every part.
PartsSymmetry == Permutations(Authors) \cup Permutations(Prompts)
=============================================================================
