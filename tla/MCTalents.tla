----------------------------- MODULE MCTalents -----------------------------
(* A small catalogue, and a later one that drops its branch and reprices its trunk. *)
EXTENDS Talents

FirstCatalog == [cost     |-> [trunk |-> 1, branch |-> 2],
                 requires |-> [trunk |-> {}, branch |-> {"trunk"}]]
LaterCatalog == [cost |-> [trunk |-> 2], requires |-> [trunk |-> {}]]

OneCatalog  == {FirstCatalog}
TwoCatalogs == {FirstCatalog, LaterCatalog}
Granted     == {-2, 3}
Earned      == {2}
TreeNodes   == {"trunk", "branch"}
=============================================================================
