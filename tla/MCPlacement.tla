---------------------------- MODULE MCPlacement ----------------------------
EXTENDS Placement, TLC

CONSTANTS small, big, other, nv, amd

const_Hosts == <<small, other, big>>
const_Gpus == (small :> <<2>>) @@ (big :> <<1, 2>>) @@ (other :> <<2>>)
const_Vendors == {[h \in {small, big, other} |-> nv], (small :> nv) @@ (big :> nv) @@ (other :> amd)}

plain == [ranks |-> 2, memory |-> 0, solo |-> FALSE, maxNodes |-> 0, layout |-> <<>>]
const_Recipes ==
    {[plain EXCEPT !.memory = 1],
     [plain EXCEPT !.ranks = 3, !.maxNodes = 2],
     [plain EXCEPT !.ranks = 1, !.memory = 2, !.solo = TRUE],
     [plain EXCEPT !.ranks = 1, !.memory = 1, !.solo = TRUE, !.maxNodes = 2],
     [plain EXCEPT !.ranks = 1, !.memory = 1, !.solo = TRUE, !.maxNodes = 1],
     [plain EXCEPT !.ranks = 0, !.maxNodes = 2],
     [plain EXCEPT !.maxNodes = 1, !.layout = <<<<big, 2>>, <<big, 1>>>>],
     [plain EXCEPT !.layout = <<<<big, 2>>>>]}

const_Policies == {"greedy", "sparse", "dense"}
=============================================================================
