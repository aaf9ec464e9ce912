------------------------------- MODULE Mutex -------------------------------
(***************************************************************************)
(* What "exclusive ownership for the block" promises: the processes in     *)
(* their block are at most one, one enters when nobody is inside, and one  *)
(* that leaves, by the end of the block or by dying in it, makes room.     *)
(***************************************************************************)
CONSTANT Process

VARIABLE holders    \* the live processes inside their block

Init == holders = {}

Enter(p) ==
    /\ holders = {}
    /\ holders' = {p}

Leave(p) ==
    /\ holders = {p}
    /\ holders' = {}

Next == \E p \in Process : Enter(p) \/ Leave(p)

Spec == Init /\ [][Next]_holders
=============================================================================
