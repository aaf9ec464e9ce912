-------------------------- MODULE MCDistribution --------------------------
(* Three hosts and a control machine outside the cluster. *)
EXTENDS Distribution, TLC

CONSTANTS h1, h2, h3, control, one, two, status

MCHosts == <<h1, h2, h3>>
MCHostOf == (one :> 1) @@ (two :> 1) @@ (status :> 1)

Ask(kinds, targets, mode, ib, force) ==
    [kinds |-> kinds, targets |-> targets, mode |-> mode, ib |-> ib, force |-> force]

(* The image is on some of the nodes, the model begun on the head. *)
Copies(some, shared, calls, used) ==
    [img |-> [n \in Node |-> IF n \in some THEN 1 ELSE 0],
     mdl |-> [n \in Node |-> IF n \in some \cap {h1} THEN 1 ELSE 0],
     mounts |-> shared, ask |-> calls, faults |-> used]

Alone(asked) == (one :> asked) @@ (two :> {})

(* One session by itself: every mode, with and without --rebuild, to one,  *)
(* two and three hosts, the image on any of three sets of nodes.           *)
ImageCalls ==
    {Ask(<<"image">>, <<h1, h2, h3>>, mode, TRUE, force) :
        mode \in {"auto", "push"}, force \in BOOLEAN} \cup
    {Ask(<<"image">>, <<h3, h2>>, mode, FALSE, FALSE) : mode \in {"local", "push", "delegated"}} \cup
    {Ask(<<"image">>, <<h2>>, "auto", FALSE, TRUE)}

ModelCalls ==
    {Ask(<<"model">>, <<h1, h3>>, mode, TRUE, FALSE) : mode \in {"auto", "push"}} \cup
    {Ask(<<"image", "model">>, <<h1, h2>>, "auto", FALSE, FALSE)}

(* Two sessions that share a lock, or the model cache. *)
Both ==
    {(one :> {Ask(<<k>>, <<h1, h2>>, "auto", FALSE, FALSE)}) @@
     (two :> {Ask(<<k>>, <<h1, h2>>, "delegated", FALSE, FALSE)}) : k \in Kind}

MCScenario ==
    {Copies(some, {}, Alone(ImageCalls), 0) : some \in {{}, {h1, h2}, {h2, control}}} \cup
    {Copies({h1}, shared, Alone(ModelCalls), 0) :
        shared \in {{}, {h1, h2, h3}, {h1, h2, h3, control}}} \cup
    {Copies({h1}, {}, calls, 0) : calls \in Both}

(* Every list of targets of a recipe, on the fast network. *)
Lists == {q \in UNION {[1 .. n -> {h1, h2, h3}] : n \in 1 .. 3} :
            \A i, k \in DOMAIN q : q[i] = q[k] => i = k}
SubsetScenario ==
    {Copies({h1, h2}, {}, [s \in {one} |-> {Ask(<<"image">>, q, "delegated", TRUE, FALSE) : q \in Lists}], 1)}
=============================================================================
