--------------------------- MODULE MCProxyEngine ---------------------------
(***************************************************************************)
(* ProxyEngine with a bound on the commands given, the changes of what is  *)
(* healthy and the proxies that die or processes that are interrupted; of  *)
(* several changes only one once a replacement was disturbed or one died.  *)
(***************************************************************************)
EXTENDS ProxyEngine, Naturals
CONSTANTS MaxCommands, MaxChanges, MaxDeaths

VARIABLES commands, changes, deaths

MCInit == Init /\ commands = 0 /\ changes = 0 /\ deaths = 0

Count(n, event) == IF event THEN n + 1 ELSE n

MCNext ==
    /\ Next
    /\ commands' = Count(commands, \E s \in Session : Command(s))
    /\ changes' = Count(changes, Change)
    /\ deaths' = Count(deaths, (\E p \in Proxy : Die(p)) \/ \E a \in Actor : Interrupt(a))
    /\ commands' <= MaxCommands
    /\ changes' <= IF disturbed' \/ deaths' > 0 THEN 1 ELSE MaxChanges
    /\ deaths' <= MaxDeaths

MCSpec == MCInit /\ [][MCNext]_<<vars, commands, changes, deaths>> /\ Fairness
=============================================================================
