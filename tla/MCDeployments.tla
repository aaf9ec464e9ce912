--------------------------- MODULE MCDeployments ---------------------------
(***************************************************************************)
(* Deployments with a bound on the calls made, in two settings: one call   *)
(* after the other about one intent, with every order of a few misfortunes *)
(* and stops and logs that name hosts, up to the first disturbance; and    *)
(* calls of two sessions interleaved in every way, about two intents or    *)
(* meddling with each other about one.                                     *)
(***************************************************************************)
EXTENDS Deployments, TLC
CONSTANTS s1, s2, h1, h2, all, i1, i2, t1, MaxLaunches, MaxStops, MaxMishaps

VARIABLES setting, launches, stops, mishaps

MCHostsOf == [k \in Cluster |-> Host]

MCInit ==
    /\ Init
    /\ setting \in {"misfortunes", "interleaved"}
    /\ launches = 0 /\ stops = 0 /\ mishaps = 0

Begins(s, pcs) == ses[s].pc = "idle" /\ ses'[s].pc \in pcs

Count(n, event) == IF event THEN n + 1 ELSE n

(* A metadata file could not be written. *)
SaveFails(s) ==
    \/ ses[s].pc = "planned" /\ ses'[s].pc = "saved"
    \/ /\ ses[s].pc \in Writing /\ ses'[s].pc # "idle"
       /\ meta'[ses[s].cid] # ses[s].place

(* The status query or a stop of an eviction raised. *)
QueryFails(s) ==
    \/ ses[s].pc = "staged" /\ ses'[s].pc = "evict" /\ ~ses'[s].looked
    \/ ses[s].pc = "tearing" /\ ses'[s].pc = "evict"

(* Or a container died, a host left, metadata aged or was pruned by hand. *)
Mishap ==
    \/ \E s \in Session : SaveFails(s) \/ (setting = "misfortunes" /\ QueryFails(s))
    \/ /\ ses' = ses
       /\ \/ running' # running \/ old' # old \/ files' # files
          \/ ~(up \subseteq up')

(* One call at a time, all about the intent i1. *)
OneAtATime ==
    /\ Cardinality({s \in Session : ses'[s].pc # "idle"}) <= 1
    /\ \A s \in Session : \A c \in {ses'[s].cid, ses'[s].victim} \ {NoCid} : c[1] = i1

(* A stop or logs by id goes to the recorded hosts, one by recipe to all. *)
Undirected(s) ==
    /\ Begins(s, {"teardown"}) =>
           ses'[s].targets \in {Host, HostsIn(meta[ses'[s].victim])}
    /\ Begins(s, {"logs"}) =>
           HostsIn(ses'[s].place) \in {Host, HostsIn(meta[ses'[s].victim])}

Smooth ==
    /\ mishaps' = 0
    /\ \A s \in Session : Undirected(s)

(* Once two calls meddle with each other, without what touches no          *)
(* container: logs, and the saves that may be left out.                    *)
Meddling == \A s \in Session : ses'[s].pc \notin LogsPc \cup {"save2", "save3"}

(* Next, in which an idle session begins no call beyond the bounds.        *)
BoundedNext ==
    \/ \E s \in Session :
        \/ (ses[s].pc = "idle" => launches < MaxLaunches) /\ RunStep(s)
        \/ (ses[s].pc = "idle" => stops < MaxStops) /\ (StopStep(s) \/ LogsStep(s))
        \/ Interrupt(s)
    \/ setting = "misfortunes" /\ ses' = ses /\ Next

MCNext ==
    /\ disturbed => setting = "interleaved"
    /\ BoundedNext
    /\ UNCHANGED setting
    /\ launches' = Count(launches, \E s \in Session : Begins(s, {"planned"}))
    /\ stops' = Count(stops, \E s \in Session : Begins(s, {"teardown", "sweep", "logs"}))
    /\ mishaps' = Count(mishaps, Mishap)
    /\ launches' <= MaxLaunches
    /\ stops' <= MaxStops
    /\ mishaps' <= MaxMishaps
    /\ \/ setting = "misfortunes" /\ OneAtATime
       \/ setting = "interleaved" /\ Smooth /\ (disturbed' => Meddling)

MCSpec == MCInit /\ [][MCNext]_<<vars, setting, launches, stops, mishaps>>

Symmetry == Permutations(Session) \cup Permutations(Host)
=============================================================================
