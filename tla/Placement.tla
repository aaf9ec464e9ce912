----------------------------- MODULE Placement -----------------------------
(***************************************************************************)
(* Where deployments land: the host list api.run works out for a recipe    *)
(* (api/_hosts.py) with the schedulers behind it (schedulers/), over a     *)
(* sequence of launches, relaunches and stops that share the hosts.        *)
(*                                                                         *)
(* A launch asks every host for its containers, packs its ranks by what    *)
(* the answers say and starts its containers later: another launch may     *)
(* plan in between, and a host that does not answer looks idle.  The       *)
(* status counts containers and not the accelerators they use, so that a   *)
(* host of several accelerators tells nothing but "none", "some" or "all". *)
(*                                                                         *)
(* api.run asks for whole accelerators only; memory is a number of units,  *)
(* a load counts sixtieths.  MaxFaults bounds what goes wrong.             *)
(***************************************************************************)
EXTENDS Integers, FiniteSets, Sequences, Functions

CONSTANTS
    Workload,    \* the intents
    Hosts,       \* the hosts, in the order of the cluster and of their names
    Gpus,        \* for each host, the usable memory of each accelerator
    Vendors,     \* what the vendors of the hosts may be, a function of the host
    Mixed,       \* the vendor of a host that has several
    Recipes,     \* what may be launched, see Recipe
    Policies,    \* the schedulers a cluster may be configured with
    MaxFaults

Host == Range(Hosts)

Slot == UNION {{<<h, g>> : g \in DOMAIN Gpus[h]} : h \in Host}

(* ranks: the world size, 0 when none is configured; memory: what a rank   *)
(* needs, 0 when unknown; solo: on a single host; maxNodes: 0 when there   *)
(* is none; layout: the slots of the ranks, when the recipe lists them.    *)
Recipe ==
    [ranks : Nat, memory : Nat, solo : BOOLEAN, maxNodes : Nat, layout : Seq(Slot)]

ASSUME PlacementAssumption ==
    /\ IsFiniteSet(Workload) /\ Workload # {}
    /\ Recipes \subseteq Recipe
    /\ Hosts \in Seq(Host) /\ IsInjective(Hosts)
    /\ Gpus \in [Host -> Seq(Nat)]
    /\ Policies \subseteq {"greedy", "sparse", "dense"}
    /\ MaxFaults \in Nat

VARIABLES
    policy,     \* the scheduler of the cluster
    vendor,     \* the vendor of each host
    recipe,     \* what each workload is
    pc,         \* idle, planned (hosts chosen, nothing started) or running
    on,         \* the hosts that run a container of each workload
    plan,       \* the outcome of the last planning that chose hosts
    answer,     \* the outcome of the planning that has just been done
    with,       \* history: the workloads that planned without this plan
    excuse,     \* history: whom each container may meet on its host
    faults

vars == <<policy, vendor, recipe, pc, on, plan, answer, with, excuse, faults>>

(* verdict: ok, infeasible, conflict or error; slots: of each rank, empty  *)
(* when nothing was scheduled; hosts: rank 0's first; silent: the hosts    *)
(* that did not answer.                                                    *)
Outcome(verdict, slots, hosts, silent) ==
    [verdict |-> verdict, slots |-> slots, hosts |-> hosts, silent |-> silent]

Unplanned == [hosts |-> {}, silent |-> {}, byStatus |-> FALSE]
Nowhere == Outcome("ok", <<>>, <<>>, {})
None == <<CHOOSE w \in Workload : TRUE, Nowhere>>

(* Every variable stays in its domain. *)
TypeOK ==
    /\ policy \in Policies /\ vendor \in Vendors /\ recipe \in [Workload -> Recipes]
    /\ pc \in [Workload -> {"idle", "planned", "running"}]
    /\ on \in [Workload -> SUBSET Host]
    /\ plan \in [Workload -> [hosts : SUBSET Host, silent : SUBSET Host, byStatus : BOOLEAN]]
    /\ answer[1] \in Workload
    /\ answer[2].verdict \in {"ok", "infeasible", "conflict", "error"}
    /\ Range(answer[2].slots) \subseteq Slot /\ Range(answer[2].hosts) \subseteq Host
    /\ with \in [Workload -> SUBSET Workload]
    /\ excuse \in [Workload -> [Host -> SUBSET Workload]]
    /\ faults \in 0 .. MaxFaults

Init ==
    /\ policy \in Policies /\ vendor \in Vendors /\ recipe \in [Workload -> Recipes]
    /\ pc = [w \in Workload |-> "idle"]
    /\ on = [w \in Workload |-> {}]
    /\ plan = [w \in Workload |-> Unplanned]
    /\ answer = None
    /\ with = [w \in Workload |-> {}]
    /\ excuse = [w \in Workload |-> [h \in Host |-> {}]]
    /\ faults = 0

-----------------------------------------------------------------------------
Fault == faults < MaxFaults /\ faults' = faults + 1

(* Of the hosts asked one does not answer, or none does. *)
Lost(hosts) == {{}, hosts} \cup {{h} : h \in hosts}

(* The containers a host reports: one for each workload, its own or not. *)
used_slots(h) == Cardinality({w \in Workload : h \in on[w]})

Own(w, h) == IF h \in on[w] THEN 1 ELSE 0

(* Mutant: its own containers count as foreign. *)
StatusIncludingIntent(w, h) == used_slots(h)

(* The same without those of the intent that is being launched. *)
_status_excluding_intent(w, h) == used_slots(h) - Own(w, h)

total_slots(h) == IF used_slots(h) > Len(Gpus[h]) THEN used_slots(h) ELSE Len(Gpus[h])

(* The first of the hosts on which a workload is seen: each holds as many  *)
(* of its ranks as any other, and the name decides.                        *)
_identify_existing_heads(w, silent) ==
    {h \in Host \ silent : \E v \in Workload \ {w} :
        h \in on[v] /\ h = SelectSeq(Hosts, LAMBDA g : g \in on[v] \ silent)[1]}

HEAD_NODE_OVERHEAD == 3

_compute_host_load_scores(w, silent) ==
    [h \in Host |->
        IF h \in silent \/ total_slots(h) = 0 THEN 0
        ELSE (60 * _status_excluding_intent(w, h)) \div total_slots(h)
             + IF h \in _identify_existing_heads(w, silent) THEN HEAD_NODE_OVERHEAD ELSE 0]

(* The members of a finite set of numbers by a key: a stable sort. *)
Sorted(S, key) ==
    LET Before(x) == {y \in S : key[y] < key[x] \/ (key[y] = key[x] /\ y < x)}
    IN  [k \in 1 .. Cardinality(S) |-> CHOOSE x \in S : Cardinality(Before(x)) = k - 1]

_sort_hosts(hosts, score) ==
    LET key == [i \in DOMAIN hosts |-> IF policy = "dense" THEN -score[hosts[i]]
                                                           ELSE score[hosts[i]]]
    IN  [k \in DOMAIN hosts |-> hosts[Sorted(DOMAIN hosts, key)[k]]]

(* Mutant: which accelerators are busy is guessed. *)
NeverAmbiguous(h, used) == FALSE

(* Several accelerators of which some are busy, and nobody knows which. *)
_is_ambiguous_host_level(h, used) == Len(Gpus[h]) > 1 /\ 0 < used /\ used < Len(Gpus[h])

(* Mutant: a rank needs less than what there is. *)
EligibleStrictly(h, used, need) ==
    {g \in DOMAIN Gpus[h] : g > used /\ Gpus[h][g] > need}

(* The accelerators a rank may get: the first ones count as the used ones. *)
Eligible(h, used, need) ==
    {g \in DOMAIN Gpus[h] : g > used /\ Gpus[h][g] >= need}

(* Mutant: indexes from one where they count from zero. *)
PreferredShifted(by, h, gpus) ==
    LET order == Sorted(gpus, Gpus[h]) IN [i \in DOMAIN order |-> order[i] + 1]

(* The order in which a scheduler takes them. *)
Preferred(by, h, gpus) ==
    Sorted(gpus, [g \in gpus |-> CASE by = "sparse" -> -Gpus[h][g]
                                    [] by = "dense"  -> Gpus[h][g]
                                    [] by = "greedy" -> 0])

Take(seq, n) == SubSeq(seq, 1, IF n < Len(seq) THEN n ELSE Len(seq))

-----------------------------------------------------------------------------
(* One host is filled with the ranks that are left.  ask: how many ranks   *)
(* in all, the memory each needs, the order of the accelerators and how    *)
(* many of each host are used.                                             *)
Ask(total, need, by, used) == [total |-> total, need |-> need, by |-> by, used |-> used]

Free(ask, h) == Eligible(h, ask.used[h], ask.need)

Given(ask, done, h) ==
    LET gpus == Take(Preferred(ask.by, h, Free(ask, h)), ask.total - Len(done.slots))
    IN  [i \in DOMAIN gpus |-> <<h, gpus[i]>>]

Fill(ask, done, h) ==
    LET vendors == done.vendors \cup {vendor[h]}
    IN  IF \/ done.verdict = "conflict" \/ Len(done.slots) = ask.total
           \/ Gpus[h] = <<>> THEN done
        ELSE IF vendor[h] = Mixed THEN [done EXCEPT !.verdict = "conflict"]
        ELSE IF _is_ambiguous_host_level(h, ask.used[h]) THEN [done EXCEPT !.ambiguous = TRUE]
        ELSE IF Free(ask, h) = {} THEN done
        ELSE IF Cardinality(vendors) > 1 THEN [done EXCEPT !.verdict = "conflict"]
        ELSE [done EXCEPT !.slots = @ \o Given(ask, done, h),
                          !.hosts = Append(@, h),
                          !.vendors = vendors]

Unfilled == [verdict |-> "ok", slots |-> <<>>, hosts |-> <<>>, vendors |-> {}, ambiguous |-> FALSE]

Judged(ask, full) ==
    [full EXCEPT !.verdict = IF @ = "ok" /\ Len(full.slots) < ask.total
                             THEN IF full.ambiguous THEN "conflict" ELSE "infeasible"
                             ELSE @]

(* One host after the other, in the given order. *)
FillHosts(hosts, ask) ==
    LET filled[i \in 0 .. Len(hosts)] ==
            IF i = 0 THEN Unfilled ELSE Fill(ask, filled[i - 1], hosts[i])
    IN  Judged(ask, filled[Len(hosts)])

(* Without a status of any host the schedulers of the occupancy fall back  *)
(* to the greedy one, which looks at no status and, chosen by name, at no  *)
(* memory either.                                                          *)
Idle == [h \in Host |-> 0]

schedule(w, hosts, total, silent) ==
    LET known == [h \in Host |-> IF h \in silent THEN 0 ELSE _status_excluding_intent(w, h)]
    IN  IF policy = "greedy" THEN FillHosts(hosts, Ask(total, 0, "greedy", Idle))
        ELSE IF Range(hosts) \subseteq silent
        THEN FillHosts(hosts, Ask(total, recipe[w].memory, "greedy", Idle))
        ELSE FillHosts(_sort_hosts(hosts, _compute_host_load_scores(w, silent)),
                       Ask(total, recipe[w].memory, policy, known))

(* A layout that leaves no rank out is taken as it is, without the ranks   *)
(* beyond the world size; its hosts come in the order of their ranks.      *)
_placement_from_layout(w) ==
    LET layout == Take(recipe[w].layout, recipe[w].ranks)
        first == {i \in DOMAIN layout : \A j \in 1 .. i - 1 : layout[j][1] # layout[i][1]}
        order == Sorted(first, [i \in first |-> i])
    IN  [verdict |-> IF Len(recipe[w].layout) < recipe[w].ranks THEN "error" ELSE "ok",
         slots |-> layout, hosts |-> [k \in DOMAIN order |-> layout[order[k]][1]]]

OfSchedule(r, silent) == Outcome(r.verdict, r.slots, r.hosts, silent)

(* The hosts of a launch. *)
resolve_effective_hosts(w, silent) ==
    LET parallel == recipe[w].ranks > 0
        capped == recipe[w].maxNodes # 0
        nodes == LET r == IF recipe[w].layout # <<>> THEN _placement_from_layout(w)
                          ELSE schedule(w, Hosts, recipe[w].ranks, silent)
                 IN  IF r.verdict = "ok" /\ capped /\ Len(r.hosts) > recipe[w].maxNodes
                     THEN Outcome("error", <<>>, <<>>, silent)
                     ELSE OfSchedule(r, silent)
        prefix == Outcome("ok", <<>>, Take(Hosts, recipe[w].maxNodes), silent)
        trim == LET r == schedule(w, Hosts, recipe[w].maxNodes, silent)
                IN  IF r.verdict = "ok" THEN OfSchedule(r, silent) ELSE prefix
        single(hosts) ==
            IF Len(hosts) = 1 THEN Outcome("ok", <<>>, hosts, silent)
            ELSE LET r == schedule(w, hosts, 1, silent)
                 IN  Outcome(r.verdict, <<>>, r.hosts, silent)
    IN  IF ~recipe[w].solo /\ parallel /\ Len(Hosts) > 1 THEN nodes
        ELSE IF capped /\ Len(Hosts) > recipe[w].maxNodes
        THEN IF recipe[w].ranks > recipe[w].maxNodes THEN Outcome("error", <<>>, <<>>, silent)
             ELSE IF recipe[w].solo THEN single(prefix.hosts) ELSE trim
        ELSE IF recipe[w].solo THEN single(Hosts) ELSE Outcome("ok", <<>>, Hosts, silent)

(* What is remembered of a planning.  Nobody asks a scheduler where only   *)
(* one host is left, be it the first of those that max_nodes cuts off.     *)
Choice(w, o) ==
    [hosts |-> Range(o.hosts), silent |-> o.silent,
     byStatus |-> /\ policy # "greedy" /\ recipe[w].layout = <<>>
                  /\ o.slots # <<>> \/ (recipe[w].solo /\ recipe[w].maxNodes # 1 /\ Len(Hosts) > 1)]

(* Nothing has been started when the planning is over. *)
Plan(w) ==
    /\ pc[w] # "planned"
    /\ \E silent \in Lost(Host) :
         /\ IF silent = {} THEN UNCHANGED faults ELSE Fault
         /\ answer' = <<w, resolve_effective_hosts(w, silent)>>
    /\ IF answer'[2].verdict = "ok"
       THEN LET others == {v \in Workload : pc[v] = "planned"}
            IN  /\ pc' = [pc EXCEPT ![w] = "planned"]
                /\ plan' = [plan EXCEPT ![w] = Choice(w, answer'[2])]
                /\ with' = [v \in Workload |-> CASE v = w        -> others
                                                 [] v \in others -> with[v] \cup {w}
                                                 [] OTHER        -> with[v]]
       ELSE UNCHANGED <<pc, plan, with>>
    /\ UNCHANGED <<policy, vendor, recipe, on, excuse>>

(* The containers of the last launch are swept and the new ones started; a *)
(* host that cannot be reached keeps its container.                        *)
Launch(w) ==
    /\ pc[w] = "planned"
    /\ \E missed \in Lost(on[w] \ plan[w].hosts) :
         /\ IF missed = {} THEN UNCHANGED faults ELSE Fault
         /\ on' = [on EXCEPT ![w] = plan[w].hosts \cup missed]
    /\ excuse' = [excuse EXCEPT ![w] = [h \in Host |->
                    IF h \notin on'[w] THEN {}
                    ELSE IF h \notin plan[w].hosts THEN @[h]
                    ELSE IF h \in plan[w].silent \/ ~plan[w].byStatus THEN Workload
                    ELSE with[w]]]
    /\ pc' = [pc EXCEPT ![w] = "running"]
    /\ with' = [with EXCEPT ![w] = {}]
    /\ answer' = None
    /\ UNCHANGED <<policy, vendor, recipe, plan>>

Stop(w) ==
    /\ on[w] # {} /\ pc[w] = "running"
    /\ \E missed \in Lost(on[w]) :
         /\ IF missed = {} THEN UNCHANGED faults ELSE Fault
         /\ on' = [on EXCEPT ![w] = missed]
    /\ excuse' = [excuse EXCEPT ![w] = [h \in Host |-> IF h \in on'[w] THEN @[h] ELSE {}]]
    /\ pc' = [pc EXCEPT ![w] = "idle"]
    /\ plan' = [plan EXCEPT ![w] = Unplanned]
    /\ answer' = None
    /\ UNCHANGED <<policy, vendor, recipe, with>>

Next == \E w \in Workload : Plan(w) \/ Launch(w) \/ Stop(w)

Spec == Init /\ [][Next]_vars

-----------------------------------------------------------------------------
(* Whole accelerators are never shared: two workloads meet on a host only  *)
(* when it kept silent at the planning of one, when they planned at the    *)
(* same time, or when no status was looked at, however they come and go.   *)
Exclusive ==
    \A w, v \in Workload : \A h \in on[w] \cap on[v] :
        w = v \/ v \in excuse[w][h] \/ w \in excuse[v][h]

-----------------------------------------------------------------------------
Planned(w) == answer' \notin {answer, None} /\ answer'[1] = w

Got == answer'[2]

(* What the ranks could get, by the definition of the budgets. *)
Rooms(w, silent) ==
    LET used(h) == IF h \in silent THEN 0 ELSE _status_excluding_intent(w, h)
    IN  {s \in Slot : /\ ~_is_ambiguous_host_level(s[1], used(s[1]))
                      /\ s[2] > used(s[1]) /\ Gpus[s[1]][s[2]] >= recipe[w].memory}

(* All hosts are candidates. *)
Everywhere(w) == recipe[w].solo => recipe[w].maxNodes = 0

(* No rank is turned away while there is room for all, and no two ranks    *)
(* get the same accelerator or one that is too small.                      *)
FitsOrFull ==
    [][\A w \in Workload : Planned(w) /\ policy # "greedy" /\ recipe[w].layout = <<>> /\ Everywhere(w) =>
         /\ Got.verdict = "infeasible" => Cardinality(Rooms(w, Got.silent)) < IF recipe[w].solo THEN 1 ELSE recipe[w].ranks
         /\ \A i, j \in DOMAIN Got.slots : i # j => Got.slots[i] # Got.slots[j]
         /\ \A i \in DOMAIN Got.slots : Gpus[Got.slots[i][1]][Got.slots[i][2]] >= recipe[w].memory
         /\ Got.slots # <<>> => Got.slots[1][1] = Got.hosts[1]]_vars

(* A deployment that runs can be launched again: its own containers are    *)
(* no foreign load.  It may be refused only because the scheduler spreads  *)
(* it over more hosts than the recipe allows, having packed it on fewer    *)
(* while others were busy.                                                 *)
RelaunchFits ==
    [][\A w \in Workload :
         (/\ Planned(w) /\ pc[w] = "running" /\ plan[w].byStatus
          /\ on[w] = plan[w].hosts
          /\ \A v \in Workload \ {w} : on[v] \cap on[w] = {}
          /\ Cardinality({vendor[h] : h \in Host}) = 1)
         => Got.verdict = "ok" \/ (Got.verdict = "error" /\ recipe[w].maxNodes # 0)]_vars
=============================================================================
