----------------------------- MODULE Deployments -----------------------------
(***************************************************************************)
(* The life cycle of deployments: api.run, api.stop, api.stop_all, api.logs *)
(* and the pruning of the job metadata cache, run by concurrent sessions   *)
(* (CLI or API calls) against the containers of a set of hosts.            *)
(*                                                                         *)
(* A deployment is named by a cluster id <<intent, token>>.  Its metadata  *)
(* is one file of the jobs/ cache of the control machine; the file's host  *)
(* list and runtime say which container runs on which host, so meta[c] is  *)
(* that set of containers, and the empty set when there is no file or an   *)
(* empty one: a save truncates the file and then writes it.                *)
(* What the cluster really runs is the set running.                        *)
(***************************************************************************)
EXTENDS Integers, FiniteSets

CONSTANTS
    Session,      \* concurrent invocations of the program
    Host,         \* machines containers run on
    Cluster,      \* named host sets, whose name is their derived token
    HostsOf,      \* the hosts of each cluster
    Intent,       \* workload identities (generate_intent_id)
    Ray,          \* the intents a Ray runtime serves: head and worker names
    RandomToken,  \* tokens a status-aware scheduler draws
    NoCid,        \* no cluster id
    MaxNodes,     \* bound: hosts of one deployment
    KeepPerIntent,\* PRUNE_KEEP_PER_INTENT
    HostArgs,     \* host sets a user passes to stop and logs with --hosts
    SaveMayFail   \* writing a metadata file may raise OSError

Token == Cluster \cup RandomToken
Cid == Intent \X Token

ASSUME DeploymentsAssumption ==
    /\ IsFiniteSet(Host)
    /\ HostsOf \in [Cluster -> SUBSET Host]
    /\ Ray \subseteq Intent
    /\ NoCid \notin Cid
    /\ MaxNodes \in Nat
    /\ KeepPerIntent \in Nat \ {0}
    /\ HostArgs \subseteq SUBSET Host
    /\ SaveMayFail \in BOOLEAN

VARIABLES
    up,         \* hosts that answer over SSH
    running,    \* containers that run, on reachable hosts or not
    files,      \* cluster ids with a file in the jobs/ cache
    meta,       \* job metadata: the containers each cluster id's file describes
    newer,      \* <<c, d>>: c's metadata has a later started_at than d's
    old,        \* metadata older than PRUNE_MAX_AGE_DAYS
    ses,        \* what each session is doing
    disturbed,  \* history: see Disturb
    unconfirmed \* history: an eviction was skipped or did not confirm

cache == <<files, meta, newer, old>>
vars == <<up, running, files, meta, newer, old, ses, disturbed, unconfirmed>>

-----------------------------------------------------------------------------
Role == ({"solo", "head", "worker"} \X {0}) \cup ({"node"} \X Nat)

Container == [cid : Cid, host : Host, role : Role]

OfCid(C, c) == {x \in C : x.cid = c}
HostsIn(C) == {x.host : x \in C}
(* Mutant: container names where cluster ids are expected. *)
NamesIn(C) == {x.role : x \in C}
CidsIn(C) == {x.cid : x \in C}

(* host_list as a rank for each host. *)
Rankings(H) ==
    {f \in [H -> 0 .. Cardinality(H) - 1] : \A g, h \in H : f[g] = f[h] => g = h}

(* The name of rank r's container among n hosts: solo, Ray or native. *)
container_name(c, n, r) ==
    IF n = 1 THEN <<"solo", 0>>
    ELSE IF c[1] \in Ray THEN <<IF r = 0 THEN "head" ELSE "worker", 0>>
    ELSE <<"node", r>>

Placed(c, f) ==
    {[cid |-> c, host |-> h, role |-> container_name(c, Cardinality(DOMAIN f), f[h])]
        : h \in DOMAIN f}

(* Every name a deployment over n hosts can have used. *)
enumerate_containers(n) ==
    {<<"solo", 0>>, <<"head", 0>>, <<"worker", 0>>} \cup {<<"node", r>> : r \in 0 .. n - 1}

(* query_status: unreachable hosts are left out of the snapshot. *)
query_status(H) == {x \in running : x.host \in H \cap up}

-----------------------------------------------------------------------------
Idle ==
    [pc |-> "idle", cid |-> NoCid, cand |-> {}, place |-> {}, seen |-> {}, looked |-> FALSE,
     todo |-> {}, targets |-> {}, victim |-> NoCid, ok |-> FALSE, doomed |-> {}]

Writing == {"save1", "save2", "save3"}
RunPc ==
    {"planned", "save1", "saved", "save2", "staged", "evict", "tearing", "evicted", "launched",
     "failed", "save3", "prune", "pruning"}
StopPc == {"teardown", "forget", "sweep", "swept"}
LogsPc == {"logs", "silent", "gone"}

SessionState ==
    [pc : {"idle"} \cup RunPc \cup StopPc \cup LogsPc, cid : Cid \cup {NoCid}, cand : SUBSET Host,
     place : SUBSET Container, seen : SUBSET Cid, looked : BOOLEAN,
     todo : SUBSET Container, targets : SUBSET Host, victim : Cid \cup {NoCid},
     ok : BOOLEAN, doomed : SUBSET Cid]

TypeOK ==
    /\ up \subseteq Host
    /\ running \subseteq Container
    /\ files \subseteq Cid
    /\ meta \in [Cid -> SUBSET Container]
    /\ newer \subseteq Cid \X Cid
    /\ old \subseteq Cid
    /\ ses \in [Session -> SessionState]
    /\ disturbed \in BOOLEAN
    /\ unconfirmed \in BOOLEAN

Init ==
    /\ up = Host
    /\ running = {}
    /\ files = {}
    /\ meta = [c \in Cid |-> {}]
    /\ newer = {}
    /\ old = {}
    /\ ses = [s \in Session |-> Idle]
    /\ disturbed = FALSE
    /\ unconfirmed = FALSE

-----------------------------------------------------------------------------
(* save_job_metadata stamps started_at and truncates the file (O_TRUNC);   *)
(* writing what it describes is a step of its own, see Write.              *)
open_private_write(c) ==
    /\ files' = files \cup {c}
    /\ meta' = [meta EXCEPT ![c] = {}]
    /\ newer' = {p \in newer : c \notin {p[1], p[2]}} \cup {<<c, d>> : d \in files \ {c}}
    /\ old' = old \ {c}

remove_job_metadata(C) ==
    /\ files' = files \ C
    /\ meta' = [c \in Cid |-> IF c \in C THEN {} ELSE meta[c]]
    /\ newer' = {p \in newer : p[1] \notin C /\ p[2] \notin C}
    /\ old' = old \ C

(* The recorded jobs a prune drops: not protected, and pushed out of the   *)
(* recency window of their intent or beyond the age cutoff.  list_jobs     *)
(* takes an empty file for a job, by its name and mtime.                   *)
prune_job_metadata(protected) ==
    {c \in files \ protected :
        \/ Cardinality({d \in files : d[1] = c[1] /\ <<d, c>> \in newer}) >= KeepPerIntent
        \/ c \in old}

(* Circumstances under which the metadata need not describe what runs: two *)
(* sessions work on one intent, a sweep misses a running container, a      *)
(* prune relies on a sweep older than a deployment or has listed a file    *)
(* that is saved before it unlinks it, a stop is given fewer hosts than    *)
(* the deployment has, logs is given other hosts than the deployment's or  *)
(* in another order, a cluster id is launched again elsewhere while it     *)
(* runs, a metadata file cannot be written, a save of a running deployment *)
(* is cut short, or the cache is pruned by hand.                           *)
Disturb(cond) == disturbed' = (disturbed \/ cond)

Concerns(t) ==
    IF ses[t].pc \in {"sweep", "swept"} THEN Intent
    ELSE {c[1] : c \in {ses[t].cid, ses[t].victim} \ {NoCid}}

Meddles(s, I) == \E t \in Session \ {s} : Concerns(t) \cap I # {}

BlindSweep(H) == ~(running \subseteq query_status(H))

ShortStop(c, H) ==
    \/ ~(HostsIn(meta[c]) \subseteq H)
    \/ ~(OfCid(running, c) \subseteq meta[c])

Doomed(c) == \E t \in Session : c \in ses[t].doomed

-----------------------------------------------------------------------------
(* plan: a recipe is placed on some hosts of a cluster and gets its id,    *)
(* derived from the candidate hosts under a deterministic scheduler, drawn *)
(* afresh under a status-aware one.                                        *)
Fresh(c) ==
    /\ c[2] \in RandomToken
    /\ c \notin files \cup CidsIn(running) \cup {ses[t].cid : t \in Session}

Plan(s, c, k) ==
    /\ ses[s].pc = "idle"
    /\ c[2] = k \/ Fresh(c)
    /\ \E H \in (SUBSET HostsOf[k]) \ {{}} :
        /\ Cardinality(H) <= MaxNodes
        /\ \E f \in Rankings(H) :
            ses' = [ses EXCEPT ![s] =
                        [Idle EXCEPT !.pc = "planned", !.cid = c, !.cand = HostsOf[k],
                                     !.place = Placed(c, f)]]
    /\ Disturb(Meddles(s, {c[1]}))
    /\ UNCHANGED <<up, running, cache, unconfirmed>>

(* --ensure: the intent already runs on a candidate host, nothing to do. *)
Ensure(s) ==
    /\ ses[s].pc = "planned"
    /\ \E x \in query_status(ses[s].cand) : x.cid[1] = ses[s].cid[1]
    /\ ses' = [ses EXCEPT ![s] = Idle]
    /\ UNCHANGED <<up, running, cache, disturbed, unconfirmed>>

(* The first save precedes everything that touches a host; an OSError is   *)
(* only a warning.                                                         *)
Save(s) ==
    LET c == ses[s].cid IN
    /\ ses[s].pc = "planned"
    /\ \/ /\ open_private_write(c)
          /\ ses' = [ses EXCEPT ![s].pc = "save1"]
          /\ Disturb(~(OfCid(running, c) \subseteq ses[s].place) \/ Doomed(c))
       \/ /\ SaveMayFail
          /\ ses' = [ses EXCEPT ![s].pc = "saved"]
          /\ disturbed' = TRUE
          /\ UNCHANGED cache
    /\ UNCHANGED <<up, running, unconfirmed>>

(* prepare, distribution, tuning sync, and the second save when the hosts' *)
(* address maps were detected; its errors are swallowed.                   *)
Distribute(s) ==
    /\ ses[s].pc = "saved"
    /\ \/ /\ open_private_write(ses[s].cid)
          /\ ses' = [ses EXCEPT ![s].pc = "save2"]
       \/ /\ ses' = [ses EXCEPT ![s].pc = "staged"]
          /\ UNCHANGED cache
    /\ UNCHANGED <<up, running, disturbed, unconfirmed>>

(* The write of a save and the step its launch goes on with.  The file may *)
(* have been unlinked since it was truncated, and an OSError, which no     *)
(* save lets through, leaves it empty.                                     *)
AfterWrite == [save1 |-> "saved", save2 |-> "staged", save3 |-> "prune"]

Write(s) ==
    LET c == ses[s].cid IN
    /\ ses[s].pc \in Writing
    /\ ses' = [ses EXCEPT ![s].pc = AfterWrite[@]]
    /\ \/ /\ meta' = IF c \in files THEN [meta EXCEPT ![c] = ses[s].place] ELSE meta
          /\ UNCHANGED disturbed
       \/ /\ SaveMayFail
          /\ disturbed' = TRUE
          /\ UNCHANGED meta
    /\ UNCHANGED <<up, running, files, newer, old, unconfirmed>>

(* _evict_superseded_deployments sweeps the candidate hosts once: what it  *)
(* sees is what the prune will protect, and other deployments of this      *)
(* intent that touch a target host are to be stopped.                      *)
SupersededOnSameHosts(s, snapshot) ==   \* mutant: overlapping deployments are spared
    {x \in snapshot :
        /\ x.cid # ses[s].cid
        /\ x.cid[1] = ses[s].cid[1]
        /\ HostsIn(OfCid(snapshot, x.cid)) = HostsIn(ses[s].place)}

SupersededOfAnyIntent(s, snapshot) ==   \* mutant: other intents are evicted as well
    {x \in snapshot :
        /\ x.cid # ses[s].cid
        /\ HostsIn(OfCid(snapshot, x.cid)) \cap HostsIn(ses[s].place) # {}}

Superseded(s, snapshot) ==
    {x \in snapshot :
        /\ x.cid # ses[s].cid
        /\ x.cid[1] = ses[s].cid[1]
        /\ HostsIn(OfCid(snapshot, x.cid)) \cap HostsIn(ses[s].place) # {}}

Sweep(s) ==
    LET snapshot == query_status(ses[s].cand) IN
    /\ ses[s].pc = "staged"
    /\ ses' = [ses EXCEPT ![s].pc = "evict", ![s].looked = TRUE, ![s].seen = CidsIn(snapshot),
                          ![s].todo = Superseded(s, snapshot)]
    /\ Disturb(BlindSweep(ses[s].cand))
    /\ UNCHANGED <<up, running, cache, unconfirmed>>

(* The status query raised: nothing is evicted and nothing will be pruned. *)
SweepFails(s) ==
    /\ ses[s].pc = "staged"
    /\ ses' = [ses EXCEPT ![s].pc = "evict"]
    /\ unconfirmed' = TRUE
    /\ UNCHANGED <<up, running, cache, disturbed>>

(* The next superseded deployment: api.stop on the hosts it was seen on. *)
Evict(s) ==
    /\ ses[s].pc = "evict"
    /\ \E c \in CidsIn(ses[s].todo) :
        ses' = [ses EXCEPT ![s].pc = "tearing", ![s].victim = c,
                           ![s].targets = HostsIn(OfCid(ses[s].todo, c)),
                           ![s].todo = @ \ OfCid(@, c)]
    /\ UNCHANGED <<up, running, cache, disturbed, unconfirmed>>

(* api.stop raised: the deployment is left to itself, the launch goes on.   *)
EvictFails(s) ==
    /\ ses[s].pc = "tearing"
    /\ ses' = [ses EXCEPT ![s].pc = "evict"]
    /\ unconfirmed' = TRUE
    /\ UNCHANGED <<up, running, cache, disturbed>>

(* runtime.run: the launch's own names are cleaned up and its containers   *)
(* started; it succeeds everywhere, or fails and leaves any of them.       *)
StartContainers(s) ==
    LET reached == {x \in ses[s].place : x.host \in up} IN
    /\ ses[s].pc = "evict"
    /\ ses[s].todo = {}
    /\ \/ /\ reached = ses[s].place
          /\ running' = running \cup reached
          /\ ses' = [ses EXCEPT ![s].pc = "launched"]
       \/ \E left \in SUBSET reached :
            /\ running' = (running \ reached) \cup left
            /\ ses' = [ses EXCEPT ![s].pc = "failed"]
    /\ UNCHANGED <<up, cache, disturbed, unconfirmed>>

(* The third save, when the head container told its versions; its errors   *)
(* are swallowed.                                                          *)
CollectRuntimeInfo(s) ==
    /\ ses[s].pc \in {"launched", "failed"}
    /\ \/ /\ ses[s].pc = "launched"
          /\ open_private_write(ses[s].cid)
          /\ ses' = [ses EXCEPT ![s].pc = "save3"]
       \/ /\ ses' = [ses EXCEPT ![s].pc = "prune"]
          /\ UNCHANGED cache
    /\ UNCHANGED <<up, running, disturbed, unconfirmed>>

(* prune_job_metadata lists the cache, and unlinks afterwards what it      *)
(* found stale.                                                            *)
ListStale(s) ==
    LET stale == IF ses[s].looked THEN prune_job_metadata(ses[s].seen \cup {ses[s].cid}) ELSE {}
    IN
    /\ ses[s].pc = "prune"
    /\ ses' = [ses EXCEPT ![s] =
                  IF stale = {} THEN Idle ELSE [@ EXCEPT !.pc = "pruning", !.doomed = stale]]
    /\ UNCHANGED <<up, running, cache, disturbed, unconfirmed>>

Prune(s) ==
    /\ ses[s].pc = "pruning"
    /\ ses' = [ses EXCEPT ![s] = Idle]
    /\ remove_job_metadata(ses[s].doomed)
    /\ Disturb(~(CidsIn(running) \subseteq ses[s].seen \cup {ses[s].cid}))
    /\ UNCHANGED <<up, running, unconfirmed>>

(* An exception, Ctrl-C or the loss of the control machine ends the call   *)
(* between two steps, or between the halves of a save; nothing is rolled   *)
(* back.                                                                   *)
Interrupt(s) ==
    /\ ses[s].pc # "idle"
    /\ ses' = [ses EXCEPT ![s] = Idle]
    /\ Disturb(ses[s].pc \in Writing /\ OfCid(running, ses[s].cid) # {})
    /\ UNCHANGED <<up, running, cache, unconfirmed>>

-----------------------------------------------------------------------------
(* Hosts a call of stop or logs names, or has from the default cluster.    *)
NamedHosts == (HostArgs \cup {HostsOf[k] : k \in Cluster}) \ {{}}

(* api.stop by cluster id: named hosts, else the ones in the metadata.     *)
StopById(s, c, H) ==
    /\ ses[s].pc = "idle"
    /\ \/ H \in NamedHosts
       \/ H = HostsIn(meta[c]) /\ H # {}
    /\ ses' = [ses EXCEPT ![s] =
                  [Idle EXCEPT !.pc = "teardown", !.victim = c, !.targets = H]]
    /\ Disturb(Meddles(s, {c[1]}))
    /\ UNCHANGED <<up, running, cache, unconfirmed>>

(* The deployments of an intent that are seen on some hosts.               *)
discover_cluster_id_by_intent(i, H) == {c \in CidsIn(query_status(H)) : c[1] = i}

(* api.stop by recipe: the one deployment of the intent seen on the named  *)
(* hosts, torn down on all of them.                                        *)
StopByIntent(s, i, H) ==
    LET matches == discover_cluster_id_by_intent(i, H) IN
    /\ ses[s].pc = "idle"
    /\ Cardinality(matches) = 1
    /\ ses' = [ses EXCEPT ![s] =
                  [Idle EXCEPT !.pc = "teardown", !.victim = CHOOSE c \in matches : TRUE,
                               !.targets = H]]
    /\ Disturb(Meddles(s, {i}))
    /\ UNCHANGED <<up, running, cache, unconfirmed>>

(* A teardown is confirmed when no target host reported an error. *)
AnyAnswered(H) == H \cap up # {}   \* mutant
Confirmed(H) == H \subseteq up

(* cleanup_containers_by_host, of a stop or of an eviction: the names a    *)
(* deployment over as many hosts can have are removed on each target host  *)
(* that answers.                                                           *)
Teardown(s) ==
    LET c == ses[s].victim
        H == ses[s].targets
        names == enumerate_containers(Cardinality(H))
        ok == Confirmed(H)
    IN
    /\ ses[s].pc \in {"teardown", "tearing"}
    /\ running' = {x \in running : ~(x.cid = c /\ x.host \in H \cap up /\ x.role \in names)}
    /\ ses' = [ses EXCEPT ![s].ok = ok, ![s].pc = IF @ = "tearing" THEN "evicted" ELSE "forget"]
    /\ Disturb(ShortStop(c, H))
    /\ unconfirmed' = (unconfirmed \/ (ses[s].pc = "tearing" /\ ~ok))
    /\ UNCHANGED <<up, cache>>

(* The metadata goes once every target host confirmed. *)
Forget(s) ==
    /\ ses[s].pc \in {"forget", "evicted"}
    /\ ses' = [ses EXCEPT ![s] = IF @.pc = "forget" THEN Idle ELSE [@ EXCEPT !.pc = "evict"]]
    /\ remove_job_metadata(IF ses[s].ok THEN {ses[s].victim} ELSE {})
    /\ UNCHANGED <<up, running, disturbed, unconfirmed>>

-----------------------------------------------------------------------------
(* api.stop_all: discover, tear down what was discovered, forget the jobs  *)
(* none of whose discovered hosts failed.                                  *)
StopAll(s, k) ==
    LET found == query_status(HostsOf[k]) IN
    /\ ses[s].pc = "idle"
    /\ found # {}
    /\ ses' = [ses EXCEPT ![s] = [Idle EXCEPT !.pc = "sweep", !.todo = found]]
    /\ Disturb(Meddles(s, Intent) \/ BlindSweep(HostsOf[k]))
    /\ UNCHANGED <<up, running, cache, unconfirmed>>

StopAllTeardown(s) ==
    /\ ses[s].pc = "sweep"
    /\ running' = running \ {x \in ses[s].todo : x.host \in up}
    /\ ses' = [ses EXCEPT ![s].pc = "swept", ![s].targets = HostsIn(ses[s].todo) \ up]
    /\ UNCHANGED <<up, cache, disturbed, unconfirmed>>

StopAllForget(s) ==
    LET kept == {c \in CidsIn(ses[s].todo) :
                    HostsIn(OfCid(ses[s].todo, c)) \cap ses[s].targets # {}}
    IN
    /\ ses[s].pc = "swept"
    /\ ses' = [ses EXCEPT ![s] = Idle]
    /\ remove_job_metadata(CidsIn(ses[s].todo) \ kept)
    /\ UNCHANGED <<up, running, disturbed, unconfirmed>>

-----------------------------------------------------------------------------
(* api.logs.  The sources it checks are the containers of a deployment     *)
(* over the host list at hand: the one in the metadata, or a named one,    *)
(* whatever the deployment runs on.                                        *)
log_sources(c, H) == {Placed(c, f) : f \in Rankings(H)}

LogsById(s, c) ==
    /\ ses[s].pc = "idle"
    /\ meta[c] # {}
    /\ \E sources \in {meta[c]} \cup UNION {log_sources(c, H) : H \in NamedHosts} :
        ses' = [ses EXCEPT ![s] = [Idle EXCEPT !.pc = "logs", !.victim = c, !.place = sources]]
    /\ Disturb(Meddles(s, {c[1]}))
    /\ UNCHANGED <<up, running, cache, unconfirmed>>

(* By recipe: the one deployment of the intent seen on the named hosts.    *)
LogsByIntent(s, i, H) ==
    LET matches == discover_cluster_id_by_intent(i, H) IN
    /\ ses[s].pc = "idle"
    /\ Cardinality(matches) = 1
    /\ \E c \in matches : \E sources \in log_sources(c, H) :
        ses' = [ses EXCEPT ![s] = [Idle EXCEPT !.pc = "logs", !.victim = c, !.place = sources]]
    /\ Disturb(Meddles(s, {i}))
    /\ UNCHANGED <<up, running, cache, unconfirmed>>

(* Every source's host answers the status query and none runs.  When one   *)
(* runs, or a host is silent, the call has nothing to forget: Interrupt.   *)
LogsLook(s) ==
    /\ ses[s].pc = "logs"
    /\ HostsIn(ses[s].place) \subseteq up
    /\ ses[s].place \cap running = {}
    /\ ses' = [ses EXCEPT ![s].pc = "silent"]
    /\ UNCHANGED <<up, running, cache, disturbed, unconfirmed>>

(* describe_terminated: the head's host answers again, there is no head.   *)
Heads(C) == {x \in C : x.role \in {"solo", "head", "node"} \X {0}}

LogsConfirm(s) ==
    /\ ses[s].pc = "silent"
    /\ HostsIn(Heads(ses[s].place)) \subseteq up
    /\ Heads(ses[s].place) \cap running = {}
    /\ ses' = [ses EXCEPT ![s].pc = "gone"]
    /\ UNCHANGED <<up, running, cache, disturbed, unconfirmed>>

LogsForget(s) ==
    /\ ses[s].pc = "gone"
    /\ ses' = [ses EXCEPT ![s] = Idle]
    /\ remove_job_metadata({ses[s].victim})
    /\ Disturb(~(meta[ses[s].victim] \subseteq ses[s].place))
    /\ UNCHANGED <<up, running, unconfirmed>>

(* setup prune-job-metadata-cache: no snapshot, nothing is protected. *)
PruneByHand ==
    /\ prune_job_metadata({}) # {}
    /\ remove_job_metadata(prune_job_metadata({}))
    /\ disturbed' = TRUE
    /\ UNCHANGED <<up, running, ses, unconfirmed>>

-----------------------------------------------------------------------------
(* The environment: hosts leave and return with their containers, a        *)
(* container dies and is removed (--rm), metadata grows old (no call lasts *)
(* PRUNE_MAX_AGE_DAYS).                                                    *)
HostDown(h) ==
    /\ h \in up
    /\ up' = up \ {h}
    /\ UNCHANGED <<running, cache, ses, disturbed, unconfirmed>>

HostUp(h) ==
    /\ h \notin up
    /\ up' = up \cup {h}
    /\ UNCHANGED <<running, cache, ses, disturbed, unconfirmed>>

ContainerDies(x) ==
    /\ running' = running \ {x}
    /\ UNCHANGED <<up, cache, ses, disturbed, unconfirmed>>

Age(c) ==
    /\ c \in files \ old
    /\ \A t \in Session : ses[t].cid # c
    /\ old' = old \cup {c}
    /\ UNCHANGED <<up, running, files, meta, newer, ses, disturbed, unconfirmed>>

RunStep(s) ==
    \/ \E c \in Cid, k \in Cluster : Plan(s, c, k)
    \/ Ensure(s) \/ Save(s) \/ Distribute(s) \/ Write(s) \/ Sweep(s) \/ SweepFails(s)
    \/ Evict(s) \/ EvictFails(s) \/ StartContainers(s) \/ CollectRuntimeInfo(s)
    \/ ListStale(s) \/ Prune(s)

StopStep(s) ==
    \/ \E c \in Cid, H \in SUBSET Host : StopById(s, c, H)
    \/ \E i \in Intent, H \in NamedHosts : StopByIntent(s, i, H)
    \/ \E k \in Cluster : StopAll(s, k)
    \/ Teardown(s) \/ Forget(s) \/ StopAllTeardown(s) \/ StopAllForget(s)

LogsStep(s) ==
    \/ \E c \in Cid : LogsById(s, c)
    \/ \E i \in Intent, H \in NamedHosts : LogsByIntent(s, i, H)
    \/ LogsLook(s) \/ LogsConfirm(s) \/ LogsForget(s)

Next ==
    \/ \E s \in Session : RunStep(s) \/ StopStep(s) \/ LogsStep(s) \/ Interrupt(s)
    \/ \E c \in Cid : Age(c)
    \/ PruneByHand
    \/ \E h \in Host : HostDown(h) \/ HostUp(h)
    \/ \E x \in running : ContainerDies(x)

Spec == Init /\ [][Next]_vars

-----------------------------------------------------------------------------
(* Through outages, dead containers, failed and interrupted launches, the  *)
(* metadata lists every container that runs, or is just being written for  *)
(* it, until one of the circumstances of Disturb has occurred.             *)
BeingWritten(c) == \E s \in Session : ses[s].pc \in Writing /\ ses[s].cid = c

Listed == \A x \in running : x \in meta[x.cid] \/ BeingWritten(x.cid)

MetadataListsLive == ~disturbed => Listed

(* What every session keeps to, disturbed or not: a launch's containers    *)
(* bear its own id and names enumerate_containers knows, and its eviction  *)
(* concerns other deployments of its own intent.                           *)
WellNamed(C) == \A x \in C : x.role \in enumerate_containers(Cardinality(HostsIn(C)))

WellFormed(v) ==
    /\ v.pc \in RunPc =>
           /\ v.cid \in Cid
           /\ \A x \in v.place : x.cid = v.cid
           /\ WellNamed(v.place)
           /\ \A x \in v.todo : x.cid # v.cid /\ x.cid[1] = v.cid[1]
    /\ v.pc \in {"tearing", "evicted"} =>
           v.victim \in Cid \ {v.cid} /\ v.victim[1] = v.cid[1]
    /\ v.pc \in {"teardown", "forget", "logs", "silent", "gone"} => v.victim \in Cid
    /\ v.pc = "pruning" => v.doomed \cap (v.seen \cup {v.cid}) = {}
    /\ v.pc # "pruning" => v.doomed = {}

SessionInv ==
    /\ \A c \in Cid : WellNamed(meta[c])
    /\ \A s \in Session : WellFormed(ses[s])

(* The inductive strengthening of MetadataListsLive: a launch's file is    *)
(* whole or in its hands, first in the order of its intent, and on no      *)
(* other call's list of files to unlink.                                   *)
Launching == {"saved", "staged", "evict", "tearing", "evicted", "launched"}
Filed == Writing \cup Launching

Apart == \A s, t \in Session : s # t => Concerns(s) \cap Concerns(t) = {}

Spared == \A s \in Session : ses[s].pc \in Filed => ~Doomed(ses[s].cid)

FirstInLine(v) ==
    /\ v.cid \in files \ old
    /\ \A d \in Cid : d[1] = v.cid[1] => <<d, v.cid>> \notin newer

Calm(s) ==
    /\ ses[s].pc \in Launching => meta[ses[s].cid] = ses[s].place
    /\ ses[s].pc \in Writing => OfCid(running, ses[s].cid) \subseteq ses[s].place
    /\ ses[s].pc \in Filed => FirstInLine(ses[s])
    /\ ses[s].pc \in {"evicted", "forget"} /\ ses[s].ok => OfCid(running, ses[s].victim) = {}
    /\ ses[s].pc = "sweep" => running \subseteq ses[s].todo
    /\ ses[s].pc = "swept" =>
           \A x \in running : x \in ses[s].todo /\ x.host \in ses[s].targets
    /\ ses[s].pc \in {"silent", "gone"} => OfCid(running, ses[s].victim) \cap ses[s].place = {}

AllCalm == Listed /\ Apart /\ Spared /\ \A s \in Session : Calm(s)

CalmInv == ~disturbed => AllCalm

Alone == \A x, y \in running : x.cid[1] = y.cid[1] /\ x.host = y.host => x.cid = y.cid

(* Replacing one's own deployment (issue #223): no host runs two           *)
(* deployments of one intent, unless an eviction was not confirmed.        *)
OneDeploymentPerHost == ~disturbed /\ ~unconfirmed => Alone

(* The inductive strengthening of OneDeploymentPerHost: from its sweep on, *)
(* a launch has every deployment it replaces on its list, or in hand.      *)
Evicting == {"evict", "tearing", "evicted"}

Covered(s) ==
    ses[s].pc \in Evicting =>
        \A y \in running :
            /\ y.cid # ses[s].cid
            /\ y.cid[1] = ses[s].cid[1]
            /\ y.host \in HostsIn(ses[s].place)
            => y \in ses[s].todo \/ (ses[s].pc = "tearing" /\ y.cid = ses[s].victim)

ReplacementInv == ~disturbed /\ ~unconfirmed => Alone /\ \A s \in Session : Covered(s)

(* "Same intent only.  Foreign workloads are never touched": no step of a  *)
(* launch removes a container of another intent, whatever the other        *)
(* sessions do.                                                            *)
ForeignUntouched ==
    [][\A s \in Session, x \in running :
           ses[s].pc \in RunPc /\ ses'[s] # ses[s] /\ x \notin running' => x.cid[1] = ses[s].cid[1]]_vars
=============================================================================
