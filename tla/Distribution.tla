--------------------------- MODULE Distribution ---------------------------
(***************************************************************************)
(* How the image and the model of a recipe get to the hosts before a       *)
(* launch (orchestration/distribution.py, containers/distribute.py,        *)
(* models/distribute.py and the shell scripts they send).  A session is    *)
(* one call of distribute_from_config; it takes the entries of the recipe  *)
(* one after the other, each inside a pending operation (PendingOps).      *)
(*                                                                         *)
(* An entry is distributed by one or two legs.  The leg "local" ensures    *)
(* the resource on the control machine and sends it to hosts from there;   *)
(* the leg "head" does the same from the first target to the other ones.   *)
(* Push is a local leg to the head followed by a head leg.                 *)
(*                                                                         *)
(* An image on a node is its version, 0 when absent; a model is nothing,   *)
(* some of its files (1) or all of them (2).  A transfer address is the    *)
(* host it reaches.  Probing, pulling and each transfer are steps of their *)
(* own; MaxFaults bounds how many of them fail or are interrupted.         *)
(***************************************************************************)
EXTENDS Naturals, FiniteSets, Sequences

CONSTANTS
    Session, Viewer, HostOf, Absent, Torn, IoFaults, MayAge, \* see PendingOps
    Hosts,          \* host_list: the hosts of the cluster in order, not
                    \* just this machine (which distributes nothing)
    Control,        \* the control machine, one of them or not
    Scenario,       \* what the nodes hold, who mounts the shared model
                    \* cache, the calls the sessions may make
    CrossUser,      \* the hosts are reached as another user
    BareName,       \* the model id has no "/"
    MaxVersion,     \* bound: versions of the image in the registry
    MaxFaults       \* bound: failed and interrupted remote steps

Kind == {"image", "model"}
Elements(seq) == {seq[i] : i \in DOMAIN seq}
Node == Elements(Hosts) \cup {Control}

Request ==
    [kinds: {<<"image">>, <<"model">>, <<"image", "model">>},
     targets: {q \in UNION {[1 .. n -> Elements(Hosts)] : n \in 1 .. Len(Hosts)} :
                 \A i, k \in DOMAIN q : q[i] = q[k] => i = k},
     mode: {"auto", "local", "push", "delegated"},
     ib: BOOLEAN,        \* addresses of a second network are known
     force: BOOLEAN]     \* --rebuild

VARIABLES
    img,       \* version of the image on each node
    mdl,       \* files of the model on each node
    registry,  \* version a pull gets
    mounts,    \* the nodes that mount the shared model cache
    job,       \* where each session is
    alone,     \* history: no other session has been active meanwhile
    faults     \* failed and interrupted steps so far

VARIABLES file, aged, at, key, handle, prune, raced

distVars == <<img, mdl, registry, mounts, job, alone, faults>>
lockVars == <<file, aged, at, key, handle, prune, raced>>
vars == <<distVars, lockVars>>

Lock == INSTANCE PendingOps WITH Process <- Session, Operation <- Kind

ASSUME DistributionAssumption ==
    /\ Hosts \in Seq(Elements(Hosts)) /\ Hosts \notin {<<>>, <<Control>>}
    /\ Scenario \subseteq [img: [Node -> {0, 1}], mdl: [Node -> 0 .. 2], mounts: SUBSET Node,
                          ask: [Session -> SUBSET Request], faults: 0 .. MaxFaults]
    /\ CrossUser \in BOOLEAN /\ BareName \in BOOLEAN
    /\ MaxVersion \in Nat \ {0} /\ MaxFaults \in Nat
    /\ Lock!PendingAssumption

(* A session before its call, and from then on. *)
Idle == [step: {"idle"}, ask: SUBSET Request]

Job ==
    [req: Request,
     kinds: {<<"image">>, <<"model">>, <<"image", "model">>},   \* still to distribute
     mode: {"local", "push", "delegated"},
     since: 1 .. MaxVersion,      \* history: the registry's version at the call
     leg: {"local", "head"},
     step: {"probe", "ensure", "send", "leave", "done", "failed"},
     forced: BOOLEAN,             \* this pull takes the registry's version
     retry: BOOLEAN,              \* a failed delegation falls back to a push
     hosts: SUBSET Node,          \* whom a failure of the head leg is blamed on
     to: SUBSET Node, bad: SUBSET Node,   \* transfers to be made, failed ones
     failed: SUBSET Node]         \* the result of the entry

TypeOK ==
    /\ img \in [Node -> 0 .. MaxVersion]
    /\ mdl \in [Node -> 0 .. 2]
    /\ registry \in 1 .. MaxVersion
    /\ mounts \subseteq Node
    /\ job \in [Session -> Idle \cup Job]
    /\ alone \in [Session -> BOOLEAN]
    /\ faults \in 0 .. MaxFaults
    /\ Lock!TypeOK

Init ==
    /\ \E c \in Scenario :
        /\ img = c.img
        /\ mdl = c.mdl
        /\ mounts = c.mounts
        /\ job = [s \in Session |-> [step |-> "idle", ask |-> c.ask[s]]]
        /\ faults = c.faults
    /\ registry = 1
    /\ alone = [s \in Session |-> FALSE]
    /\ Lock!Init

-----------------------------------------------------------------------------
(* What the parts of a job mean. *)
Active(s) == job[s].step \notin {"idle", "done", "failed"}
At(s, leg, step) == Lock!Inside(s) /\ job[s].step = step /\ job[s].leg = leg
kind(j) == Head(j.kinds)
head(j) == Head(j.req.targets)
SkipFanOut == mounts # {}

(* The whole leg goes to the targets, or to the head only. *)
dest(j) == IF j.mode = "local" THEN j.req.targets ELSE <<head(j)>>

source(j) == IF j.leg = "local" THEN Control ELSE head(j)

(* _subset_transfer_hosts keeps the order of the cluster's hosts. *)
_subset_transfer_hosts(hosts, q) ==
    LET kept == {i \in DOMAIN hosts : hosts[i] \in Elements(q.targets)}
        place(i) == Cardinality({k \in kept : k <= i})
    IN  [n \in 1 .. Cardinality(kept) |-> hosts[CHOOSE i \in kept : place(i) = n]]

(* The addresses of the workers: w_hosts, or hosts[1:] without them. *)
worker_transfer_hosts(q) ==
    LET w == _subset_transfer_hosts(Tail(Hosts), q)
    IN  IF q.ib /\ w # <<>> THEN w ELSE Tail(q.targets)

(* A failed address is reported as the host at its position, or as itself. *)
map_transfer_failures(bad, xfer, hosts) ==
    LET zip == DOMAIN xfer \cap DOMAIN hosts
    IN  {hosts[i] : i \in {k \in zip : xfer[k] \in bad}} \cup
        {a \in bad : \A k \in zip : xfer[k] # a}

(* A control machine outside the cluster may reach its fast network or     *)
(* not; as another user it sends nothing itself.                           *)
resolve_auto_transfer_mode(q) ==
    IF q.mode # "auto" THEN {q.mode}
    ELSE IF CrossUser THEN {"delegated"}
    ELSE IF Control \in Elements(Hosts) THEN {"local"}
    ELSE IF q.ib THEN {"local", "delegated"} ELSE {"delegated"}

LocalLeg(j) == [j EXCEPT !.leg = "local", !.step = "ensure"]

HeadLegProbing(j, force) ==   \* mutant: a forced pull is preceded by the check
    [j EXCEPT !.leg = "head", !.forced = force,
              !.step = IF kind(j) = "model" THEN "ensure" ELSE "probe",
              !.to = Elements(worker_transfer_hosts(j.req)), !.bad = {},
              !.hosts = Elements(Tail(j.req.targets))]

(* A head leg probes first, unless the pull is forced or it is a model.    *)
HeadLeg(j, force) ==
    [j EXCEPT !.leg = "head", !.forced = force,
              !.step = IF kind(j) = "model" \/ force THEN "ensure" ELSE "probe",
              !.to = Elements(worker_transfer_hosts(j.req)), !.bad = {},
              !.hosts = Elements(Tail(j.req.targets))]

Begin(j) ==
    LET entry == [j EXCEPT !.retry = (j.req.mode = "auto")]
    IN  IF j.mode = "delegated" THEN HeadLeg(entry, j.req.force) ELSE LocalLeg(entry)

Leave(j, failed) == [j EXCEPT !.step = "leave", !.failed = failed]

(* A leg has ended with these hosts failed: the next leg, or the result.   *)
After(j, failed) ==
    IF j.leg = "local" /\ j.mode # "local"
    THEN IF failed # {} THEN Leave(j, Elements(j.req.targets))
         ELSE IF Len(j.req.targets) > 1 THEN HeadLeg(j, FALSE)
         ELSE Leave(j, {})
    ELSE IF j.leg = "head" /\ failed # {} /\ j.retry /\ j.mode = "delegated"
    THEN LocalLeg([j EXCEPT !.retry = FALSE])
    ELSE Leave(j, failed)

Goto(s, j) == job' = [job EXCEPT ![s] = j]

(* A step that needs the network: it goes well, or it uses up a fault.     *)
Fault == faults < MaxFaults /\ faults' = faults + 1

GainMore(n, some) ==   \* mutant: what is there is not recognised
    mdl' = [m \in Node |->
              IF m = n \/ {m, n} \subseteq mounts THEN mdl[m] + some ELSE mdl[m]]

(* Files arrive on a node, and on every node that mounts the same cache.   *)
Gain(n, some) ==
    mdl' = [m \in Node |->
              IF (m = n \/ {m, n} \subseteq mounts) /\ mdl[m] < some THEN some ELSE mdl[m]]

-----------------------------------------------------------------------------
(* A session starts with a request. *)
Start(s) ==
    /\ job[s].step = "idle"
    /\ \E q \in job[s].ask : \E m \in resolve_auto_transfer_mode(q) :
        Goto(s, Begin([req |-> q, kinds |-> q.kinds, mode |-> m, since |-> registry,
                       leg |-> "local", step |-> "ensure", forced |-> FALSE,
                       retry |-> FALSE, hosts |-> {}, to |-> {}, bad |-> {}, failed |-> {}]))
    /\ alone' = [t \in Session |-> IF t = s THEN \A u \in Session \ {s} : ~Active(u)
                                            ELSE alone[t] /\ ~Active(t)]
    /\ UNCHANGED <<img, mdl, registry, mounts, faults, lockVars>>

(* ensure_image on the control machine: without --rebuild an image that is *)
(* there is kept, refreshed or not (a tag "latest"), and the refresh may   *)
(* fail.                                                                   *)
EnsureImage(s) ==
    LET j == job[s] IN
    /\ At(s, "local", "ensure") /\ kind(j) = "image"
    /\ \/ /\ img' = [img EXCEPT ![Control] = registry]
          /\ Goto(s, [j EXCEPT !.step = "probe"])
          /\ UNCHANGED faults
       \/ /\ img[Control] # 0 /\ ~j.req.force
          /\ Goto(s, [j EXCEPT !.step = "probe"])
          /\ UNCHANGED <<img, faults>>
       \/ /\ img[Control] = 0 \/ j.req.force
          /\ Fault
          /\ Goto(s, After(j, Elements(dest(j))))
          /\ UNCHANGED img
    /\ UNCHANGED <<mdl, registry, mounts, alone, lockVars>>

FilterAbsent(s) ==   \* mutant: any image of that name will do
    LET j == job[s] IN
    /\ At(s, "local", "probe")
    /\ \E lost \in SUBSET Elements(dest(j)) :
        /\ Goto(s, [j EXCEPT !.step = "send", !.bad = {},
                             !.to = {h \in Elements(dest(j)) : h \in lost \/ img[h] = 0}])
        /\ IF lost = {} THEN UNCHANGED faults ELSE Fault
    /\ UNCHANGED <<img, mdl, registry, mounts, alone, lockVars>>

(* The identity check of a local leg; a host that does not answer is sent  *)
(* the image.                                                              *)
_filter_hosts_needing_image(s) ==
    LET j == job[s] IN
    /\ At(s, "local", "probe")
    /\ \E lost \in SUBSET Elements(dest(j)) :
        /\ Goto(s, [j EXCEPT !.step = "send", !.bad = {},
                             !.to = {h \in Elements(dest(j)) : h \in lost \/ img[h] # img[Control]}])
        /\ IF lost = {} THEN UNCHANGED faults ELSE Fault
    /\ UNCHANGED <<img, mdl, registry, mounts, alone, lockVars>>

(* download_model on the control machine; with a shared cache nothing more *)
(* is done in the mode local.                                              *)
DownloadModel(s) ==
    LET j == job[s] IN
    /\ At(s, "local", "ensure") /\ kind(j) = "model"
    /\ \/ /\ Gain(Control, 2)
          /\ Goto(s, IF SkipFanOut /\ j.mode = "local" THEN After(j, {})
                     ELSE [j EXCEPT !.step = "send", !.to = Elements(dest(j)), !.bad = {}])
          /\ UNCHANGED faults
       \/ /\ Gain(Control, 1)
          /\ Fault
          /\ Goto(s, After(j, Elements(dest(j))))
    /\ UNCHANGED <<img, registry, mounts, alone, lockVars>>

(* The check that precedes a head leg.  When the head answers and has the  *)
(* image, the workers that differ from it are paired with the addresses by *)
(* their positions; otherwise every address gets it.                       *)
CheckIdentities(s) ==
    LET j == job[s]
        workers == Tail(j.req.targets)
        wt == worker_transfer_hosts(j.req)
    IN
    /\ At(s, "head", "probe")
    /\ \E lost \in SUBSET Elements(j.req.targets) :
        LET stale(h) == h \in lost \/ img[h] # img[head(j)]
            pairs == {i \in DOMAIN workers \cap DOMAIN wt : stale(workers[i])}
        IN
        /\ IF lost = {} THEN UNCHANGED faults ELSE Fault
        /\ IF head(j) \in lost \/ img[head(j)] = 0
           THEN Goto(s, [j EXCEPT !.step = "ensure"])
           ELSE IF \A h \in Elements(workers) : ~stale(h)
           THEN Goto(s, After(j, {}))
           ELSE Goto(s, [j EXCEPT !.step = "ensure",
                                  !.hosts = {workers[i] : i \in pairs},
                                  !.to = {wt[i] : i \in pairs}])
    /\ UNCHANGED <<img, mdl, registry, mounts, alone, lockVars>>

(* The script that ensures the resource on the head has succeeded. *)
HeadReady(j) ==
    IF j.hosts = {} \/ (kind(j) = "model" /\ SkipFanOut)
    THEN After(j, {}) ELSE [j EXCEPT !.step = "send"]

(* image_sync.sh: an image that is present is not pulled, unless forced.   *)
PullOnHead(s) ==
    LET j == job[s] IN
    /\ At(s, "head", "ensure") /\ kind(j) = "image"
    /\ IF img[head(j)] # 0 /\ ~j.forced
       THEN Goto(s, HeadReady(j)) /\ UNCHANGED <<img, faults>>
       ELSE \/ /\ img' = [img EXCEPT ![head(j)] = registry]
               /\ Goto(s, HeadReady(j))
               /\ UNCHANGED faults
            \/ /\ Fault
               /\ Goto(s, After(j, {head(j)} \cup j.hosts))
               /\ UNCHANGED img
    /\ UNCHANGED <<mdl, registry, mounts, alone, lockVars>>

DownloadIfNoWeights(s) ==   \* mutant: the check finds the files of every id
    LET j == job[s] IN
    /\ At(s, "head", "ensure") /\ kind(j) = "model"
    /\ IF mdl[head(j)] # 0
       THEN Goto(s, HeadReady(j)) /\ UNCHANGED <<mdl, faults>>
       ELSE \/ /\ Gain(head(j), 2)
               /\ Goto(s, HeadReady(j))
               /\ UNCHANGED faults
            \/ /\ Gain(head(j), 1)
               /\ Fault
               /\ Goto(s, After(j, {head(j)} \cup IF SkipFanOut THEN {} ELSE j.hosts))
    /\ UNCHANGED <<img, registry, mounts, alone, lockVars>>

(* model_sync.sh looks for weight files below a path in which every "/" of *)
(* the id has become one "-": it finds them only for ids without a "/".    *)
DownloadOnHead(s) ==
    LET j == job[s] IN
    /\ At(s, "head", "ensure") /\ kind(j) = "model"
    /\ IF BareName /\ mdl[head(j)] # 0
       THEN Goto(s, HeadReady(j)) /\ UNCHANGED <<mdl, faults>>
       ELSE \/ /\ Gain(head(j), 2)
               /\ Goto(s, HeadReady(j))
               /\ UNCHANGED faults
            \/ /\ Gain(head(j), 1)
               /\ Fault
               /\ Goto(s, After(j, {head(j)} \cup IF SkipFanOut THEN {} ELSE j.hosts))
    /\ UNCHANGED <<img, registry, mounts, alone, lockVars>>

(* One of the parallel transfers: docker save | docker load replaces the   *)
(* image, rsync adds the files that are missing and may stop half-way.     *)
Transfer(s, n) ==
    LET j == job[s]
        sent(bad) == Goto(s, [j EXCEPT !.to = @ \ {n}, !.bad = @ \cup bad])
    IN
    /\ Lock!Inside(s) /\ j.step = "send" /\ n \in j.to
    /\ \/ /\ sent({})
          /\ IF kind(j) = "image"
             THEN img' = [img EXCEPT ![n] = img[source(j)]] /\ UNCHANGED mdl
             ELSE Gain(n, mdl[source(j)]) /\ UNCHANGED img
          /\ UNCHANGED faults
       \/ /\ sent({n})
          /\ Fault
          /\ IF kind(j) = "image" THEN UNCHANGED mdl ELSE Gain(n, 1)
          /\ UNCHANGED img
    /\ UNCHANGED <<registry, mounts, alone, lockVars>>

(* All transfers have ended.  A local leg maps the failed addresses to     *)
(* hosts, a head leg blames all its workers.                               *)
Collect(s) ==
    LET j == job[s]
        xfer == IF j.req.ib /\ j.mode = "local"
                THEN _subset_transfer_hosts(Hosts, j.req) ELSE dest(j)
    IN
    /\ Lock!Inside(s) /\ j.step = "send" /\ j.to = {}
    /\ Goto(s, After(j, IF j.leg = "local"
                        THEN map_transfer_failures(j.bad, xfer, dest(j))
                        ELSE IF j.bad = {} THEN {} ELSE j.hosts))
    /\ UNCHANGED <<img, mdl, registry, mounts, alone, faults, lockVars>>

(* The pending operation is left behind: DistributionError, the next entry *)
(* or the end.                                                             *)
Proceed(s) ==
    LET j == job[s] IN
    /\ j.step = "leave" /\ at[s] = "out"
    /\ Goto(s, IF j.failed # {} THEN [j EXCEPT !.step = "failed"]
               ELSE IF Len(j.kinds) = 1 THEN [j EXCEPT !.step = "done"]
               ELSE Begin([j EXCEPT !.kinds = Tail(@)]))
    /\ UNCHANGED <<img, mdl, registry, mounts, alone, faults, lockVars>>

(* Ctrl-C inside the block: the remote scripts end with their session.     *)
Interrupt(s) ==
    LET j == job[s] IN
    /\ Lock!Inside(s) /\ j.step \in {"probe", "ensure", "send"}
    /\ Fault
    /\ Goto(s, Leave(j, Elements(j.req.targets)))
    /\ UNCHANGED <<img, mdl, registry, mounts, alone, lockVars>>

(* The control process is killed wherever it is. *)
Die(s) ==
    /\ Active(s)
    /\ Fault
    /\ Lock!Die(s)
    /\ Goto(s, [job[s] EXCEPT !.step = "failed"])
    /\ UNCHANGED <<img, mdl, registry, mounts, alone>>

(* A new version of the image is published. *)
Publish ==
    /\ registry < MaxVersion
    /\ registry' = registry + 1
    /\ UNCHANGED <<img, mdl, mounts, job, alone, faults, lockVars>>

-----------------------------------------------------------------------------
(* The steps of pending_op, taken at its two ends. *)
Locking(s) ==
    /\ \/ \E o \in Kind : /\ job[s].step \in {"probe", "ensure"} /\ at[s] = "out"
                         /\ o = kind(job[s]) /\ Lock!Check(s, o)
       \/ Lock!Open(s) \/ Lock!Write(s) \/ Lock!WriteError(s)
       \/ job[s].step = "leave" /\ Lock!Leave(s)
       \/ Lock!Remove(s)
    /\ UNCHANGED distVars

Viewing ==
    /\ \/ \E v \in Viewer, o \in Kind : Lock!Read(v, o) \/ Lock!Prune(v, o)
       \/ \E o \in Kind : Lock!Expire(o)
    /\ UNCHANGED distVars

SessionStep(s) ==
    \/ Start(s)
    \/ EnsureImage(s) \/ _filter_hosts_needing_image(s) \/ DownloadModel(s)
    \/ CheckIdentities(s) \/ PullOnHead(s) \/ DownloadOnHead(s)
    \/ \E n \in Node : Transfer(s, n)
    \/ Collect(s) \/ Proceed(s)
    \/ Interrupt(s) \/ Die(s)
    \/ Locking(s)

Next == (\E s \in Session : SessionStep(s)) \/ Viewing \/ Publish

Spec == Init /\ [][Next]_vars

-----------------------------------------------------------------------------
(* The entry of this kind has been reported as distributed. *)
Delivered(s, k) ==
    LET j == job[s] IN j.step = "leave" /\ kind(j) = k /\ j.failed = {}

(* With addresses of a second network, positions in the list of targets    *)
(* are positions in the list of addresses.                                 *)
Aligned(q) ==
    q.ib => /\ Head(q.targets) = Head(Hosts)
            /\ q.targets = _subset_transfer_hosts(Hosts, q)

(* "empty = full success" for every list of targets a recipe can name. *)
EmptyMeansSuccess ==
    \A s \in Session : Delivered(s, "image") =>
        \A h \in Elements(job[s].req.targets) : img[h] # 0

(* An image reported as distributed is on every target, whatever failed,   *)
(* was retried, filtered out or done by another session meanwhile, and the *)
(* ranks of a deployment run one image: unless another session meddled all *)
(* targets have the same version, though the tag moves in the registry and *)
(* hosts start with different ones.                                        *)
SuccessMeansAgreement ==
    \A s \in Session : Delivered(s, "image") /\ Aligned(job[s].req) =>
        \A g, h \in Elements(job[s].req.targets) :
            img[h] # 0 /\ (alone[s] => img[g] = img[h])

(* --rebuild leaves no target with an older image than the registry had    *)
(* when the command began, in any mode and through the fallback.           *)
ForceIsFresh ==
    \A s \in Session :
        Delivered(s, "image") /\ Aligned(job[s].req) /\ alone[s] /\ job[s].req.force =>
            \A h \in Elements(job[s].req.targets) : img[h] >= job[s].since

(* What skip_fan_out takes for granted: the hosts mount the cache that the *)
(* download fills.                                                         *)
CacheIsShared(j) ==
    SkipFanOut => /\ Elements(Hosts) \subseteq mounts
                  /\ j.mode = "local" => Control \in mounts

(* A model with a "/" in its id that is reported as distributed is         *)
(* complete on every target, after failed and interrupted attempts and     *)
(* beside other sessions, when a mode local with a shared cache runs on a  *)
(* machine that mounts it.                                                 *)
ModelComplete ==
    \A s \in Session :
        Delivered(s, "model") /\ Aligned(job[s].req) /\ ~BareName /\ CacheIsShared(job[s]) =>
            \A h \in Elements(job[s].req.targets) : mdl[h] = 2

-----------------------------------------------------------------------------
(* What a session has reached with the entry it is in, for the inductive   *)
(* arguments.  A leg serves some hosts from its source.                    *)
Served(j) == Elements(IF j.leg = "local" THEN dest(j) ELSE Tail(j.req.targets))

Has(j, n) == IF kind(j) = "image" THEN img[n] # 0 ELSE mdl[n] = 2

Fit(j) == kind(j) = "image" \/ (~BareName /\ CacheIsShared(j))

(* What is sent is there, also when the addresses are not aligned. *)
SourceInv(j) ==
    kind(j) = "image" /\ (j.step = "send" \/ (j.leg = "local" /\ j.step = "probe")) =>
        img[source(j)] # 0

HeadInv(j) ==
    /\ j.step # "send" => j.bad = {}
    /\ j.hosts = {} => j.to \cup j.bad = {}
    /\ j.step = "probe" => Served(j) \subseteq j.to /\ ~j.forced
    /\ j.step = "ensure" =>
          \/ Served(j) \subseteq j.to
          \/ /\ kind(j) = "image" /\ ~j.forced
             /\ \A h \in {head(j)} \cup (Served(j) \ j.to) : img[h] # 0

(* Every host served so far has the image, or the complete model. *)
LegInv(j) ==
    /\ j.step = "probe" => kind(j) = "image"
    /\ j.step = "send" =>
          Has(j, source(j)) /\ \A h \in Served(j) \ (j.to \cup j.bad) : Has(j, h)
    /\ j.leg = "head" /\ j.step \in {"probe", "ensure", "send"} => HeadInv(j)
    /\ j.step = "leave" /\ j.failed = {} => \A h \in Elements(j.req.targets) : Has(j, h)

(* It has the image of the source. *)
AgreeInv(j) ==
    /\ j.step = "send" => \A h \in Served(j) \ (j.to \cup j.bad) : img[h] = img[source(j)]
    /\ j.step = "ensure" /\ j.leg = "head" => \A h \in Served(j) \ j.to : img[h] = img[head(j)]
    /\ j.step = "leave" /\ j.failed = {} =>
          \A h \in Elements(j.req.targets) : img[h] = img[head(j)]

(* The source is fresh once --rebuild has pulled. *)
FreshInv(j) ==
    /\ j.leg = "local" /\ j.step \in {"probe", "send"} => img[Control] >= j.since
    /\ j.leg = "head" /\ ((j.step \in {"probe", "ensure"} /\ ~j.forced) \/ j.step = "send") =>
          img[head(j)] >= j.since
    /\ j.step = "leave" /\ j.failed = {} => img[head(j)] >= j.since

EntryInv(j, undisturbed) ==
    /\ SourceInv(j)
    /\ Aligned(j.req) =>
          /\ Fit(j) => LegInv(j)
          /\ kind(j) = "image" /\ undisturbed => AgreeInv(j) /\ (j.req.force => FreshInv(j))

SessionInv(s) ==
    Active(s) =>
        /\ job[s].since <= registry
        /\ alone[s] => \A t \in Session \ {s} : ~Active(t)
        /\ EntryInv(job[s], alone[s])

(* The two promises of PendingOps, kept through every end of an entry.     *)
HeldLockStays == Lock!HeldLockStays
LockEndsWithOwner == Lock!LockEndsWithOwner
=============================================================================
