# sparkrun in TLA+

sparkrun launches, stops, benchmarks and fronts inference workloads on a small set of machines.  It runs on a
control machine, reaches the others over SSH, and has no server of its own: what it knows lives in YAML and lock
files under `~/.cache/sparkrun`, which several invocations, background processes and machines read and write at
the same time.  Its correctness rests on those files agreeing with what really runs, although calls overlap, hosts
disappear and processes are killed.  These modules state that agreement, check it with TLC and, for
every number of hosts, processes and calls, prove it with TLAPS.

Paths below are relative to `src/sparkrun/` of the repository.

## 1. Inventory

| component | state it keeps | operations |
|---|---|---|
| Launch pipeline: `api/_run.py`, `core/launcher.py` | none of its own; writes job metadata, starts containers | plan, ensure, save metadata, distribute, evict the superseded deployment, start, collect versions, prune |
| Stop: `api/_stop.py`, `api/_stop_all.py`, `api/_resolve.py` | - | stop by id, stop by recipe, stop all |
| Job metadata: `orchestration/job_metadata.py` | `jobs/<id>.yaml` | save, remove, prune (per-intent recency and age) |
| Docker executor: `orchestration/executors/` | containers on every host | run, status snapshot, teardown by names |
| Logs: `api/_logs.py`, `runtimes/base.py` | - | derive the sources from the hosts given, look for them, delete the metadata when none is found; follow |
| Benchmark lock: `benchmarking/run_state.py` | `run.lock` in the state directory | `hold_state_dir`: create, reclaim a stale one, release |
| Benchmark schedule: `benchmarking/scheduler.py`, `aggregator.py`, `run_state.py` | `state.yaml`, one result file per task | run, mark, gap pass, resume, discard |
| Proxy: `proxy/engine.py`, `proxy/autodiscover.py`, `api/proxy/_ops.py` | `state.yaml` (two pids), the gateway config, two kinds of processes | start, restart, stop, sync, the daemon's sweep |
| Native and Ray cluster launch: `runtimes/_cluster_ops.py`, `runtimes/vllm_ray.py`, `orchestration/health.py` | containers, a port of the head host | clean up leftovers, choose a port, start the ranks in parallel, wait for the head, execute the serve command, clean up after a failure |
| Distribution: `orchestration/distribution.py`, `containers/distribute.py`, `models/distribute.py`, scripts | images and model files on every node | compare identities, pull or download, transfer, fall back from delegated to push |
| Pending operations: `core/pending_ops.py` | `pending/*.lock` | enter, write, leave, list, prune stale ones |
| Schedulers: `core/scheduler.py`, `schedulers/`, `api/_hosts.py` | none | place ranks on accelerators against a snapshot |
| Local executor: `orchestration/executors/local.py` | a pid file per workload, process groups | start, stop, status, teardown scripts |
| Registries: `core/registry.py`, `cli/_registry.py` | `registries.yaml`, git checkouts, links | add, remove, enable, trust, restore, clean up, reset, update |
| Cluster definitions, recipes, hooks, mods, builders, runtime caches, Kubernetes executor, networking, Tailscale, monitoring, telemetry, estimates, tuning, CLI | see `components` of `PROJECT.json` | |

How they interact.  `api.run` asks a scheduler for hosts, writes the metadata *before* it touches any host, asks the
executor for a snapshot of the candidate hosts, calls `api.stop` for each superseded deployment of the same intent,
distributes image and model to the hosts under pending-operation locks, starts the containers through the runtime,
rewrites the metadata and prunes the cache, protecting what the snapshot
showed.  `api.stop` reads the metadata for the hosts and derives the container names from their number.
`api.benchmark` launches through `api.run`, takes the lock and runs the schedule under it.  The proxy commands and
the autodiscover daemon share a state file, a config file and signals, and discover endpoints from the job metadata.

What is hard in this code, with the properties that follow from it (the full list, line by line, is `hazards` of
`PROJECT.json`):

* *stale snapshots*: eviction and prune act on what a query showed minutes earlier, of some of the hosts;
* *no rollback*: an exception, Ctrl-C or SIGKILL between two steps leaves files and containers as they are;
* *partial answers*: some hosts answer a teardown or a discovery and others do not;
* *file protocols*: lock and state files are created, written, read and unlinked in separate system calls;
* *resumption*: a later session continues what an earlier one recorded, or discards it;
* *late effects*: a remote call that ran into its timeout may still be carried out after the launch gave up;
* *shared things*: two registries share a checkout, two launches a head host, two workloads a machine's accelerators;
* *process supervision by pid*: a process is looked for by pid, and is somebody's child, a zombie, or dying.

## 2. Modules and how they correspond to the code

Every module is a state machine with one action per handler or per step of it that others can interleave with;
`map` in `PROJECT.json` gives the lines of each definition.  Operators named *Mutant* in a comment are deliberately
wrong variants of the definition that follows them: substituting one for it must break a property.

**Deployments** (`MCDeployments`, `DeploymentsProofs`).  `running` is what the machines run, `files` the ids with a file
in the cache, `meta[c]` the set of containers the file of `c` describes (none: no file, or an empty one), `newer`
and `old` the order and age of the files, `up` the hosts that answer, `ses[s]` where each call is and its local
variables.  A cluster id is an intent with a token, derived from the cluster or random.  A launch is `Plan, (Ensure |
Save, Distribute, Sweep | SweepFails, {Evict, Teardown, Forget | EvictFails}, StartContainers, CollectRuntimeInfo,
ListStale, Prune)`.  Each of its three saves, in `Save`, `Distribute` and `CollectRuntimeInfo`, stamps and truncates
the file (`open_private_write`) and writes it in a step of its own (`Write`), which may fail; the prune lists the
cache in one step and unlinks in the next.  A stop is `StopById | StopByIntent, Teardown, Forget`, or `StopAll,
StopAllTeardown, StopAllForget`; a call of logs is `LogsById | LogsByIntent, LogsLook, LogsConfirm, LogsForget`, about
the sources that `log_sources` derives from the hosts of the call, whatever the deployment runs on.  `Interrupt` ends
any call anywhere, between the halves of a save too.  Container names follow the runtime (`solo`, `node_<rank>`, Ray's `head` and `worker`), because teardown
finds containers by the names it derives from the number of hosts.  The environment may take hosts down and up,
kill containers, age files and prune by hand.

**StateDirLock** (`MCStateDirLock`; proved about in `BenchmarkProofs`).  `hold_state_dir` with each system call a step.  A file is
named by the run that created it, so unlinking by name can hit somebody else's file.  Runs crash, pids are recycled,
runs on other hosts cannot check a pid, locks age, and a run in `IoFaults` may fail any write or unlink.

**Benchmark** (`MCBenchmark`, `BenchmarkProofs`) extends StateDirLock: several runs on one state directory, each of
which, once inside the lock's block (`pc[r] = "held"`), makes one session.  `phase[r]` is where the session is, `mem[r]`
its copy of the state, `cur`, `gapped`, `failfast` its locals, `ran[r]` what it ran; `disk` is `state.yaml` and `results` the
tasks with a result file, which all runs share.  A session may end by completion, fail-fast, Ctrl-C, another exception or
SIGKILL, and the next one, in the same or another run, resumes or discards what it left.  A step is a step of the lock
with the sessions unchanged, a step of a session with the lock unchanged, or one of both: the block ends with its session
(`EndBlock`), a killed process takes its session with it (`Kill`).  Nothing in the sessions' guards keeps two of them
apart; that is what the lock is for.

**ProxyEngine** (`MCProxyEngine`, `ProxyEngineProofs`).  `state` is the state file, `config` the models in the gateway config, `proxy[p]` the
life of each gateway process, the models of the config it read and whose child it is, `act` what each command and each
daemon is doing, `told` the daemons that were sent SIGTERM.  A step is what a process does between two waits: the
discovery sweep, the exit of the old proxy, the grace of the new one.  `Apply`, `Respawn` and `Restarted` are
`apply_desired_state` and `_restart_proxy`, shared by `sync` and the daemon.  The old proxy counts as exited when it is
a zombie (`_wait_for_exit` looks at the process status), but `is_running` and the daemon's `_proxy_alive` ask
`os.kill(pid, 0)`, which a zombie answers.  `Respawn` reaps the daemon's earlier children, as `subprocess` does when
the handle is dropped.  Aliases ride on the model list and are left out, as are permission errors.

**PendingOps** (proved about in `DistributionProofs`).  `file[o]` is the lock file of an operation: absent, torn (empty or
unparseable) or written by a process; `at`, `key` and `handle` say where each process is in `pending_op`, for what,
and whether its open file is still the one under the path; `prune[v]` what a command that lists the operations has read
as stale and will unlink.  A live lock excludes nobody: who finds one goes on as a guest.

**Distribution** (`MCDistribution`, `DistributionProofs`) uses PendingOps as its lock (`INSTANCE ... WITH Process <-
Session, Operation <- Kind`).  `img[h]` is the version of the image on a node, `mdl[h]` none, part or all of the model,
`registry` the version a pull gets, `job[s]` the leg and step a session is at.  Push, delegated and local mode are one or
two legs, from the control machine or from the first target; each leg compares identities, ensures its own copy and
sends it to the rest.  Transfer addresses are looked up by position, as `zip` does.  `CrossUser`, hosts reached as another
user, makes the automatic mode delegated; the runs have it FALSE, the theorems hold of both.

**ClusterLaunch** (`MCClusterLaunch`, `ClusterLaunchProofs`).  `run_native_cluster` and its Ray variant: `pc[l]` the phase, `todo` and `bad` the
ranks a parallel phase waits for and whether a call failed, `box[l][r]` a rank's container, `listener` who has each
port of the head host, `lateRun` and `lateExec` the calls whose timeout has passed and which may still arrive.
**StartContract** is what a caller relies on: success means that every rank was started and nothing starts any more; it
is implemented by ClusterLaunch as long as no docker run was refused.

**Placement** (`MCPlacement`, `PlacementProofs`).  The host list `api.run` works out, with the greedy, sparse and dense schedulers, over
a sequence of launches, relaunches and stops.  Planning and starting are two steps, so a second plan can fall in
between.  The status counts containers per host and says nothing of accelerators, as the Docker status does.
`FillHosts` is the packing loop, a function of the number of hosts it has looked at; `Ask` what the ranks need and what is
known to be used, `Fill` what one host adds.

**LocalProcess** (`MCLocalProcess`, `LocalProcessProofs`).  `file[n]` the pid file of a workload, `lead[p]` and `kids[p]`
the process and the group of each pid, `pc`, `name`, `pid` where each shell script is.  Every command of a script is a
step; a script ends in the middle when the connection is lost, and the host may reboot and give pids away again.

**Registries** (`MCRegistries`, `RegistriesProofs`).  `file` is `registries.yaml` (absent, torn, or the entries with
their version; what is left of a torn one may parse as an empty list), `own[n]`
the checkout in a registry's directory, `link[n]` the shared checkout it links to, `shared[u]` that checkout, each as
origin, version and covered subpaths; `head[u]` what the repository holds; `job[p]` the command of a process as a
sequence of phases, each of which reads the list, migrates it, truncates and writes it, or syncs checkouts one git
command after the other.  The module is written for several processes; the run has one, since a second one only adds
behaviours that `alone` and `lossy` excuse (the safety properties were found to hold there too).

The components meet through files.  Benchmark composes the lock (which implements **Mutex** while undisturbed) with the
sessions, Distribution its locks with the transfers; beyond that each model takes the others as its environment: `StartContainers` of
Deployments leaves what ClusterLaunch may leave, placements in Deployments are any that Placement could choose, and
the proxy's `healthy` is any set of models and may change at any time.

## 3. Runs

| run | instance | what it shows |
|---|---|---|
| `Deployments` | 2 hosts, 2 launches, 1 stop or logs; one call at a time with 2 mishaps and any hosts named, or 2 sessions, a native and a Ray intent, interleaved | the metadata lists what runs, an intent has one deployment on a host, no launch removes another intent's container |
| `StateDirLock` | 3 runs, 2 hosts, faults, ageing | the protocol implements `Mutex` while undisturbed, no lock without an owner, a dead owner's lock is reclaimed |
| `StateDirLockRace` | 3 runs, no fault | violation of `Exclusive` |
| `Benchmark` | 2 runs, 2 hosts, 3 tasks, 3 sessions, up to the lock's first disturbance | no save loses what the other run recorded, recorded work is kept, gaps are retried before completion is reported, fail-fast sessions end |
| `ProxyEngine` | 2 sessions, 2 daemons, 2 commands; 2 changes, or 1 change and a death or disturbance | the state file finds every live proxy, a stop is final, no daemon outlives the state file, a followed proxy catches up |
| `Distribution` | 3 hosts and a control machine, 2 sessions and a viewer, 2 image versions, 2 faults | success means every target has one and the same image, a fresh one with `--rebuild`, and the whole model; the locks keep their two promises |
| `DistributionSubset` | 1 session, every list of targets | violation of `EmptyMeansSuccess` |
| `ClusterLaunch` | a native and a Ray launch, 2 ranks, 2 ports, 2 faults | no rank meets a foreign port, an answered clean-up leaves nothing, `StartContract` is implemented, every launch ends |
| `ClusterLaunchRefused` | a docker run that is refused | violation of `SuccessMeansStarted` |
| `Placement` | 2 workloads of 7 kinds, 3 unequal hosts, 3 policies, 1 fault | accelerators are shared only where nobody could know, ranks are turned away only when there is no room, what runs is placed again |
| `LocalProcess` | 2 sessions, 2 workloads, 3 pids, no bound on the calls | a pid file leads to every live process, a confirmed teardown has ended it |
| `Registries` | 3 registries, 5 URLs, 5 sorts of files, 2 commands among endless updates, 1 fault | an update that reports success serves the repository, choices survive, registries on one URL do not disturb each other, updates catch up |

**Bounds.**  The bounds limit the calls made (`MaxLaunches`, `MaxStops`, `MaxCommands`), the misfortunes (`MaxMishaps`,
`MaxDeaths`, `MaxFaults`) and the changes outside (`MaxChanges`, `MaxVersion`, `Active`), never the steps of a call, the
sweeps of a daemon or the updates of a registry.  Two hosts are enough for every partial answer (one answers, the
other does not) and two launches for every eviction, since a launch only looks at deployments of earlier calls.
The random token makes the second deployment of an intent differ from the first.  `MaxNodes` is the largest number of
hosts of a deployment, `KeepPerIntent = 1` makes the recency window bite at once.  `Deployments` has two settings:
*misfortunes*, where one call at a time about one intent meets every pair of hosts that leave, containers that die, saves
that fail, files that age, failed queries, and stops and logs that name any hosts, and *interleaved*, where two sessions
work in every order without these.  The first ends at the first disturbance, after which its properties claim nothing; the
second goes on, without logs and the optional saves, for `ForeignUntouched`, which holds in spite of it.  For the lock, three runs are
two that compete and one that left its file; `MaxSessions` of the benchmark is one session that leaves a state, one
that resumes or discards it and one that resumes that.  The benchmark run has the constraint `~disturbed`: its
properties claim nothing after the lock's first disturbance, which the lock runs explore.  Its two runs are on
different hosts, so that what one has left when it was killed is taken over by age, or by itself again.  In the proxy run, a second command within the tolerance
after a death is what gives two daemons; as many proxy pids are provided as can be taken at once.  Distribution needs
three hosts for a worker list of two, whose positions can shift, and two versions for a tag that moves.  `Tries = 2`
stands for the 60 and 30 attempts of `wait_for_port`, the first of which does not look at the container and the others
do.  Placement's hosts have one accelerator of 2 units, two (1 and 2 units) and one, so that each policy prefers
another; the small host comes first and the big one last, so that an order by load differs from the given one.  Three pids let a workload's pid be given to another program.  In Registries three names are a pair on one URL
and a shipped one, and the five start files are: none, one from before the trust model, one with a shared checkout, one on a URL
deprecated since, and one brought back with a moved URL.

**Circumstances.**  Several guarantees hold only until the code's own assumptions fail, and the modules record that in
a history variable rather than restricting the behaviours.  `Deployments!disturbed`: two sessions work on one intent,
a sweep misses a running container, a prune relies on a sweep older than a deployment or has listed a file that is saved
before it unlinks it, a stop is given fewer hosts than the deployment has, logs is given other hosts than the
deployment's or in another order, and removes its metadata, an id is launched again elsewhere while it runs, a save
fails, a save of a running deployment is cut short, the cache is pruned by hand (`Disturb`).  A file of a launch that
is being rewritten is empty for the time of one step; `MetadataListsLive` counts its containers as listed until the call
ends (`BeingWritten`).  `unconfirmed`: an eviction was skipped or did not confirm, which the launch survives by design.
`StateDirLock!disturbed`: two acquisitions overlap, a live run's lock exceeds 72 hours, an `OSError` is swallowed.
`PendingOps!raced`: two read-then-act windows on one file overlap, or a running operation's lock exceeds 12 hours.
`Distribution!alone`: no other session was at work; `Aligned`: on a second network the targets start with the head of the
cluster; `CacheIsShared`: who skips the fan-out downloads into the cache the hosts mount.  `ClusterLaunch!raced`: the port
was not the launch's alone when it was chosen (the probe was not answered, or two launches probed before either
bound).  `Placement!excuse`: whom a container may meet, because the two planned without each other or a host kept silent.
`LocalProcess!muddled`: two scripts met on a workload, or one ended between the spawn and the writing of the pid.
`Registries!lossy`: the list was read torn, or two commands rewrote it at once; `blind`: git could not tell an origin or
cover the subpaths, which `update` does not report; `Stuck`: a repository without origin, or a link to nothing.
`ProxyEngine!disturbed`: somebody writes the shared files or signals during another's replacement of the proxy, a
process dies in the middle of one, or a foreground start ends after its proxy was replaced; `bypassed`: a refused start
has rewritten the config.  Each circumstance was added because TLC showed that the guarantee fails under it; the ones
that contradict a text of the repository are the violation runs.

**Fairness.**  `StateDirLock!FairSpec`: the operating system schedules every process, time passes for a lock, and who
was refused may ask again; used for `DeadOwnersLockGoes` only, whose premise is that somebody asks.
`Benchmark!BenchFairSpec`: a session runs on, and a task's subprocess ends, because `effective_timeout` is always set
(`api/_benchmark.py:460`).  `ProxyEngine!Fairness`: commands and daemons run on, a proxy that is told to exit does, by
SIGKILL at the latest, a new one reads its config or dies.  Leaving is strongly fair because the daemon counts the
seconds without a proxy across its sweeps (`missing_streak`); with commands and changes bounded, a proxy that is missing
again and again is one that is missing for good, so nothing more is assumed than the count gives.  No fairness is
assumed of users, hosts, deaths or changes.  `Deployments` has safety properties only.

All runs say `CHECK_DEADLOCK FALSE`: a system in which every bounded call has been made is at rest.

## 4. Proofs

`BenchmarkProofs`, first about the lock, for any runs and hosts (from `LockAssumption`: every run has a host, `NoLock` is
none of them): `TypeCorrect`; `LockHasOwnerHolds`, inductive with the types alone; `ExclusionHolds`, from `OwnershipHolds`.
Exclusion is not inductive, since nothing in it says why a run may create the file again.  `OwnershipInv`
adds that one run acquires at a time, that a run inside or releasing owns a complete, recent file, and that a run about
to unlink faces a dead run's file.  `RefinesMutex`: each step of the lock is a step of Mutex or a stutter while undisturbed,
with the holders as the runs inside the block, again from `OwnershipInv`.

Then about the benchmarks, for any number of tasks and sessions as well.  `BenchTypeCorrect` contains the types of the lock.  `BenchmarkLocks` is the composition: each step
of Benchmark is a step of StateDirLock or leaves its variables alone, so every theorem of the lock holds of benchmarks.
`UpdatesAreKept`, `RecordedKept` and `GapsRetried` follow from `SessionInv`: a session is inside its run's block, the task it
is on was marked as run, and, undisturbed, the state file is the session's memory, its status running, and after the gap
pass every completed task without results was run by this session.  None of it is inductive without the lock: a step of
another session would change the file under this one.  `OwnStep` is the sequential argument, what a session's own step
does while nobody else writes; `SessionInvKept` gets from `OwnershipInv` and `InBlock` that there is nobody else.

`DeploymentsProofs`, for any hosts, clusters, intents, sessions and bounds (from `DeploymentsAssumption`:
finitely many hosts, `KeepPerIntent` at least 1): `TypeCorrect` and `SessionsWellFormed`, that every session's
containers bear its id and names a teardown over as many hosts knows, and that its victims are of its own intent;
`ForeignUntouchedHolds` from it; `MetadataListsLiveHolds` from `CalmHolds`.  `MetadataListsLive` is not inductive: a
removal of metadata is right only if what it forgets is gone by then.  `CalmInv` says what each step of each call
relies on: between its saves a launch's own file describes its placement; from its first save on it is not old and no
file of its intent is newer (`FirstInLine`), so no prune puts it on its list before its containers run, and it is
on no list made before (`Spared`); what runs under an id whose file is being written is what is going to be written;
after a confirmed teardown nothing of the victim runs; what stop_all has left is on a host that failed; none of the
sources logs has looked for in vain runs; and two sessions never concern the same intent (`Apart`).  `RemovalCalm` and
`TruncateCalm` are the steps every removal and every save come down to.  `PlacedNames` and `NamesGrow` are the lemmas
on container names: every name given among n hosts is among those enumerated for n, and for more.
`OneDeploymentPerHostHolds` comes from `ReplacementHolds`: from its sweep to its start a launch has every other deployment
of its intent on its target hosts on its list or in hand (`Covered`), so that nothing is left of them when the list is
empty.  It rests on `CalmInv`, for what a confirmed teardown leaves and for launches of other sessions being of other intents.

`DistributionProofs`, for any sequence of hosts, sessions, versions and start scenarios (from `DistributionAssumption`).
Its first part is about the locks: every step of Distribution is a step of PendingOps or leaves its variables alone
(`UsesPendingOps`); `LocksEnd` needs only that a lock file names a process that is in that operation; `LocksHeld` needs
`PendingInv`, that outside `raced` at most one process or viewer is between its reading and its acting on a file, and
that the file is then what it read.  The second part is about what success means: `Agreement`, `Rebuilt`, `Complete`,
with `TypeCorrect`.  They follow from `SessionsInvariant`, which says for each session what its position in the call
has achieved: what the source of the leg holds (`SourceInv`, `HeadInv`), that every host served and not given up has the
image or the whole model (`LegInv`), the source's own version if nobody else was at work (`AgreeInv`), and none older
than the registry's at the call (`FreshInv`).  Two
facts carry it through the steps of other sessions: what a node holds only grows, and a session that was disturbed is no
longer `alone`.  `AlignedWorkers` is the lemma on the pairing of workers with transfer addresses: if the targets start with
the head of the cluster, the k-th worker gets its own address; `DistributionSubset` shows that this premise is needed.

`ClusterLaunchProofs`, for any launches, ranks, ports and numbers of attempts (from `LaunchAssumption`).  `TypeCorrect`
and `CleansUp` come from `Sound`, which looks at one launch and is preserved by its own steps, since another's leave its
variables alone: a launch that waits has a port (`Ported`), a Ray launch that has not found its head has touched nothing
but the head (`HeadOnly`), a call that may still arrive belongs to a launch that is going to fail (`LateFails`), and a phase
that is over has started the ranks it was due (`DueStarted`).  `NeverJoinsStrangers` is not inductive: `wait_for_port`
accepts whoever listens.  `PortInv` adds who claims a port, from its choice until nothing of the launch can
bind it any more, a late call included; that two claims on one port mean `raced`; and that only who claims it listens.  `KeepsTheContract` is the refinement of StartContract, action by action: a phase that ends is a
step of the contract only if it succeeds or gives up, all else is a stutter.  It stands on `LateFails`, without
which something could start after a success, and on `DueStarted`.

`RegistriesProofs`, for any names, URLs, manifests, subpaths and processes (from `RegistriesAssumption`: finitely many names,
a migrated URL is not migrated again, the shipped URLs are neither moved nor deprecated).  `TypeCorrect` comes with
`JobsInv`, which says what each position of a command implies about its list and its phase.  `ChoicesKept` needs that
every list in flight keeps what the user chose, except for the entry the command is about to set (`Carries`), that the
file does (`FileKeeps`), and that one process writes at a time (`OneWriter`).  `MigratedList` and `MigratedSame` are the
lemmas on the migration: what it returns is settled, and a settled list stays as it is.  `Updated` needs `OwnInv`: an
undisturbed update works on the list the file still has, each git command finds the checkout the one before it has left
(`Stage`), and what has been synced goes on being served while the later ones are (`Good`).  `Siblings` is an action
property over the same invariant: no step of a command takes away what another
enabled registry serves, except where git did not tell the origin (`blind`).

`ProxyEngineProofs`, for any numbers of sessions, daemons, pids and models: `TypeCorrect`, `LiveRecorded`, `StopIsFinal`.
`RecordInv` says that, undisturbed, at most one actor replaces the proxy, that the recorded one is not live while it does,
and that after a stop there is no state, no live proxy and nobody busy.

`LocalProcessProofs`, for any sessions, workloads and pids: `TypeCorrect`, `LiveTracked`, `ConfirmedGone`, from `TrackInv`,
which says what each script knows of the pid it holds between two commands.

`PlacementProofs`, for any workloads, hosts, accelerators, recipes and policies (from `PlacementAssumption`: finitely many
workloads, no host named twice, layouts and needs of the right shape).  Its first part is about the operators.  `SortedIs`:
sorting gives every member once, by the key, because the ranks of n different members are 0 to n - 1 (`Ranks`, an
induction over the number of members).  `FillStep` and `FillInduction`: after each host, what is placed are different, eligible accelerators of
the hosts looked at, and as long as ranks are left every acceptable host passed is full (`Adds`, `StepsAlong`); `FillRun` is
what that means at the end of the loop.  `ScheduleIs` and `ResolveIs` carry it through the scheduler, the layout, solo mode
and `max_nodes`.  `TypeCorrect` rests on them, since the type of an answer is a claim about the loop, and so does
`PacksAll`: a refused request finds fewer accelerators than ranks.

The second part is about launches that come and go.  `NeverSharedUnaware` is not inductive: a plan is made at one time
and carried out at another.  `Inv` adds that the hosts of a plan made by status have a seat of its own for each of its ranks (`ByStatusPlansSeated`), that two workloads whose plans both wait are counted as having planned without
each other (`PlannersMeet`), and so is whoever has started meanwhile on a host of a waiting plan (`NewcomersPlanned`).
`ChosenIsFree` is the step: a host of several accelerators some of which are busy is passed over, so a chosen host
whose status is known is idle.  `RelaunchIsPlaced` needs the other direction: nobody else on its hosts, a running deployment finds at
least its own accelerators (`SeatsAreLeft`), and the loop, which leaves nothing free, places every rank.

Only model-checked is liveness (`DeadOwnersLockGoes`, `FailFastEnds`, `DaemonsEnd`, `CatchesUp` of the proxy and of the
registries, `Terminates`), which is out of the prover's reach.  Every invariant and every action property of the runs is a
theorem.  The inductions over numbers and sequences go through the least element of a set of naturals: the smallest
counterexample of a fact about n, whose predecessor is none.

## 5. Disagreements

Shown by a run:

* **StateDirLockRace**: a lock whose payload is not written yet reads as a dead run's and is reclaimed
  (`benchmarking/run_state.py:251`), although line 193 speaks of exclusive ownership.
* **DistributionSubset**: for targets that leave out the head of the cluster the workers are paired with each other's
  addresses, and the empty list that means "full success" is returned for a host without the image
  (`containers/distribute.py:400` and `:357`).
* **ClusterLaunchRefused**: a refused `docker run` exits 0 because the script ends with a printf, and the launch succeeds
  without that rank (`scripts/container_launch.sh:2`, `runtimes/_cluster_ops.py:626`).

Met while modelling; the models do what the code does, and the circumstances above keep them out of the properties:

* An eviction that saw one of two hosts derives the names for one and confirms, so `node_1` stays and its metadata goes
  (`api/_stop.py:163`, against the text at `:201`).
* logs takes the hosts it is given and derives the container names from their number, so a solo job on one host of a
  two-host cluster, asked for by `sparkrun logs <recipe> --cluster`, is looked for as `node_0` and `node_1`, and its metadata
  is removed while it runs (`api/_logs.py:111` and `:150`, against "Confirmed gone" at `:302`).
* The later two saves of a launch truncate the file in place and their errors are swallowed
  (`orchestration/job_metadata.py:632`, `core/launcher.py:1078`, `:1395`), so a full disk or a kill beside running containers
  leaves an empty file, which loads as none; until it is written, other calls find none either.
* The prune protects what the sweep saw on this launch's candidate hosts, so the old file of a deployment on another
  cluster goes while it runs (`api/_run.py:522`, against `:313`).
* Hosts whose discovery failed do not count as failed for `stop_all` (`api/_stop_all.py:127`, against `:125`).
* Result files that cannot be removed are consolidated into the next session's results (`benchmarking/run_state.py:187`,
  against `api/_benchmark.py:752`).
* A replacement proxy that dies by itself is the daemon's zombie and counts as running: the daemon never leaves and a new
  start is refused (`proxy/autodiscover.py:48`, against `docs/PROXY.md:166`).
* A local workload whose leader has died keeps its workers: the stop does not signal the group and removes the pid file
  (`orchestration/executors/local.py:266`, against the docstring that speaks of the whole tree).
* `wait_for_port` asks `docker inspect` from its second attempt on (`orchestration/health.py:156`), so a native launch over
  several hosts under the local executor is given up there, although `docs/EXECUTORS.md` says such launches work.
* A recipe whose own mode is solo has `max_nodes` 1 (`core/recipe.py:955`), so its hosts are cut to the first one
  (`api/_hosts.py:258`) and the pick of a host with room is skipped (`:264`), although `:160` says that such a run lands on
  a host that has room.  With `--solo` alone the pick is made.
* A deployment that runs may be refused when it is launched again: packed on few hosts while others were busy, it is
  spread by the schedulers over the hosts that are idle now, and `max_nodes` refuses that (`api/_hosts.py:202`).
  `RelaunchFits` allows this refusal and no other.
* The per-host container counts never let the load score tell two eligible hosts apart.
* `model_sync.sh` builds the directory with `tr '/' '--'`, which no model id with a slash matches.
* `sparse-checkout set` that fails is not reported by `update` (`core/registry.py:1571` and `:1627`); after an origin that
  could not be read it narrows the shared checkout that an outdated link points to.
* A clone killed by its timeout may leave a repository without origin, and an interrupted cache clean-up a dangling link;
  no update repairs either.  `registries.yaml` is truncated in place: read torn, it is replaced by the defaults, and of two
  overlapping edits one is lost.  An `add` whose manifest has a reserved name stops after it has added the earlier ones.
* A stop that falls into a daemon's restart is undone when the daemon saves the replacement; `_stop_and_wait` does not
  wait, since `engine.stop` removes the state file it polls; a foreground start ends by signalling the daemon and removing
  the state of whichever proxy is recorded by then; a refused start rewrites the config, after which the daemon finds
  nothing to reconcile.

## 6. Not modelled

`jobs.autoprune` is on, as by default; a metadata file written in part counts as empty, and one that was unlinked and made
anew between a truncation and its write is not told from the first (either matters only within a disturbance); the fast path
of a distribution to the control machine alone (`orchestration/distribution.py:784`); of an explicit layout's checks all but
the one for ranks it does not cover (an unknown host, a rank given twice, a wrong number of accelerators); dry runs; the hooks' effects (a hook of a launch may fail); Kubernetes, whose
life cycle is the API server's; a task's subprocess that writes its results after its session was killed; contents of
recipes and model files; the validation of registry URLs and names; networking set-up and host preparation, which are
one-time sequences of remote commands; numeric estimates, which are floating point; commands that only read; builders,
tuning and monitoring, which share no state with the parts above.  These are most of the repository's lines: the modules
cover the parts that keep state several actors share.

## 7. Plan

Written so far, most important behaviour first: Deployments, the lock, the benchmarks on top of it, the proxy, the
pending operations with the distribution that uses them, the cluster launch, placement, the local executor, the
registries; every safety property is proved.  Next:

1. An abstract *Workloads* (an intent runs in one place and can be found), implemented by Deployments.
2. Deployments with the placements of Placement instead of any, and with the start of ClusterLaunch.
3. The planning of the fast network's addresses (`orchestration/networking.py`) as functions against a reference
   definition; the store of cluster definitions; the builders' state.
