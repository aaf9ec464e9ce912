--------------------------- MODULE ClusterLaunch ---------------------------
(***************************************************************************)
(* The start of the containers of a multi-node deployment, once everything *)
(* is distributed: run_native_cluster (runtimes/_cluster_ops.py) and the   *)
(* Ray variant VllmRayRuntime._run_cluster (runtimes/vllm_ray.py).         *)
(* Several launches run at the same time with the same head host.          *)
(*                                                                         *)
(* A native launch starts a sleeping container for every rank, executes    *)
(* the serve command in the head's, waits for the head's port and executes *)
(* it in the workers'.  A Ray launch starts the head's container, whose    *)
(* main process opens the port, waits for the port, starts the workers'    *)
(* containers and executes the serve command in the head's.                *)
(*                                                                         *)
(* A remote call that runs into its timeout has failed for the launch, and *)
(* may still be carried out on the host.  MaxFaults bounds everything that *)
(* goes wrong, Tries the attempts of wait_for_port (60 and 30 in the code).*)
(***************************************************************************)
EXTENDS Naturals, FiniteSets

CONSTANTS
    Launch,      \* deployments, with one cluster id each
    N,           \* hosts of each; rank 0 is on the head host
    Ray,         \* the launches of the Ray runtime
    MayKeep,     \* the launches that may be given --no-rm
    Refused,     \* the launches that may have a docker run refused
    Leftover,    \* the launches whose cluster id may still have its containers
    Port,        \* ports find_port may try, from the preferred one on
    Free,        \* nobody listens
    Other,       \* a program that is none of the deployments listens
    Tries, MaxFaults

Rank == 0 .. N - 1
Worker == 1 .. N - 1

ASSUME LaunchAssumption ==
    /\ N \in Nat \ {0}
    /\ Ray \cup MayKeep \cup Refused \cup Leftover \subseteq Launch
    /\ Port \subseteq Nat \ {0} /\ Port # {}
    /\ Free \notin Launch \cup {Other} /\ Other \notin Launch
    /\ Tries \in Nat \ {0} /\ MaxFaults \in Nat

VARIABLES
    pc,         \* where each launch is
    noRm,       \* the launches with --no-rm
    box,        \* the container of each rank
    todo,       \* ranks the running parallel phase waits for
    bad,        \* a call of the phase has failed
    port,       \* the port find_port chose, 0 before
    tries,      \* attempts wait_for_port has made
    listener,   \* who listens on each port of the head host
    lateRun,    \* docker run commands that may still be carried out
    lateExec,   \* docker exec commands that may still be carried out
    fallen,     \* history: ranks whose container went down by itself
    joined,     \* history: who listened when the wait ended
    raced,      \* history: the port was not the launch's alone
    cleaned,    \* history: the clean-up reached every host it went to
    faults

vars == <<pc, noRm, box, todo, bad, port, tries, listener, lateRun, lateExec,
          fallen, joined, raced, cleaned, faults>>

Ended == {"ok", "failed"}
Cleaning == {"cleanHead", "cleanAll"}
Places == {"idle", "port", "run", "hooks", "exec", "wait", "workers"} \cup Cleaning \cup Ended

(* old: left by an earlier launch; up: the main process alone; serving;    *)
(* lost: the serve command has ended and the container is about to; stray: *)
(* started after the launch ended; stopped: has exited, kept by --no-rm.   *)
Live == {"up", "serving", "lost", "stray"}
Boxes == Live \cup {"none", "old", "stopped"}

(* Every variable stays in its domain. *)
TypeOK ==
    /\ pc \in [Launch -> Places]
    /\ noRm \in SUBSET MayKeep
    /\ box \in [Launch -> [Rank -> Boxes]]
    /\ todo \in [Launch -> SUBSET Rank]
    /\ bad \in [Launch -> BOOLEAN]
    /\ port \in [Launch -> Port \cup {0}]
    /\ tries \in [Launch -> 0 .. Tries]
    /\ listener \in [Port -> Launch \cup {Free, Other}]
    /\ lateRun \in [Launch -> SUBSET Rank]
    /\ lateExec \in [Launch -> SUBSET Rank]
    /\ fallen \in [Launch -> SUBSET Rank]
    /\ joined \in [Launch -> Launch \cup {Free, Other}]
    /\ raced \in [Launch -> BOOLEAN]
    /\ cleaned \in [Launch -> BOOLEAN]
    /\ faults \in 0 .. MaxFaults

Init ==
    /\ pc = [l \in Launch |-> "idle"]
    /\ noRm \in SUBSET MayKeep
    /\ \E old \in SUBSET Leftover :
         box = [l \in Launch |-> [r \in Rank |-> IF l \in old THEN "old" ELSE "none"]]
    /\ todo = [l \in Launch |-> {}]
    /\ bad = [l \in Launch |-> FALSE]
    /\ port = [l \in Launch |-> 0]
    /\ tries = [l \in Launch |-> 0]
    /\ listener = [p \in Port |-> Free]
    /\ lateRun = [l \in Launch |-> {}]
    /\ lateExec = [l \in Launch |-> {}]
    /\ fallen = [l \in Launch |-> {}]
    /\ joined = [l \in Launch |-> Free]
    /\ raced = [l \in Launch |-> FALSE]
    /\ cleaned = [l \in Launch |-> FALSE]
    /\ faults = 0

-----------------------------------------------------------------------------
Fault == faults < MaxFaults /\ faults' = faults + 1

Goto(l, place) == pc' = [pc EXCEPT ![l] = place]

(* The order of the steps of the two runtimes. *)
Following(l) ==
    CASE pc[l] = "run"     -> IF l \in Ray THEN "wait" ELSE "hooks"
      [] pc[l] = "hooks"   -> "exec"
      [] pc[l] = "exec"    -> IF l \in Ray THEN "ok" ELSE "wait"
      [] pc[l] = "wait"    -> "workers"
      [] pc[l] = "workers" -> IF l \in Ray THEN "hooks" ELSE "ok"

(* Where a failure of a step leads: a failed start of the native containers *)
(* and an exception of a hook end the launch without any clean-up.          *)
OnFailure(l) ==
    CASE pc[l] = "hooks" \/ (pc[l] = "run" /\ l \notin Ray) -> "failed"
      [] l \in Ray /\ pc[l] \in {"run", "wait"}            -> "cleanHead"
      [] OTHER                                             -> "cleanAll"

(* The process that opens the port: Ray's head is the container's main     *)
(* process, a native head is the serve command.                            *)
Binding(l, state) == state \in (IF l \in Ray THEN Live ELSE {"serving"})

SetBoxes(l, ranks, state) ==
    /\ box' = [box EXCEPT ![l] = [r \in Rank |-> IF r \in ranks THEN state ELSE box[l][r]]]
    /\ listener' = [p \in Port |->
                      IF listener[p] = l /\ 0 \in ranks /\ ~Binding(l, state)
                      THEN Free ELSE listener[p]]

Gone(l) == IF l \in noRm THEN "stopped" ELSE "none"

(* The launch waits for its port, or its head holds it or may yet open it. *)
Claims(l) ==
    /\ port[l] # 0
    /\ \/ pc[l] \notin Ended
       \/ 0 \in lateRun[l] \cup lateExec[l]
       \/ Binding(l, box[l][0])

-----------------------------------------------------------------------------
(* Containers of an earlier launch are stopped on every host, best effort. *)
CleanupExisting(l) ==
    /\ pc[l] = "idle"
    /\ \E missed \in SUBSET Rank :
         /\ IF missed = {} THEN UNCHANGED faults ELSE Fault
         /\ SetBoxes(l, Rank \ missed, "none")
    /\ Goto(l, "port")
    /\ UNCHANGED <<noRm, todo, bad, port, tries, lateRun, lateExec, fallen, joined, raced, cleaned>>

detect_head_ip_fails(l) ==
    /\ pc[l] = "port" /\ l \notin Ray
    /\ Fault
    /\ Goto(l, "failed")
    /\ UNCHANGED <<noRm, box, todo, bad, port, tries, listener, lateRun, lateExec, fallen,
                   joined, raced, cleaned>>

First(P) == CHOOSE p \in P : \A q \in P : p <= q

Unused == {p \in Port : listener[p] = Free}

(* Mutant: the preferred port, whoever listens. *)
ScanNone == First(Port)

(* The first port nobody listens on, the preferred one when there is none. *)
Scan == First(IF Unused = {} THEN Port ELSE Unused)

(* The heads that claim a port and do not listen on it (yet). *)
Rivals(l, p) == {k \in Launch \ {l} : port[k] = p /\ Claims(k) /\ listener[p] # k}

(* A probe that gets no answer counts as a free port. *)
find_port(l) ==
    /\ pc[l] = "port"
    /\ \E p \in Port :
         /\ \/ p = Scan /\ UNCHANGED faults
            \/ p < Scan /\ Fault
         /\ port' = [port EXCEPT ![l] = p]
         /\ raced' = [k \in Launch |->
              \/ raced[k]
              \/ k # l /\ port[k] = p /\ Claims(k)
              \/ k = l /\ (p # Scan \/ Unused = {} \/ Rivals(l, p) # {})]
    /\ Goto(l, "run")
    /\ todo' = [todo EXCEPT ![l] = IF l \in Ray THEN {0} ELSE Rank]
    /\ UNCHANGED <<noRm, box, bad, tries, listener, lateRun, lateExec, fallen, joined, cleaned>>

-----------------------------------------------------------------------------
(* docker run of a rank.  The script ends with the result of its last      *)
(* printf: a run the daemon refuses is a success.                          *)
RunCarried(l, r) ==
    \/ /\ SetBoxes(l, {r}, "up")
       /\ fallen' = [fallen EXCEPT ![l] = @ \ {r}]
       /\ UNCHANGED faults
    \/ /\ l \in Refused /\ Fault
       /\ SetBoxes(l, {r}, "none")
       /\ UNCHANGED fallen

(* exec_serve_detached.sh: without a container there is no pid to look at, *)
(* and the script succeeds.                                                *)
ExecCarried(l, r) ==
    IF box[l][r] = "up" THEN SetBoxes(l, {r}, "serving") ELSE UNCHANGED <<box, listener>>

Runs(l) == pc[l] = "run" \/ (pc[l] = "workers" /\ l \in Ray)

(* One call of a parallel phase answers. *)
Answer(l, r) ==
    /\ pc[l] \in {"run", "workers"} /\ r \in todo[l]
    /\ IF Runs(l) THEN RunCarried(l, r)
                  ELSE ExecCarried(l, r) /\ UNCHANGED <<fallen, faults>>
    /\ todo' = [todo EXCEPT ![l] = @ \ {r}]
    /\ UNCHANGED <<noRm, pc, bad, port, tries, lateRun, lateExec, joined, raced, cleaned>>

(* It fails: the host cannot be reached, the serve command exits within    *)
(* its first three seconds, or the call runs into its timeout.             *)
CallFails(l, r) ==
    /\ pc[l] \in {"run", "workers"} /\ r \in todo[l]
    /\ Fault
    /\ \E timeout \in BOOLEAN :
         /\ lateRun' = IF timeout /\ Runs(l) THEN [lateRun EXCEPT ![l] = @ \cup {r}] ELSE lateRun
         /\ lateExec' = IF timeout /\ ~Runs(l) THEN [lateExec EXCEPT ![l] = @ \cup {r}] ELSE lateExec
    /\ todo' = [todo EXCEPT ![l] = @ \ {r}]
    /\ bad' = [bad EXCEPT ![l] = TRUE]
    /\ UNCHANGED <<noRm, pc, box, port, tries, listener, fallen, joined, raced, cleaned>>

(* Mutant: the phase ends with its first answer. *)
PhaseEndsEarly(l) ==
    /\ pc[l] \in {"run", "workers"} /\ todo[l] \notin {Rank, Worker}
    /\ Goto(l, IF bad[l] THEN OnFailure(l) ELSE Following(l))
    /\ lateRun' = [lateRun EXCEPT ![l] = @ \cup (IF Runs(l) THEN todo[l] ELSE {})]
    /\ todo' = [todo EXCEPT ![l] = {}]
    /\ UNCHANGED <<noRm, box, bad, port, tries, listener, lateExec, fallen,
                   joined, raced, cleaned, faults>>

(* Mutant: calls without a timeout. *)
PhaseEndsAnswered(l) ==
    /\ pc[l] \in {"run", "workers"} /\ todo[l] = {} /\ lateRun[l] = {}
    /\ Goto(l, IF bad[l] THEN OnFailure(l) ELSE Following(l))
    /\ UNCHANGED <<noRm, box, todo, bad, port, tries, listener, lateRun, lateExec, fallen,
                   joined, raced, cleaned, faults>>

(* The thread pool has no call left: every answer counts. *)
PhaseEnds(l) ==
    /\ pc[l] \in {"run", "workers"} /\ todo[l] = {}
    /\ Goto(l, IF bad[l] THEN OnFailure(l) ELSE Following(l))
    /\ UNCHANGED <<noRm, box, todo, bad, port, tries, listener, lateRun, lateExec, fallen,
                   joined, raced, cleaned, faults>>

run_pre_serve_hooks(l) ==
    /\ pc[l] = "hooks"
    /\ \/ Goto(l, Following(l)) /\ UNCHANGED faults
       \/ Goto(l, OnFailure(l)) /\ Fault
    /\ UNCHANGED <<noRm, box, todo, bad, port, tries, listener, lateRun, lateExec, fallen,
                   joined, raced, cleaned>>

(* The serve command of the head. *)
ExecHead(l) ==
    /\ pc[l] = "exec"
    /\ \/ /\ ExecCarried(l, 0)
          /\ Goto(l, Following(l))
          /\ UNCHANGED <<lateExec, faults>>
       \/ /\ Fault
          /\ lateExec' \in {lateExec, [lateExec EXCEPT ![l] = @ \cup {0}]}
          /\ Goto(l, OnFailure(l))
          /\ UNCHANGED <<box, listener>>
    /\ UNCHANGED <<noRm, todo, bad, port, tries, lateRun, fallen, joined, raced, cleaned>>

-----------------------------------------------------------------------------
(* Mutant: one attempt too many. *)
GivesUpLate(l) == tries[l] = Tries

GivesUp(l) == tries[l] + 1 = Tries

(* One round of wait_for_port.  From the second one on the container must  *)
(* be running, and an inspect without an answer says that it is not.       *)
HeadRuns(l) == box[l][0] \in Live

wait_for_port(l) ==
    /\ pc[l] = "wait"
    /\ \/ /\ tries[l] = 0 \/ HeadRuns(l)
          /\ listener[port[l]] # Free
          /\ joined' = [joined EXCEPT ![l] = listener[port[l]]]
          /\ todo' = [todo EXCEPT ![l] = Worker]
          /\ Goto(l, Following(l))
          /\ UNCHANGED <<tries, faults>>
       \/ /\ tries[l] = 0 \/ HeadRuns(l)
          /\ IF listener[port[l]] = Free THEN UNCHANGED faults ELSE Fault
          /\ tries' = [tries EXCEPT ![l] = @ + 1]
          /\ IF GivesUp(l) THEN Goto(l, OnFailure(l)) ELSE UNCHANGED pc
          /\ UNCHANGED <<joined, todo>>
       \/ /\ tries[l] > 0
          /\ IF HeadRuns(l) THEN Fault ELSE UNCHANGED faults
          /\ Goto(l, OnFailure(l))
          /\ UNCHANGED <<joined, todo, tries>>
    /\ UNCHANGED <<noRm, box, bad, port, listener, lateRun, lateExec, fallen, raced, cleaned>>

(* Mutant: the clean-up of a failed worker leaves the head. *)
TargetsWorkers(l) == IF pc[l] = "cleanHead" THEN {0} ELSE Worker

(* Ray's head is stopped alone as long as no worker has been started. *)
Targets(l) == IF pc[l] = "cleanHead" THEN {0} ELSE Rank

cleanup_after_failure(l) ==
    /\ pc[l] \in Cleaning
    /\ IF l \in noRm
       THEN UNCHANGED <<box, listener, cleaned, faults>>
       ELSE \E missed \in SUBSET Targets(l) :
              /\ IF missed = {} THEN UNCHANGED faults ELSE Fault
              /\ SetBoxes(l, Targets(l) \ missed, "none")
              /\ cleaned' = [cleaned EXCEPT ![l] = missed = {}]
    /\ Goto(l, "failed")
    /\ UNCHANGED <<noRm, todo, bad, port, tries, lateRun, lateExec, fallen, joined, raced>>

(* Ctrl-C: nothing is stopped, and calls on their way may be carried out. *)
Interrupt(l) ==
    /\ pc[l] \notin Ended
    /\ Fault
    /\ lateRun' = IF Runs(l) THEN [lateRun EXCEPT ![l] = @ \cup todo[l]] ELSE lateRun
    /\ lateExec' =
         [lateExec EXCEPT ![l] = @ \cup
            CASE pc[l] = "exec"                       -> {0}
              [] pc[l] = "workers" /\ l \notin Ray    -> todo[l]
              [] OTHER                                -> {}]
    /\ todo' = [todo EXCEPT ![l] = {}]
    /\ Goto(l, "failed")
    /\ UNCHANGED <<noRm, box, bad, port, tries, listener, fallen, joined, raced, cleaned>>

-----------------------------------------------------------------------------
(* What happens on the hosts meanwhile. *)

(* A head opens its port, or ends because somebody else has it. *)
Bind(l) ==
    /\ port[l] # 0 /\ listener[port[l]] # l
    /\ Binding(l, box[l][0]) /\ box[l][0] # "lost"
    /\ IF listener[port[l]] = Free
       THEN /\ listener' = [listener EXCEPT ![port[l]] = l]
            /\ UNCHANGED <<box, fallen>>
       ELSE /\ SetBoxes(l, {0}, IF l \in Ray THEN Gone(l) ELSE "lost")
            /\ fallen' = IF l \in Ray THEN [fallen EXCEPT ![l] = @ \cup {0}] ELSE fallen
    /\ UNCHANGED <<noRm, pc, todo, bad, port, tries, lateRun, lateExec, joined, raced, cleaned, faults>>

ServeEnds(l, r) ==
    /\ box[l][r] = "serving"
    /\ Fault
    /\ SetBoxes(l, {r}, "lost")
    /\ UNCHANGED <<noRm, pc, todo, bad, port, tries, lateRun, lateExec, fallen, joined, raced, cleaned>>

(* A container ends: its watchdog has seen the serve command end, or its   *)
(* main process is killed.                                                 *)
ContainerEnds(l, r) ==
    /\ box[l][r] \in Live
    /\ IF box[l][r] = "lost" THEN UNCHANGED faults ELSE Fault
    /\ SetBoxes(l, {r}, Gone(l))
    /\ fallen' = [fallen EXCEPT ![l] = @ \cup {r}]
    /\ UNCHANGED <<noRm, pc, todo, bad, port, tries, lateRun, lateExec, joined, raced, cleaned>>

LateRun(l, r) ==
    /\ r \in lateRun[l]
    /\ lateRun' = [lateRun EXCEPT ![l] = @ \ {r}]
    /\ SetBoxes(l, {r}, IF pc[l] \in Ended THEN "stray" ELSE "up")
    /\ fallen' = [fallen EXCEPT ![l] = @ \ {r}]
    /\ UNCHANGED <<noRm, pc, todo, bad, port, tries, lateExec, joined, raced, cleaned, faults>>

LateExec(l, r) ==
    /\ r \in lateExec[l]
    /\ lateExec' = [lateExec EXCEPT ![l] = @ \ {r}]
    /\ ExecCarried(l, r)
    /\ UNCHANGED <<noRm, pc, todo, bad, port, tries, lateRun, fallen, joined, raced, cleaned, faults>>

OtherListens(p) ==
    /\ listener[p] = Free
    /\ Fault
    /\ listener' = [listener EXCEPT ![p] = Other]
    /\ raced' = [k \in Launch |-> raced[k] \/ (port[k] = p /\ Claims(k))]
    /\ UNCHANGED <<noRm, pc, box, todo, bad, port, tries, lateRun, lateExec, fallen, joined, cleaned>>

-----------------------------------------------------------------------------
Control(l) ==
    \/ CleanupExisting(l) \/ find_port(l)
    \/ \E r \in Rank : Answer(l, r)
    \/ PhaseEnds(l) \/ run_pre_serve_hooks(l) \/ ExecHead(l)
    \/ wait_for_port(l) \/ cleanup_after_failure(l)

Step(l) ==
    \/ Control(l)
    \/ detect_head_ip_fails(l) \/ Interrupt(l) \/ Bind(l)
    \/ \E r \in Rank : CallFails(l, r) \/ ServeEnds(l, r) \/ ContainerEnds(l, r)
                         \/ LateRun(l, r) \/ LateExec(l, r)

Next == (\E l \in Launch : Step(l)) \/ (\E p \in Port : OtherListens(p))

Spec == Init /\ [][Next]_vars

(* Every remote call has a timeout and every loop a limit. *)
FairSpec == Spec /\ \A l \in Launch : WF_vars(Control(l))

-----------------------------------------------------------------------------
(* The workers are sent to a port on which their own head listens, unless  *)
(* the port was already somebody's or still to be bound by somebody else   *)
(* between find_port and the head's bind: the wait itself accepts any      *)
(* listener, and only checks its container from the second attempt on.     *)
NoForeignRendezvous ==
    \A l \in Launch : joined[l] \in {Free, l} \/ raced[l]

(* When a failed launch has cleaned up and every host it went to answered, *)
(* none of its containers is left, whatever had timed out before; only a   *)
(* docker run that arrives after the end can leave one.                    *)
FailureCleansUp ==
    \A l \in Launch :
        pc[l] = "failed" /\ cleaned[l] => \A r \in Rank : box[l][r] \notin {"up", "serving", "lost"}

Kept == Launch \ Refused

Contract == INSTANCE StartContract WITH
    Launch <- Kept,
    outcome <- [l \in Kept |-> IF pc[l] \in Ended THEN pc[l] ELSE "pending"],
    live <- [l \in Kept |-> {r \in Rank : box[l][r] \in Live}],
    fallen <- [l \in Kept |-> fallen[l]]

(* A launch whose docker runs are not refused keeps the contract of a      *)
(* start: it succeeds only after every rank was started, and once it has   *)
(* succeeded no call of it starts anything any more.                       *)
ImplementsContract == Contract!Spec

(* The same for every launch: launch_containers_parallel returns 0 on      *)
(* success and 1 on first failure.                                         *)
SuccessMeansStarted ==
    \A l \in Launch :
        pc[l] = "ok" => Rank \subseteq fallen[l] \cup {r \in Rank : box[l][r] \in Live}

-----------------------------------------------------------------------------
(* What every launch keeps to, for the inductive arguments.  It has a port *)
(* from find_port on, and gives up its wait in time.                       *)
Working == {"run", "hooks", "exec", "wait", "workers"} \cup Cleaning

Ported(l) ==
    /\ pc[l] \in {"idle", "port"} => port[l] = 0
    /\ pc[l] \in Working => port[l] # 0
    /\ pc[l] \notin Cleaning \cup Ended => tries[l] < Tries

(* Until its head is found, a Ray launch has touched no worker.            *)
HeadOnly(l) ==
    /\ pc[l] = "cleanHead" => l \in Ray
    /\ l \in Ray /\ pc[l] \in {"idle", "port", "run", "wait", "cleanHead"} =>
          /\ todo[l] \cup lateRun[l] \subseteq {0}
          /\ \A r \in Worker : box[l][r] \in {"none", "old"}

Cleaned(l) ==
    cleaned[l] => pc[l] = "failed" /\ \A r \in Rank : box[l][r] \notin {"up", "serving", "lost"}

(* A docker run that may still arrive belongs to a launch that will fail.  *)
LateFails(l) ==
    /\ bad[l] \/ lateRun[l] # {} => pc[l] \in {"run", "workers", "failed"} \cup Cleaning
    /\ lateRun[l] # {} /\ pc[l] \in {"run", "workers"} => bad[l]

(* The ranks whose start a launch has waited for have been started.        *)
Started(l) == fallen[l] \cup {r \in Rank : box[l][r] \in Live}

Due(l) ==
    IF pc[l] \in {"idle", "port", "failed"} \cup Cleaning THEN {}
    ELSE IF l \in Ray /\ pc[l] \in {"run", "wait"} THEN {0} ELSE Rank

DueStarted(l) ==
    l \notin Refused /\ (Runs(l) => ~bad[l]) =>
        Due(l) \subseteq Started(l) \cup (IF Runs(l) THEN todo[l] ELSE {})

(* Who listens claims the port, and two who claim one have raced for it.   *)
PortInv ==
    /\ \A p \in Port : \A l \in Launch :
          listener[p] = l => port[l] = p /\ Binding(l, box[l][0])
    /\ \A k, l \in Launch :
          k # l /\ port[k] = port[l] /\ Claims(k) /\ Claims(l) => raced[l]
    /\ \A l \in Launch : Claims(l) /\ ~raced[l] => listener[port[l]] \in {Free, l}

Sound(l) == Ported(l) /\ HeadOnly(l) /\ Cleaned(l) /\ LateFails(l) /\ DueStarted(l)

LaunchInv == PortInv /\ \A l \in Launch : Sound(l)

-----------------------------------------------------------------------------
(* Every launch comes to an end. *)
Terminates == \A l \in Launch : <>(pc[l] \in Ended)
=============================================================================
