---------------------------- MODULE StateDirLock ----------------------------
(***************************************************************************)
(* The run.lock protocol of a benchmark state directory                    *)
(* (benchmarking/run_state.py, hold_state_dir).  A run is one process that *)
(* wants the directory; several runs, on one or several hosts that share   *)
(* the cache directory, may want it at the same time.  Every file system   *)
(* call is a step of its own: the create, the write of the payload, the    *)
(* read, the unlink.                                                       *)
(*                                                                         *)
(* A run creates at most one lock file per attempt, so a file (an inode)   *)
(* is named by the run that created it: lock = q says that run.lock is the *)
(* file created by q, written[q] that q's payload is in it.  A write to a  *)
(* file somebody else has unlinked changes no visible file.                *)
(***************************************************************************)
CONSTANTS
    Run,         \* the processes that call hold_state_dir
    Host,        \* machines sharing the cache directory
    HostOf,      \* the machine each run is on
    NoLock,      \* run.lock does not exist
    IoFaults,    \* runs whose writes to the cache may fail with OSError
    MayAge       \* a lock may get older than LOCK_MAX_AGE_SECONDS

ASSUME LockAssumption ==
    /\ HostOf \in [Run -> Host]
    /\ NoLock \notin Run
    /\ IoFaults \subseteq Run
    /\ MayAge \in BOOLEAN

VARIABLES
    lock,      \* the run whose file is run.lock, or NoLock
    written,   \* the payload of the run's file has been written
    aged,      \* the file's started_at is beyond LOCK_MAX_AGE_SECONDS
    recycled,  \* the pid of a dead run belongs to an unrelated process
    pc,        \* where each run is in hold_state_dir
    disturbed  \* history: an acquisition overlapped another one, the lock
               \* of a live run grew too old, or an OSError was swallowed

vars == <<lock, written, aged, recycled, pc, disturbed>>

Acquiring == {"create", "write", "read", "unlink", "recreate"}
Releasing == {"release", "remove"}
Outside == {"idle", "refused", "done"}

TypeOK ==
    /\ lock \in Run \cup {NoLock}
    /\ written \in [Run -> BOOLEAN]
    /\ aged \in [Run -> BOOLEAN]
    /\ recycled \in [Run -> BOOLEAN]
    /\ pc \in [Run -> Acquiring \cup Releasing \cup Outside \cup {"held", "dead"}]
    /\ disturbed \in BOOLEAN

Init ==
    /\ lock = NoLock
    /\ written = [r \in Run |-> FALSE]
    /\ aged = [r \in Run |-> FALSE]
    /\ recycled = [r \in Run |-> FALSE]
    /\ pc = [r \in Run |-> "idle"]
    /\ disturbed = FALSE

Goto(r, l) == pc' = [pc EXCEPT ![r] = l]

(***************************************************************************)
(* What a reader gets from the file: a missing, empty or truncated file is *)
(* the empty record, whose default pid -1 counts as dead.                  *)
(***************************************************************************)
Readable == lock # NoLock /\ written[lock]

is_pid_alive(q) == pc[q] # "dead" \/ recycled[q]

stale_on_other_host(r) ==   \* mutant: a lock of another host is not respected
    \/ ~Readable
    \/ aged[lock]
    \/ HostOf[lock] # HostOf[r]
    \/ ~is_pid_alive(lock)

stale_at_no_age(r) ==   \* mutant: only the pid check of the own host is left
    \/ ~Readable
    \/ HostOf[lock] = HostOf[r] /\ ~is_pid_alive(lock)

_lock_is_stale(r) ==
    \/ ~Readable
    \/ aged[lock]
    \/ HostOf[lock] = HostOf[r] /\ ~is_pid_alive(lock)

-----------------------------------------------------------------------------
(* A process enters hold_state_dir, and the first _acquire. *)
Start(r) ==
    /\ pc[r] \in Outside
    /\ Goto(r, "create")
    /\ disturbed' = (disturbed \/ \E q \in Run : pc[q] \in Acquiring)
    /\ UNCHANGED <<lock, written, aged, recycled>>

(* O_CREAT | O_EXCL, first and second attempt. *)
Create(r) ==
    /\ pc[r] \in {"create", "recreate"}
    /\ lock = NoLock
    /\ lock' = r
    /\ written' = [written EXCEPT ![r] = FALSE]
    /\ aged' = [aged EXCEPT ![r] = FALSE]
    /\ Goto(r, "write")
    /\ UNCHANGED <<recycled, disturbed>>

(* The create fails for another reason than an existing file: the run goes *)
(* on without a lock.                                                      *)
CreateError(r) ==
    /\ pc[r] \in {"create", "recreate"}
    /\ lock = NoLock
    /\ r \in IoFaults
    /\ Goto(r, "held")
    /\ disturbed' = TRUE
    /\ UNCHANGED <<lock, written, aged, recycled>>

(* FileExistsError: the first attempt reads the lock, the second gives up. *)
Exists(r) ==
    /\ pc[r] \in {"create", "recreate"}
    /\ lock # NoLock
    /\ Goto(r, IF pc[r] = "create" THEN "read" ELSE "refused")
    /\ UNCHANGED <<lock, written, aged, recycled, disturbed>>

(* The payload reaches the file, or the write fails and the run goes on. *)
WritePayload(r) ==
    /\ pc[r] = "write"
    /\ \/ written' = [written EXCEPT ![r] = TRUE] /\ UNCHANGED disturbed
       \/ r \in IoFaults /\ disturbed' = TRUE /\ UNCHANGED written
    /\ Goto(r, "held")
    /\ UNCHANGED <<lock, aged, recycled>>

ReadHeld(r) ==
    /\ pc[r] = "read"
    /\ Goto(r, IF _lock_is_stale(r) THEN "unlink" ELSE "refused")
    /\ UNCHANGED <<lock, written, aged, recycled, disturbed>>

(* The stale lock is unlinked: whatever file run.lock is by now. *)
Reclaim(r) ==
    /\ pc[r] = "unlink"
    /\ \/ lock' = NoLock /\ UNCHANGED disturbed
       \/ r \in IoFaults /\ disturbed' = TRUE /\ UNCHANGED lock
    /\ Goto(r, "recreate")
    /\ UNCHANGED <<written, aged, recycled>>

-----------------------------------------------------------------------------
FinishAbruptly(r) ==   \* mutant: an exception in the block skips the release
    /\ pc[r] = "held"
    /\ Goto(r, "done")
    /\ UNCHANGED <<lock, written, aged, recycled, disturbed>>

(* The block ends, normally or with an exception. *)
Finish(r) ==
    /\ pc[r] = "held"
    /\ Goto(r, "release")
    /\ UNCHANGED <<lock, written, aged, recycled, disturbed>>

(* Removes an unreadable lock or its own one. *)
ReadCurrent(r) ==
    /\ pc[r] = "release"
    /\ Goto(r, IF ~Readable \/ lock = r THEN "remove" ELSE "done")
    /\ UNCHANGED <<lock, written, aged, recycled, disturbed>>

Remove(r) ==
    /\ pc[r] = "remove"
    /\ \/ lock' = NoLock /\ UNCHANGED disturbed
       \/ r \in IoFaults /\ disturbed' = TRUE /\ UNCHANGED lock
    /\ Goto(r, "done")
    /\ UNCHANGED <<written, aged, recycled>>

-----------------------------------------------------------------------------
(* SIGKILL, power loss: the process is gone, its file stays. *)
Crash(r) ==
    /\ pc[r] \in Acquiring \cup Releasing \cup {"held"}
    /\ Goto(r, "dead")
    /\ UNCHANGED <<lock, written, aged, recycled, disturbed>>

Expire(q) ==
    /\ MayAge
    /\ lock = q
    /\ ~aged[q]
    /\ aged' = [aged EXCEPT ![q] = TRUE]
    /\ disturbed' = (disturbed \/ pc[q] # "dead")
    /\ UNCHANGED <<lock, written, recycled, pc>>

RecyclePid(q) ==
    /\ pc[q] = "dead"
    /\ ~recycled[q]
    /\ recycled' = [recycled EXCEPT ![q] = TRUE]
    /\ UNCHANGED <<lock, written, aged, pc, disturbed>>

Acquire(r) ==
    \/ Create(r) \/ CreateError(r) \/ Exists(r) \/ WritePayload(r)
    \/ ReadHeld(r) \/ Reclaim(r)

Release(r) == Finish(r) \/ ReadCurrent(r) \/ Remove(r)

Next ==
    \E r \in Run :
        Start(r) \/ Acquire(r) \/ Release(r) \/ Crash(r) \/ Expire(r) \/ RecyclePid(r)

Spec == Init /\ [][Next]_vars

(* The operating system schedules every process, locks grow older, and     *)
(* somebody who wants the directory asks again after a refusal.            *)
FairSpec ==
    /\ Spec
    /\ \A r \in Run :
        WF_vars(Start(r)) /\ WF_vars(Acquire(r)) /\ WF_vars(Release(r)) /\ WF_vars(Expire(r))

-----------------------------------------------------------------------------
(* hold_state_dir's docstring, "Take exclusive ownership of a benchmark     *)
(* state directory for the block": no two live runs are inside the block.  *)
Exclusive ==
    \A r, q \in Run : pc[r] = "held" /\ pc[q] = "held" => r = q

(* Where exclusion does hold: until two acquisitions overlap, a live run's *)
(* lock outgrows LOCK_MAX_AGE_SECONDS or an OSError is swallowed, crashes, *)
(* half-written locks of dead runs and recycled pids included.             *)
ExclusiveUndisturbed == ~disturbed => Exclusive

(* The inductive strengthening of ExclusiveUndisturbed: at most one run is *)
(* acquiring; a run inside the block or releasing owns a complete, recent  *)
(* lock file; a run about to unlink faces the file of a dead run, and one  *)
(* about to create again faces no file at all.                             *)
OwnershipInv ==
    ~disturbed =>
        /\ \A r, q \in Run : pc[r] \in Acquiring /\ pc[q] \in Acquiring => r = q
        /\ \A r \in Run :
            /\ pc[r] \in {"held"} \cup Releasing => lock = r /\ written[r] /\ ~aged[r]
            /\ pc[r] = "write" => lock = r /\ ~aged[r]
            /\ pc[r] = "unlink" => lock = NoLock \/ pc[lock] = "dead"
            /\ pc[r] = "recreate" => lock = NoLock
        /\ lock # NoLock => pc[lock] \in {"write", "held", "dead"} \cup Releasing

(* A run that was refused or has released leaves no run.lock behind: the   *)
(* file always belongs to a run inside hold_state_dir or to a dead one,    *)
(* unless its unlink failed.                                               *)
LockHasOwner ==
    lock # NoLock =>
        \/ lock \in IoFaults
        \/ pc[lock] \in {"write", "held", "dead"} \cup Releasing

(* The lock seen from outside: who is inside the block, for as long as the *)
(* circumstances hold in which the protocol excludes.                      *)
inside == IF disturbed THEN {} ELSE {r \in Run : pc[r] = "held"}

M == INSTANCE Mutex WITH Process <- Run, holders <- inside

(* Undisturbed, the files, pids and ages of run.lock implement a mutex:    *)
(* one run at a time enters, only when nobody is inside, and a run that    *)
(* ends or is killed in the block makes room for the next.                 *)
ImplementsMutex == M!Spec

(* A lock whose owner is dead is reclaimed in the end, on the owner's host *)
(* or not and whatever became of its pid, while some run that can write to *)
(* the cache still asks for it.                                            *)
DeadOwnersLockGoes ==
    \A q \in Run :
        (lock = q /\ pc[q] = "dead") ~>
            (lock # q \/ \A r \in Run \ IoFaults : pc[r] = "dead")
=============================================================================
