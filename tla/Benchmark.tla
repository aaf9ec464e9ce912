------------------------------ MODULE Benchmark ------------------------------
(***************************************************************************)
(* Scheduled benchmarks over one state directory: run_schedule             *)
(* (benchmarking/scheduler.py) over BenchmarkRunState                      *)
(* (benchmarking/run_state.py), composed with the run.lock of              *)
(* hold_state_dir (StateDirLock).  Each run that is inside the lock's block *)
(* makes one session: it loads or discards the state of earlier ones, runs *)
(* the pending tasks as subprocesses, analyses gaps once and closes; it    *)
(* may be interrupted, hit an exception or be killed anywhere.  Nothing    *)
(* but the lock keeps two sessions off the same files.                     *)
(***************************************************************************)
EXTENDS StateDirLock, Integers

CONSTANTS
    N,            \* tasks of the schedule
    NoState,      \* there is no state.yaml
    MaxSessions   \* bound on the sessions of one benchmark

ASSUME BenchAssumption ==
    /\ N \in Nat \ {0}
    /\ MaxSessions \in Nat

Task == 0 .. N - 1

VARIABLES
    phase,     \* where each run's session is: "none" before and "over" after it
    mem,       \* the session's BenchmarkRunState
    cur,       \* the task that runs
    gapped,    \* the gap pass was made
    failfast,  \* exit_on_first_fail
    ran,       \* history: tasks run in this session
    disk,      \* state.yaml, or NoState
    results,   \* tasks with a result file, of this or of a discarded state
    begun      \* sessions so far, bounded by MaxSessions

session == <<phase, mem, cur, gapped, failfast, ran>>

benchVars == <<vars, session, disk, results, begun>>

Status == {"running", "completed", "partial", "interrupted", "crashed"}

State == [completed : SUBSET Task, failed : SUBSET Task, status : Status]

Fresh == [completed |-> {}, failed |-> {}, status |-> "running"]

InTask == {"running", "succeeded", "failed"}
Scheduling == {"pick", "gaps"} \cup InTask

SessionTypeOK ==
    /\ phase \in [Run -> Scheduling \cup {"none", "discard", "over"}]
    /\ mem \in [Run -> State]
    /\ cur \in [Run -> Task]
    /\ gapped \in [Run -> BOOLEAN]
    /\ failfast \in [Run -> BOOLEAN]
    /\ ran \in [Run -> SUBSET Task]

BenchTypeOK ==
    /\ TypeOK
    /\ SessionTypeOK
    /\ disk \in State \cup {NoState}
    /\ results \subseteq Task
    /\ begun \in 0 .. MaxSessions

BenchInit ==
    /\ Init
    /\ phase = [r \in Run |-> "none"]
    /\ mem = [r \in Run |-> Fresh]
    /\ cur = [r \in Run |-> 0]
    /\ gapped = [r \in Run |-> FALSE]
    /\ failfast = [r \in Run |-> FALSE]
    /\ ran = [r \in Run |-> {}]
    /\ disk = NoState
    /\ results = {}
    /\ begun = 0

-----------------------------------------------------------------------------
next_pending_past(completed) == (0 .. N) \ completed   \* mutant: range off by one
next_pending(completed) == Task \ completed
is_complete(completed) == Task \subseteq completed

mark_completed_kept(state, t) ==   \* mutant: overwrites the list of completed tasks
    [state EXCEPT !.completed = {t}, !.failed = @ \ {t}]
mark_completed(state, t) ==
    [state EXCEPT !.completed = @ \cup {t}, !.failed = @ \ {t}]
mark_failed(state, t) == [state EXCEPT !.failed = @ \cup {t}]

Enter(r, p) == phase' = [phase EXCEPT ![r] = p]

Save(r, state) == mem' = [mem EXCEPT ![r] = state] /\ disk' = state

(* run_schedule is left: what the session had in memory is gone. *)
Leave(r, p) ==
    /\ Enter(r, p)
    /\ mem' = [mem EXCEPT ![r] = Fresh]
    /\ cur' = [cur EXCEPT ![r] = 0]
    /\ gapped' = [gapped EXCEPT ![r] = FALSE]
    /\ failfast' = [failfast EXCEPT ![r] = FALSE]
    /\ ran' = [ran EXCEPT ![r] = {}]

(* mark_session_ended, save, and the end of run_schedule. *)
EndSession(r, state, status) ==
    /\ disk' = [state EXCEPT !.status = status]
    /\ Leave(r, "over")

(* Tasks no result file covers. *)
gap_analysis == Task \ results

-----------------------------------------------------------------------------
(* A fresh start over existing state: clear_state_dir removes the entries  *)
(* of the directory in no particular order and passes over one it cannot   *)
(* remove.                                                                 *)
Discard(r) ==
    /\ pc[r] = "held"
    /\ phase[r] = "none"
    /\ disk # NoState
    /\ begun < MaxSessions
    /\ Enter(r, "discard")
    /\ UNCHANGED <<mem, cur, gapped, failfast, ran, disk, results, begun>>

RemoveState(r) ==
    /\ phase[r] = "discard"
    /\ disk' = NoState
    /\ UNCHANGED <<session, results, begun>>

RemoveRuns(r) ==
    /\ phase[r] = "discard"
    /\ results' = {}
    /\ UNCHANGED <<session, disk, begun>>

(* The session's state: what is there, unless it was discarded. *)
Begin(r, ff) ==
    /\ pc[r] = "held"
    /\ begun < MaxSessions
    /\ \/ /\ phase[r] = "none"
          /\ Save(r, [(IF disk = NoState THEN Fresh ELSE disk) EXCEPT !.status = "running"])
       \/ phase[r] = "discard" /\ Save(r, Fresh)
    /\ Enter(r, "pick")
    /\ failfast' = [failfast EXCEPT ![r] = ff]
    /\ gapped' = [gapped EXCEPT ![r] = FALSE]
    /\ ran' = [ran EXCEPT ![r] = {}]
    /\ begun' = begun + 1
    /\ UNCHANGED <<cur, results>>

(* The smallest pending task is started; without one, the loop ends. *)
Pick(r) ==
    LET pending == next_pending(mem[r].completed) IN
    /\ phase[r] = "pick"
    /\ \/ /\ \E t \in pending :
               /\ \A u \in pending : t <= u
               /\ cur' = [cur EXCEPT ![r] = t]
               /\ ran' = [ran EXCEPT ![r] = @ \cup {t}]
          /\ Enter(r, "running")
       \/ /\ pending = {}
          /\ Enter(r, "gaps")
          /\ UNCHANGED <<cur, ran>>
    /\ UNCHANGED <<mem, gapped, failfast, disk, results, begun>>

(* The subprocess exits or is killed at its timeout.  It wrote its results, *)
(* broke off in the middle of the file (unreadable: skipped), or wrote none. *)
ProcessEnds(r) ==
    /\ phase[r] = "running"
    /\ results' \in {results, results \cup {cur[r]}, results \ {cur[r]}}
    /\ \E p \in {"succeeded", "failed"} : Enter(r, p)
    /\ UNCHANGED <<mem, cur, gapped, failfast, ran, disk, begun>>

(* The state with the outcome of the task that ended. *)
Outcome(r) ==
    CASE phase[r] = "succeeded" -> mark_completed(mem[r], cur[r])
      [] phase[r] = "failed" -> mark_failed(mem[r], cur[r])
      [] OTHER -> mem[r]

RecordSuccess(r) ==
    /\ phase[r] = "succeeded"
    /\ Save(r, Outcome(r))
    /\ Enter(r, "pick")
    /\ UNCHANGED <<cur, gapped, failfast, ran, results, begun>>

RecordFailure(r) ==
    /\ phase[r] = "failed"
    /\ \/ failfast[r] /\ EndSession(r, Outcome(r), "partial")
       \/ /\ ~failfast[r]
          /\ Save(r, Outcome(r))
          /\ Enter(r, "pick")
          /\ UNCHANGED <<cur, gapped, failfast, ran>>
    /\ UNCHANGED <<results, begun>>

GapPassEver(r) ==   \* mutant: the gap pass is not limited to one
    /\ phase[r] = "gaps"
    /\ gap_analysis # {}
    /\ Save(r, [mem[r] EXCEPT !.completed = @ \ gap_analysis])
    /\ Enter(r, "pick")
    /\ UNCHANGED <<cur, gapped, failfast, ran, results, begun>>

(* At most once per session the tasks without results are queued again. *)
GapPass(r) ==
    /\ phase[r] = "gaps"
    /\ ~gapped[r]
    /\ gap_analysis # {}
    /\ gapped' = [gapped EXCEPT ![r] = TRUE]
    /\ Save(r, [mem[r] EXCEPT !.completed = @ \ gap_analysis])
    /\ Enter(r, "pick")
    /\ UNCHANGED <<cur, failfast, ran, results, begun>>

CloseWithGaps(r) ==   \* mutant: gaps are not looked at
    /\ phase[r] = "gaps"
    /\ EndSession(r, mem[r], IF is_complete(mem[r].completed) THEN "completed" ELSE "partial")
    /\ UNCHANGED <<results, begun>>

Close(r) ==
    /\ phase[r] = "gaps"
    /\ gapped[r] \/ gap_analysis = {}
    /\ EndSession(r, mem[r], IF is_complete(mem[r].completed) THEN "completed" ELSE "partial")
    /\ UNCHANGED <<results, begun>>

-----------------------------------------------------------------------------
(* Ctrl-C while a task runs, or before or after its outcome is marked. *)
Interrupt(r) ==
    /\ phase[r] \in InTask
    /\ \E state \in {mem[r], Outcome(r)} : EndSession(r, state, "interrupted")
    /\ UNCHANGED <<results, begun>>

(* Any other exception inside run_schedule. *)
Unexpected(r) ==
    /\ phase[r] \in Scheduling
    /\ \E state \in {mem[r], Outcome(r)} : EndSession(r, state, "crashed")
    /\ UNCHANGED <<results, begun>>

(* Ctrl-C outside a task, an exception while the state is discarded: the   *)
(* session ends with nothing recorded, the lock is still to be released.   *)
Abandon(r) ==
    /\ phase[r] \in Scheduling \cup {"discard"}
    /\ Leave(r, "over")
    /\ UNCHANGED <<disk, results, begun>>

SessionStep(r) ==
    \/ Pick(r) \/ ProcessEnds(r) \/ RecordSuccess(r) \/ RecordFailure(r)
    \/ GapPass(r) \/ Close(r)

SessionNext(r) ==
    /\ \/ Discard(r) \/ RemoveState(r) \/ RemoveRuns(r)
       \/ \E ff \in BOOLEAN : Begin(r, ff)
       \/ SessionStep(r) \/ Interrupt(r) \/ Unexpected(r) \/ Abandon(r)
    /\ UNCHANGED vars

(* Entering and leaving hold_state_dir; locks age and pids are reused.     *)
LockNext(r) ==
    /\ \/ Start(r) \/ Acquire(r) \/ ReadCurrent(r) \/ Remove(r) \/ Expire(r) \/ RecyclePid(r)
    /\ UNCHANGED <<session, disk, results, begun>>

(* The block ends: with its session, or before it began one. *)
EndBlock(r) ==
    /\ phase[r] \in {"none", "over"}
    /\ Finish(r)
    /\ Enter(r, "none")
    /\ UNCHANGED <<mem, cur, gapped, failfast, ran, disk, results, begun>>

(* SIGKILL, power loss: the session is lost with its process. *)
Kill(r) ==
    /\ Crash(r)
    /\ Leave(r, "none")
    /\ UNCHANGED <<disk, results, begun>>

BenchNext == \E r \in Run : SessionNext(r) \/ LockNext(r) \/ EndBlock(r) \/ Kill(r)

BenchSpec == BenchInit /\ [][BenchNext]_benchVars

(* The program runs on, and a subprocess ends, by itself or at its timeout. *)
BenchFairSpec ==
    /\ BenchSpec
    /\ \A r \in Run : WF_benchVars(SessionStep(r) /\ UNCHANGED vars)

-----------------------------------------------------------------------------
InSession(r) == phase[r] \in Scheduling

(* No lost update: while the lock's protocol is undisturbed, state.yaml is *)
(* what the session has in memory, so a save never overwrites what another *)
(* run recorded, on whatever host and wherever that run was killed.        *)
NoLostUpdate ==
    ~disturbed => \A r \in Run : InSession(r) => disk = mem[r]

(* The whole point of the state file: through interrupts, exceptions and   *)
(* crashes, in whichever run, a task recorded as completed stays recorded, *)
(* unless it left no result or the state is discarded.                     *)
RecordedWorkKept ==
    [][~disturbed /\ disk # NoState /\ (\A r \in Run : phase[r] # "discard") =>
           disk.completed \cap results \subseteq disk'.completed]_benchVars

(* A session that reports completion has itself run every task it has no   *)
(* results for.                                                            *)
Publishes(r) == phase[r] = "gaps" /\ phase'[r] = "over" /\ disk'.status = "completed"

GapsWereRetried ==
    [][~disturbed =>
           \A r \in Run : Publishes(r) => gap_analysis \subseteq ran[r]]_benchVars

(* A fail-fast session ends, whatever its tasks and the other runs do,     *)
(* unless the lock stops keeping other sessions off its files.             *)
FailFastEnds ==
    \A r \in Run : (InSession(r) /\ failfast[r]) ~> (~InSession(r) \/ disturbed)
=============================================================================
