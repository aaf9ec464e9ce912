--------------------------- MODULE BenchmarkProofs ---------------------------
(***************************************************************************)
(* Theorems about the run.lock of a state directory, for every set of runs *)
(* and hosts, and about the benchmarks it keeps apart, for every number of *)
(* tasks and of sessions.                                                  *)
(***************************************************************************)
EXTENDS Benchmark, TLAPS

(* Every variable keeps its type along every behaviour of the lock.        *)
THEOREM TypeCorrect == Spec => []TypeOK
<1>1. Init => TypeOK
  BY LockAssumption DEF Init, TypeOK, Outside
<1>2. TypeOK /\ [Next]_vars => TypeOK'
  <2> SUFFICES ASSUME TypeOK, [Next]_vars
               PROVE  TypeOK'
    OBVIOUS
  <2> USE LockAssumption DEF TypeOK, Acquiring, Releasing, Outside, Goto
  <2>1. CASE UNCHANGED vars
    BY <2>1 DEF vars
  <2>2. ASSUME NEW r \in Run, Start(r) \/ Acquire(r)
        PROVE  TypeOK'
    <3>1. CASE Start(r)
      BY <3>1 DEF Start
    <3>2. CASE Create(r)
      BY <3>2 DEF Create
    <3>3. CASE CreateError(r)
      BY <3>3 DEF CreateError
    <3>4. CASE Exists(r)
      BY <3>4 DEF Exists
    <3>5. CASE WritePayload(r)
      BY <3>5 DEF WritePayload
    <3>6. CASE ReadHeld(r)
      BY <3>6 DEF ReadHeld
    <3>7. CASE Reclaim(r)
      BY <3>7 DEF Reclaim
    <3> QED
      BY <2>2, <3>1, <3>2, <3>3, <3>4, <3>5, <3>6, <3>7 DEF Acquire
  <2>3. ASSUME NEW r \in Run, Release(r) \/ Crash(r) \/ Expire(r) \/ RecyclePid(r)
        PROVE  TypeOK'
    <3>1. CASE Finish(r)
      BY <3>1 DEF Finish
    <3>2. CASE ReadCurrent(r)
      BY <3>2 DEF ReadCurrent
    <3>3. CASE Remove(r)
      BY <3>3 DEF Remove
    <3>4. CASE Crash(r)
      BY <3>4 DEF Crash
    <3>5. CASE Expire(r)
      BY <3>5 DEF Expire
    <3>6. CASE RecyclePid(r)
      BY <3>6 DEF RecyclePid
    <3> QED
      BY <2>3, <3>1, <3>2, <3>3, <3>4, <3>5, <3>6 DEF Release
  <2> QED
    BY <2>1, <2>2, <2>3 DEF Next
<1> QED
  BY <1>1, <1>2, PTL DEF Spec

(* A finished or refused run leaves no run.lock behind: the file belongs   *)
(* to a run inside hold_state_dir or to a dead one, unless its unlink      *)
(* failed.                                                                 *)
THEOREM LockHasOwnerHolds == Spec => []LockHasOwner
<1>1. Init => LockHasOwner
  BY LockAssumption DEF Init, LockHasOwner, Acquiring, Releasing, Outside
<1>2. TypeOK /\ LockHasOwner /\ [Next]_vars => LockHasOwner'
  <2> SUFFICES ASSUME TypeOK, LockHasOwner, [Next]_vars
               PROVE  LockHasOwner'
    OBVIOUS
  <2> USE LockAssumption DEF TypeOK, LockHasOwner, Acquiring, Releasing, Outside, Goto
  <2>1. CASE UNCHANGED vars
    BY <2>1 DEF vars
  <2>2. ASSUME NEW r \in Run, Start(r)
        PROVE  LockHasOwner'
    BY <2>2 DEF Start
  <2>3. ASSUME NEW r \in Run, Create(r)
        PROVE  LockHasOwner'
    BY <2>3 DEF Create
  <2>4. ASSUME NEW r \in Run, CreateError(r)
        PROVE  LockHasOwner'
    BY <2>4 DEF CreateError
  <2>5. ASSUME NEW r \in Run, Exists(r)
        PROVE  LockHasOwner'
    BY <2>5 DEF Exists
  <2>6. ASSUME NEW r \in Run, WritePayload(r)
        PROVE  LockHasOwner'
    BY <2>6 DEF WritePayload
  <2>7. ASSUME NEW r \in Run, ReadHeld(r)
        PROVE  LockHasOwner'
    BY <2>7 DEF ReadHeld, _lock_is_stale, Readable, is_pid_alive
  <2>8. ASSUME NEW r \in Run, Reclaim(r)
        PROVE  LockHasOwner'
    BY <2>8 DEF Reclaim
  <2>9. ASSUME NEW r \in Run, Finish(r)
        PROVE  LockHasOwner'
    BY <2>9 DEF Finish
  <2>10. ASSUME NEW r \in Run, ReadCurrent(r)
        PROVE  LockHasOwner'
    BY <2>10 DEF ReadCurrent, Readable
  <2>11. ASSUME NEW r \in Run, Remove(r)
        PROVE  LockHasOwner'
    BY <2>11 DEF Remove
  <2>12. ASSUME NEW r \in Run, Crash(r)
        PROVE  LockHasOwner'
    BY <2>12 DEF Crash
  <2>13. ASSUME NEW r \in Run, Expire(r)
        PROVE  LockHasOwner'
    BY <2>13 DEF Expire
  <2>14. ASSUME NEW r \in Run, RecyclePid(r)
        PROVE  LockHasOwner'
    BY <2>14 DEF RecyclePid
  <2> QED
    BY <2>1, <2>2, <2>3, <2>4, <2>5, <2>6, <2>7, <2>8,
       <2>9, <2>10, <2>11, <2>12, <2>13, <2>14
    DEF Next, Acquire, Release
<1> QED
  BY <1>1, <1>2, TypeCorrect, PTL DEF Spec

(* The strengthened invariant of the undisturbed protocol.                 *)
THEOREM OwnershipHolds == Spec => []OwnershipInv
<1>1. Init => OwnershipInv
  BY LockAssumption DEF Init, OwnershipInv, Acquiring, Releasing, Outside
<1>2. TypeOK /\ OwnershipInv /\ [Next]_vars => OwnershipInv'
  <2> SUFFICES ASSUME TypeOK, OwnershipInv, [Next]_vars
               PROVE  OwnershipInv'
    OBVIOUS
  <2> USE LockAssumption DEF TypeOK, OwnershipInv, Acquiring, Releasing, Outside, Goto
  <2>1. CASE UNCHANGED vars
    BY <2>1 DEF vars
  <2>2. ASSUME NEW r \in Run, Start(r)
        PROVE  OwnershipInv'
    BY <2>2 DEF Start
  <2>3. ASSUME NEW r \in Run, Create(r)
        PROVE  OwnershipInv'
    BY <2>3 DEF Create
  <2>4. ASSUME NEW r \in Run, CreateError(r)
        PROVE  OwnershipInv'
    BY <2>4 DEF CreateError
  <2>5. ASSUME NEW r \in Run, Exists(r)
        PROVE  OwnershipInv'
    BY <2>5 DEF Exists
  <2>6. ASSUME NEW r \in Run, WritePayload(r)
        PROVE  OwnershipInv'
    BY <2>6 DEF WritePayload
  <2>7. ASSUME NEW r \in Run, ReadHeld(r)
        PROVE  OwnershipInv'
    BY <2>7 DEF ReadHeld, _lock_is_stale, Readable, is_pid_alive
  <2>8. ASSUME NEW r \in Run, Reclaim(r)
        PROVE  OwnershipInv'
    BY <2>8 DEF Reclaim
  <2>9. ASSUME NEW r \in Run, Finish(r)
        PROVE  OwnershipInv'
    BY <2>9 DEF Finish
  <2>10. ASSUME NEW r \in Run, ReadCurrent(r)
        PROVE  OwnershipInv'
    BY <2>10 DEF ReadCurrent, Readable
  <2>11. ASSUME NEW r \in Run, Remove(r)
        PROVE  OwnershipInv'
    BY <2>11 DEF Remove
  <2>12. ASSUME NEW r \in Run, Crash(r)
        PROVE  OwnershipInv'
    BY <2>12 DEF Crash
  <2>13. ASSUME NEW r \in Run, Expire(r)
        PROVE  OwnershipInv'
    BY <2>13 DEF Expire
  <2>14. ASSUME NEW r \in Run, RecyclePid(r)
        PROVE  OwnershipInv'
    BY <2>14 DEF RecyclePid
  <2> QED
    BY <2>1, <2>2, <2>3, <2>4, <2>5, <2>6, <2>7, <2>8,
       <2>9, <2>10, <2>11, <2>12, <2>13, <2>14
    DEF Next, Acquire, Release
<1> QED
  BY <1>1, <1>2, TypeCorrect, PTL DEF Spec

(* hold_state_dir excludes other runs as long as no two acquisitions       *)
(* overlap, no live run outlives the lock's age and no OSError is          *)
(* swallowed, through any number of crashes.                               *)
THEOREM ExclusionHolds == Spec => []ExclusiveUndisturbed
<1>1. OwnershipInv => ExclusiveUndisturbed
  BY DEF OwnershipInv, ExclusiveUndisturbed, Exclusive
<1> QED
  BY <1>1, OwnershipHolds, PTL

(* Until it is disturbed, hold_state_dir implements a mutex: the block is  *)
(* entered only while no live run is inside, and one run at a time.        *)
THEOREM RefinesMutex == Spec => ImplementsMutex
<1>1. Init => M!Init
  BY DEF Init, M!Init, inside
<1>2. TypeOK /\ OwnershipInv /\ OwnershipInv' /\ [Next]_vars => [M!Next]_inside
  <2> SUFFICES ASSUME TypeOK, OwnershipInv, OwnershipInv', [Next]_vars
               PROVE  M!Next \/ UNCHANGED inside
    OBVIOUS
  <2> USE LockAssumption DEF TypeOK, inside, Goto
  <2>1. CASE UNCHANGED vars
    BY <2>1 DEF vars
  <2>2. ASSUME NEW r \in Run, NEW q \in Run, ~disturbed, pc[r] = "held", pc[q] = "held"
        PROVE  r = q
    BY <2>2 DEF OwnershipInv
  <2>3. ASSUME inside' = {}
        PROVE  M!Next \/ UNCHANGED inside
    <3>1. CASE inside = {}
      BY <2>3, <3>1
    <3>2. CASE inside # {}
      <4>1. PICK r \in inside : TRUE
        BY <3>2
      <4>2. r \in Run /\ inside = {r}
        BY <4>1, <2>2
      <4> QED
        BY <4>2, <2>3 DEF M!Next, M!Leave
    <3> QED
      BY <3>1, <3>2
  <2>4. ASSUME NEW r \in Run, NEW l, pc' = [pc EXCEPT ![r] = l], pc[r] # "held", l # "held",
               disturbed' = disturbed
        PROVE  UNCHANGED inside
    BY <2>4
  <2>5. ASSUME NEW r \in Run, pc[r] = "held", NEW l, l # "held",
               pc' = [pc EXCEPT ![r] = l]
        PROVE  M!Next \/ UNCHANGED inside
    <3>1. CASE disturbed'
      BY <3>1, <2>3
    <3>2. CASE ~disturbed' /\ ~disturbed
      <4>1. inside' = {}
        BY <3>2, <2>2, <2>5
      <4> QED
        BY <4>1, <2>3
    <3>3. CASE ~disturbed' /\ disturbed
      BY <3>3, <2>1 DEF Next, Start, Acquire, Create, CreateError, Exists, WritePayload,
         ReadHeld, Reclaim, Release, Finish, ReadCurrent, Remove, Crash, Expire, RecyclePid
    <3> QED
      BY <3>1, <3>2, <3>3
  <2>6. ASSUME NEW r \in Run, Start(r)
        PROVE  M!Next \/ UNCHANGED inside
    <3>1. CASE disturbed' = disturbed
      BY <2>6, <2>4, <3>1 DEF Start, Outside
    <3>2. CASE disturbed'
      BY <3>2, <2>3
    <3> QED
      BY <2>6, <3>1, <3>2 DEF Start
  <2>7. ASSUME NEW r \in Run, Create(r)
        PROVE  M!Next \/ UNCHANGED inside
    BY <2>7, <2>4 DEF Create
  <2>8. ASSUME NEW r \in Run, CreateError(r)
        PROVE  M!Next \/ UNCHANGED inside
    BY <2>8, <2>3 DEF CreateError
  <2>9. ASSUME NEW r \in Run, Exists(r)
        PROVE  M!Next \/ UNCHANGED inside
    BY <2>9, <2>4 DEF Exists
  <2>10. ASSUME NEW r \in Run, WritePayload(r)
         PROVE  M!Next \/ UNCHANGED inside
    <3>1. CASE disturbed'
      BY <3>1, <2>3
    <3>2. CASE ~disturbed'
      <4>1. ~disturbed /\ pc[r] = "write" /\ lock = r
        BY <2>10, <3>2 DEF WritePayload, OwnershipInv
      <4>2. inside = {}
        BY <4>1 DEF OwnershipInv
      <4>3. inside' = {r}
        BY <2>10, <3>2, <4>1, <4>2 DEF WritePayload
      <4> QED
        BY <4>2, <4>3 DEF M!Next, M!Enter
    <3> QED
      BY <3>1, <3>2
  <2>11. ASSUME NEW r \in Run, ReadHeld(r)
         PROVE  M!Next \/ UNCHANGED inside
    BY <2>11, <2>4 DEF ReadHeld
  <2>12. ASSUME NEW r \in Run, Reclaim(r)
         PROVE  M!Next \/ UNCHANGED inside
    BY <2>12, <2>3, <2>4 DEF Reclaim
  <2>13. ASSUME NEW r \in Run, Finish(r)
         PROVE  M!Next \/ UNCHANGED inside
    BY <2>13, <2>5 DEF Finish
  <2>14. ASSUME NEW r \in Run, ReadCurrent(r)
         PROVE  M!Next \/ UNCHANGED inside
    BY <2>14, <2>4 DEF ReadCurrent
  <2>15. ASSUME NEW r \in Run, Remove(r)
         PROVE  M!Next \/ UNCHANGED inside
    BY <2>15, <2>3, <2>4 DEF Remove
  <2>16. ASSUME NEW r \in Run, Crash(r)
         PROVE  M!Next \/ UNCHANGED inside
    BY <2>16, <2>4, <2>5 DEF Crash
  <2>17. ASSUME NEW r \in Run, Expire(r)
         PROVE  M!Next \/ UNCHANGED inside
    BY <2>17, <2>3 DEF Expire
  <2>18. ASSUME NEW r \in Run, RecyclePid(r)
         PROVE  M!Next \/ UNCHANGED inside
    BY <2>18 DEF RecyclePid
  <2> QED
    BY <2>1, <2>6, <2>7, <2>8, <2>9, <2>10, <2>11, <2>12, <2>13,
       <2>14, <2>15, <2>16, <2>17, <2>18
    DEF Next, Acquire, Release
<1> QED
  BY <1>1, <1>2, TypeCorrect, OwnershipHolds, PTL DEF Spec, ImplementsMutex, M!Spec

-----------------------------------------------------------------------------
(* A benchmark uses the lock as hold_state_dir does: what is proved of the *)
(* lock holds of every benchmark.                                          *)
THEOREM BenchmarkLocks == BenchSpec => Spec
<1>1. BenchInit => Init
  BY DEF BenchInit
<1>2. [BenchNext]_benchVars => [Next]_vars
  <2> SUFFICES ASSUME [BenchNext]_benchVars
               PROVE  [Next]_vars
    OBVIOUS
  <2>1. CASE UNCHANGED benchVars
    BY <2>1 DEF benchVars
  <2>2. ASSUME NEW r \in Run, SessionNext(r)
        PROVE  [Next]_vars
    BY <2>2 DEF SessionNext
  <2>3. ASSUME NEW r \in Run, LockNext(r)
        PROVE  [Next]_vars
    BY <2>3 DEF LockNext, Next, Release
  <2>4. ASSUME NEW r \in Run, EndBlock(r) \/ Kill(r)
        PROVE  [Next]_vars
    BY <2>4 DEF EndBlock, Kill, Next, Release
  <2> QED
    BY <2>1, <2>2, <2>3, <2>4 DEF BenchNext
<1> QED
  BY <1>1, <1>2, PTL DEF BenchSpec, Spec

(* What marking does to a state. *)
LEMMA Marking ==
  ASSUME NEW state \in State, NEW t \in Task
  PROVE  /\ mark_completed(state, t) \in State
         /\ mark_completed(state, t).status = state.status
         /\ mark_failed(state, t).status = state.status
         /\ mark_completed(state, t).completed = state.completed \cup {t}
         /\ mark_failed(state, t) \in State
         /\ mark_failed(state, t).completed = state.completed
BY DEF State, mark_completed, mark_failed

(* The outcome of a task adds it to the completed ones, or nothing. *)
LEMMA OutcomeMarks ==
  ASSUME SessionTypeOK, NEW r \in Run
  PROVE  /\ Outcome(r) \in State /\ Outcome(r).status = mem[r].status
         /\ mem[r].completed \subseteq Outcome(r).completed
         /\ Outcome(r).completed \subseteq mem[r].completed \cup {cur[r]}
         /\ phase[r] # "succeeded" => Outcome(r).completed = mem[r].completed
<1>1. mem[r] \in State /\ cur[r] \in Task
  BY DEF SessionTypeOK
<1>2. CASE phase[r] = "succeeded"
  BY <1>1, <1>2, Marking DEF Outcome
<1>3. CASE phase[r] = "failed"
  BY <1>1, <1>3, Marking DEF Outcome
<1>4. CASE phase[r] \notin {"succeeded", "failed"}
  BY <1>1, <1>4 DEF Outcome
<1> QED
  BY <1>2, <1>3, <1>4

(* The state a session begins with. *)
LEMMA Loaded ==
  ASSUME disk \in State \cup {NoState}
  PROVE  LET state == [(IF disk = NoState THEN Fresh ELSE disk) EXCEPT !.status = "running"] IN
         /\ state \in State /\ state.status = "running"
         /\ disk # NoState => state.completed = disk.completed
<1>1. (IF disk = NoState THEN Fresh ELSE disk) \in State
  BY DEF Fresh, State, Status
<1> QED
  BY <1>1 DEF State, Status

LEMMA FreshIsState == Fresh \in State /\ Fresh.status = "running" /\ 0 \in Task
BY BenchAssumption DEF Fresh, State, Status, Task

(* Leaving run_schedule keeps the types of what is local to the session. *)
LEMMA LeavingTyped ==
  ASSUME SessionTypeOK, NEW r \in Run, NEW p \in {"none", "over"}, Leave(r, p)
  PROVE  SessionTypeOK' /\ phase' = [phase EXCEPT ![r] = p]
BY FreshIsState DEF SessionTypeOK, Leave, Enter

(* Ending a session saves a state and leaves. *)
LEMMA Ending ==
  ASSUME SessionTypeOK, NEW r \in Run, NEW state \in State, NEW status \in Status,
         EndSession(r, state, status)
  PROVE  /\ disk' \in State /\ disk'.completed = state.completed /\ disk'.status = status
         /\ SessionTypeOK' /\ phase' = [phase EXCEPT ![r] = "over"]
<1>1. disk' \in State /\ disk'.completed = state.completed /\ disk'.status = status
  BY DEF EndSession, State
<1> QED
  BY <1>1, LeavingTyped DEF EndSession

(* A session that ends saved the state it had or that of its last outcome. *)
LEMMA SessionEnds ==
  ASSUME SessionTypeOK, NEW r \in Run,
         \/ Interrupt(r) \/ Unexpected(r) \/ Close(r)
         \/ RecordFailure(r) /\ failfast[r]
  PROVE  /\ disk' \in State /\ disk'.completed \in {mem[r].completed, Outcome(r).completed}
         /\ Unexpected(r) \/ Interrupt(r) \/ RecordFailure(r) => disk'.status # "completed"
         /\ Close(r) /\ disk'.status = "completed" => is_complete(mem[r].completed)
         /\ SessionTypeOK' /\ phase' = [phase EXCEPT ![r] = "over"]
         /\ phase[r] \in Scheduling
         /\ UNCHANGED <<results, begun>>
<1> DEFINE Ends(state, status) == EndSession(r, state, status)
<1>1. mem[r] \in State /\ Outcome(r) \in State
  BY OutcomeMarks DEF SessionTypeOK
<1>2. ASSUME NEW state \in {mem[r], Outcome(r)}, NEW status \in Status, Ends(state, status)
      PROVE  /\ disk' \in State /\ disk'.completed = state.completed /\ disk'.status = status
             /\ SessionTypeOK' /\ phase' = [phase EXCEPT ![r] = "over"]
  BY <1>1, <1>2, Ending
<1>3. CASE Interrupt(r)
  <2>1. PICK state \in {mem[r], Outcome(r)} : EndSession(r, state, "interrupted")
    BY <1>3 DEF Interrupt
  <2>2. ~Close(r)
    BY <1>3 DEF Interrupt, Close, InTask
  <2> QED
    BY <1>2, <1>3, <2>1, <2>2 DEF Interrupt, Status, Scheduling
<1>4. CASE Unexpected(r)
  <2>1. PICK state \in {mem[r], Outcome(r)} : EndSession(r, state, "crashed")
    BY <1>4 DEF Unexpected
  <2>2. disk'.status = "crashed" /\ disk' \in State
        /\ disk'.completed = state.completed /\ SessionTypeOK' /\ phase' = [phase EXCEPT ![r] = "over"]
    BY <1>2, <2>1 DEF Status
  <2> QED
    BY <1>4, <2>1, <2>2 DEF Unexpected, Scheduling
<1>5. CASE Close(r)
  <2> DEFINE status == IF is_complete(mem[r].completed) THEN "completed" ELSE "partial"
  <2>1. EndSession(r, mem[r], status) /\ status \in Status
    BY <1>5 DEF Close, Status
  <2>2. ~Interrupt(r) /\ ~RecordFailure(r) /\ phase[r] = "gaps"
    BY <1>5 DEF Interrupt, RecordFailure, Close, InTask
  <2>3. /\ disk' \in State /\ disk'.completed = mem[r].completed /\ disk'.status = status
        /\ SessionTypeOK' /\ phase' = [phase EXCEPT ![r] = "over"]
    BY <1>2, <2>1
  <2>4. Unexpected(r) => disk'.status = "crashed"
    <3> SUFFICES ASSUME Unexpected(r)
                 PROVE  disk'.status = "crashed"
      OBVIOUS
    <3>1. PICK state \in {mem[r], Outcome(r)} : EndSession(r, state, "crashed")
      BY DEF Unexpected
    <3> QED
      BY <1>2, <3>1 DEF Status
  <2> QED
    BY <1>5, <2>2, <2>3, <2>4 DEF Close, Scheduling
<1>6. CASE RecordFailure(r) /\ failfast[r]
  <2>1. EndSession(r, Outcome(r), "partial") /\ phase[r] = "failed"
    BY <1>6 DEF RecordFailure
  <2>2. ~Close(r)
    BY <2>1 DEF Close
  <2> QED
    BY <1>2, <1>6, <2>1, <2>2 DEF RecordFailure, Status, Scheduling, InTask
<1> QED
  BY <1>3, <1>4, <1>5, <1>6

(* The lock's variables, the sessions', the state file and the results     *)
(* keep their types.                                                       *)
THEOREM BenchTypeCorrect == BenchSpec => []BenchTypeOK
<1>1. BenchInit => BenchTypeOK
  <2>1. ASSUME BenchInit
        PROVE  SessionTypeOK /\ disk \in State \cup {NoState} /\ results \subseteq Task
               /\ begun \in 0 .. MaxSessions
    BY <2>1, FreshIsState, BenchAssumption DEF BenchInit, SessionTypeOK
  <2>2. Init => TypeOK
    BY LockAssumption DEF Init, TypeOK, Outside
  <2> QED
    BY <2>1, <2>2 DEF BenchInit, BenchTypeOK
<1>2. BenchTypeOK /\ TypeOK' /\ [BenchNext]_benchVars => BenchTypeOK'
  <2> DEFINE Typed == /\ SessionTypeOK' /\ disk' \in State \cup {NoState}
                      /\ results' \subseteq Task /\ begun' \in 0 .. MaxSessions
  <2> SUFFICES ASSUME BenchTypeOK, TypeOK', [BenchNext]_benchVars
               PROVE  Typed
    BY DEF BenchTypeOK
  <2> USE BenchAssumption DEF BenchTypeOK
  <2>1. CASE UNCHANGED benchVars
    BY <2>1 DEF benchVars, session, SessionTypeOK
  <2>2. ASSUME NEW r \in Run, Discard(r) \/ RemoveState(r) \/ RemoveRuns(r)
        PROVE  Typed
    BY <2>2 DEF Discard, RemoveState, RemoveRuns, Enter, session, SessionTypeOK
  <2>3. ASSUME NEW r \in Run, NEW ff \in BOOLEAN, Begin(r, ff)
        PROVE  Typed
    <3>1. PICK state \in State : Save(r, state)
      BY <2>3, Loaded, FreshIsState DEF Begin
    <3>2. begun' \in 0 .. MaxSessions
      BY <2>3 DEF Begin
    <3>3. SessionTypeOK'
      BY <2>3, <3>1 DEF Begin, Save, Enter, SessionTypeOK, Scheduling
    <3> QED
      BY <2>3, <3>1, <3>2, <3>3 DEF Begin, Save
  <2>4. ASSUME NEW r \in Run, Pick(r)
        PROVE  Typed
    <3>1. cur' \in [Run -> Task] /\ ran' \in [Run -> SUBSET Task]
      BY <2>4 DEF Pick, next_pending, SessionTypeOK
    <3>2. phase' \in [Run -> Scheduling \cup {"none", "discard", "over"}]
      BY <2>4 DEF Pick, Enter, SessionTypeOK, Scheduling, InTask
    <3> QED
      BY <2>4, <3>1, <3>2 DEF Pick, SessionTypeOK
  <2>5. ASSUME NEW r \in Run, ProcessEnds(r)
        PROVE  Typed
    BY <2>5 DEF ProcessEnds, Enter, SessionTypeOK, Scheduling, InTask
  <2>6. ASSUME NEW r \in Run, RecordSuccess(r) \/ (RecordFailure(r) /\ ~failfast[r])
        PROVE  Typed
    <3>1. Save(r, Outcome(r)) /\ Enter(r, "pick")
          /\ UNCHANGED <<cur, gapped, failfast, ran, results, begun>>
      BY <2>6 DEF RecordSuccess, RecordFailure
    <3> QED
      BY <3>1, OutcomeMarks DEF Save, Enter, SessionTypeOK, Scheduling
  <2>7. ASSUME NEW r \in Run, GapPass(r)
        PROVE  Typed
    <3>1. [mem[r] EXCEPT !.completed = @ \ gap_analysis] \in State
      BY DEF SessionTypeOK, State
    <3> QED
      BY <2>7, <3>1 DEF GapPass, Save, Enter, SessionTypeOK, Scheduling
  <2>8. ASSUME NEW r \in Run,
               \/ Interrupt(r) \/ Unexpected(r) \/ Close(r)
               \/ RecordFailure(r) /\ failfast[r]
        PROVE  Typed
    BY <2>8, SessionEnds
  <2>9. ASSUME NEW r \in Run, Abandon(r) \/ Kill(r)
        PROVE  Typed
    BY <2>9, LeavingTyped DEF Abandon, Kill
  <2>10. ASSUME NEW r \in Run, EndBlock(r) \/ LockNext(r)
         PROVE  Typed
    BY <2>10 DEF EndBlock, LockNext, Enter, session, SessionTypeOK
  <2> HIDE DEF Typed
  <2>11. ASSUME NEW r \in Run, SessionNext(r)
         PROVE  Typed
    <3>1. CASE SessionStep(r)
      BY <2>4, <2>5, <2>6, <2>7, <2>8, <3>1 DEF SessionStep
    <3>2. CASE \E ff \in BOOLEAN : Begin(r, ff)
      BY <2>3, <3>2
    <3> QED
      BY <2>2, <2>8, <2>9, <2>11, <3>1, <3>2 DEF SessionNext
  <2> QED
    BY <2>1, <2>9, <2>10, <2>11 DEF BenchNext
<1> QED
  BY <1>1, <1>2, TypeCorrect, BenchmarkLocks, PTL DEF BenchSpec

-----------------------------------------------------------------------------
(* A session runs only inside its run's block; the task it is on is among  *)
(* those it ran; and undisturbed, the state file is what the session has   *)
(* in memory, and once the gap pass was made, a completed task without     *)
(* results was run in this session.                                        *)
InBlock == \A r \in Run : phase[r] \notin {"none", "over"} => pc[r] = "held"

TaskWasRun == \A r \in Run : phase[r] \in InTask => cur[r] \in ran[r]

FileIsMemory ==
    \A r \in Run : InSession(r) => disk = mem[r] /\ mem[r].status = "running"

GapsRan ==
    \A r \in Run : InSession(r) /\ gapped[r] => mem[r].completed \cap gap_analysis \subseteq ran[r]

SessionInv ==
    /\ InBlock
    /\ TaskWasRun
    /\ ~disturbed => FileIsMemory /\ GapsRan

(* Undisturbed, at most one run has a session, or discards a state. *)
LEMMA OneSession ==
  ASSUME OwnershipInv, InBlock, ~disturbed,
         NEW r \in Run, phase[r] \notin {"none", "over"},
         NEW q \in Run, phase[q] \notin {"none", "over"}
  PROVE  r = q
<1>1. pc[r] = "held" /\ pc[q] = "held"
  BY DEF InBlock
<1> QED
  BY <1>1 DEF OwnershipInv

(* The steps of the lock leave a run inside the block until its block      *)
(* ends, and never undo a disturbance.                                     *)
LEMMA LockKeepsBlocks ==
  ASSUME TypeOK, NEW r \in Run, LockNext(r)
  PROVE  /\ \A q \in Run : pc[q] = "held" => pc'[q] = "held"
         /\ disturbed => disturbed'
<1> USE DEF TypeOK, Goto, Outside
<1>1. CASE Start(r)
  BY <1>1 DEF Start
<1>2. CASE Create(r)
  BY <1>2 DEF Create
<1>3. CASE CreateError(r)
  BY <1>3 DEF CreateError
<1>4. CASE Exists(r)
  BY <1>4 DEF Exists
<1>5. CASE WritePayload(r)
  BY <1>5 DEF WritePayload
<1>6. CASE ReadHeld(r)
  BY <1>6 DEF ReadHeld
<1>7. CASE Reclaim(r)
  BY <1>7 DEF Reclaim
<1>8. CASE ReadCurrent(r)
  BY <1>8 DEF ReadCurrent
<1>9. CASE Remove(r)
  BY <1>9 DEF Remove
<1>10. CASE Expire(r)
  BY <1>10 DEF Expire
<1>11. CASE RecyclePid(r)
  BY <1>11 DEF RecyclePid
<1> QED
  BY <1>1, <1>2, <1>3, <1>4, <1>5, <1>6, <1>7, <1>8, <1>9, <1>10, <1>11 DEF LockNext, Acquire

(* A session step moves one run only, which was inside its block and is    *)
(* in an active phase afterwards, or over.                                 *)
LEMMA SessionMoves ==
  ASSUME SessionTypeOK, NEW r \in Run, SessionNext(r)
  PROVE  /\ UNCHANGED <<pc, disturbed>>
         /\ pc[r] = "held" \/ phase[r] \notin {"none", "over"}
         /\ \E p \in Scheduling \cup {"discard", "over"} : phase' = [phase EXCEPT ![r] = p]
<1> USE DEF Enter, Scheduling, InTask
<1>0. UNCHANGED vars /\ phase = [phase EXCEPT ![r] = phase[r]]
  BY DEF SessionNext, SessionTypeOK
<1>1. CASE Discard(r) \/ RemoveState(r) \/ RemoveRuns(r)
  BY <1>0, <1>1 DEF Discard, RemoveState, RemoveRuns, session, vars
<1>2. CASE \E ff \in BOOLEAN : Begin(r, ff)
  BY <1>0, <1>2 DEF Begin, vars
<1>3. CASE Pick(r) \/ ProcessEnds(r) \/ GapPass(r)
  BY <1>0, <1>3 DEF Pick, ProcessEnds, GapPass, vars
<1>4. CASE RecordSuccess(r) \/ (RecordFailure(r) /\ ~failfast[r])
  BY <1>0, <1>4 DEF RecordSuccess, RecordFailure, vars
<1>5. CASE \/ Interrupt(r) \/ Unexpected(r) \/ Close(r)
           \/ RecordFailure(r) /\ failfast[r]
  BY <1>0, <1>5, SessionEnds DEF vars
<1>6. CASE Abandon(r)
  BY <1>0, <1>6 DEF Abandon, Leave, vars
<1> QED
  BY <1>1, <1>2, <1>3, <1>4, <1>5, <1>6 DEF SessionNext, SessionStep

(* Every step keeps sessions inside their blocks. *)
LEMMA InBlockKept ==
  ASSUME BenchTypeOK, InBlock, [BenchNext]_benchVars
  PROVE  InBlock' /\ (disturbed => disturbed')
<1> USE DEF BenchTypeOK, InBlock
<1>1. CASE UNCHANGED benchVars
  BY <1>1 DEF benchVars, session, vars
<1>2. ASSUME NEW r \in Run, SessionNext(r)
      PROVE  InBlock' /\ (disturbed => disturbed')
  BY <1>2, SessionMoves DEF SessionTypeOK
<1>3. ASSUME NEW r \in Run, LockNext(r)
      PROVE  InBlock' /\ (disturbed => disturbed')
  BY <1>3, LockKeepsBlocks DEF LockNext, session
<1>4. ASSUME NEW r \in Run, EndBlock(r) \/ Kill(r)
      PROVE  InBlock' /\ (disturbed => disturbed')
  <2>1. /\ phase' = [phase EXCEPT ![r] = "none"]
        /\ \A q \in Run : q # r => pc'[q] = pc[q]
        /\ disturbed' = disturbed
    BY <1>4 DEF EndBlock, Kill, Finish, Crash, Leave, Enter, Goto, TypeOK
  <2> QED
    BY <2>1 DEF SessionTypeOK
<1> QED
  BY <1>1, <1>2, <1>3, <1>4 DEF BenchNext

(* What a run does to its session touches no other run's. *)
LEMMA OthersKeep ==
  ASSUME SessionTypeOK, NEW r \in Run, SessionNext(r) \/ EndBlock(r) \/ Kill(r),
         NEW q \in Run, q # r
  PROVE  /\ phase'[q] = phase[q] /\ mem'[q] = mem[q] /\ cur'[q] = cur[q]
         /\ gapped'[q] = gapped[q] /\ ran'[q] = ran[q]
<1> USE DEF SessionTypeOK, Enter, Save
<1>1. CASE Discard(r) \/ RemoveState(r) \/ RemoveRuns(r) \/ EndBlock(r)
  BY <1>1 DEF Discard, RemoveState, RemoveRuns, EndBlock, session
<1>2. CASE \E ff \in BOOLEAN : Begin(r, ff)
  <2>1. \E state : Save(r, state)
    BY <1>2 DEF Begin
  <2> QED
    BY <1>2, <2>1 DEF Begin
<1>3. CASE Pick(r)
  BY <1>3 DEF Pick
<1>4. CASE ProcessEnds(r) \/ GapPass(r)
  BY <1>4 DEF ProcessEnds, GapPass
<1>5. CASE RecordSuccess(r) \/ (RecordFailure(r) /\ ~failfast[r])
  BY <1>5 DEF RecordSuccess, RecordFailure
<1>6. CASE \/ Interrupt(r) \/ Unexpected(r) \/ Close(r) \/ Abandon(r) \/ Kill(r)
           \/ RecordFailure(r) /\ failfast[r]
  <2>1. \E p \in {"none", "over"} : Leave(r, p)
    BY <1>6 DEF Interrupt, Unexpected, Close, Abandon, Kill, RecordFailure, EndSession
  <2> QED
    BY <2>1 DEF Leave
<1> QED
  BY <1>1, <1>2, <1>3, <1>4, <1>5, <1>6 DEF SessionNext, SessionStep

(* A run's part of the invariant, which its own steps keep while nobody    *)
(* else writes.                                                            *)
Sound(r) ==
    /\ InSession(r) => disk = mem[r] /\ mem[r].status = "running"
    /\ InSession(r) /\ gapped[r] => mem[r].completed \cap gap_analysis \subseteq ran[r]

LEMMA OwnStep ==
  ASSUME BenchTypeOK, TaskWasRun, NEW r \in Run, Sound(r), SessionNext(r)
  PROVE  Sound(r)'
<1> USE DEF BenchTypeOK, SessionTypeOK, Enter, InSession, Scheduling, InTask, Sound,
           TaskWasRun
<1>1. CASE Discard(r) \/ RemoveState(r) \/ RemoveRuns(r)
  BY <1>1 DEF Discard, RemoveState, RemoveRuns, session
<1>2. ASSUME NEW ff \in BOOLEAN, Begin(r, ff)
      PROVE  Sound(r)'
  <2>1. PICK state \in State : Save(r, state) /\ state.status = "running"
    BY <1>2, Loaded, FreshIsState DEF Begin
  <2>2. disk' = state /\ mem'[r] = state
    BY <2>1 DEF Save
  <2>3. phase'[r] = "pick" /\ ~gapped'[r]
    BY <1>2 DEF Begin
  <2> QED
    BY <2>1, <2>2, <2>3
<1>3. CASE Pick(r)
  <2>1. phase[r] = "pick" /\ phase'[r] \in {"running", "gaps"} /\ ran[r] \subseteq ran'[r]
        /\ UNCHANGED <<mem, gapped, disk, results>>
    BY <1>3 DEF Pick
  <2> QED
    BY <2>1 DEF gap_analysis
<1>4. CASE ProcessEnds(r)
  BY <1>4 DEF ProcessEnds, gap_analysis
<1>5. CASE RecordSuccess(r) \/ (RecordFailure(r) /\ ~failfast[r])
  <2>1. /\ Save(r, Outcome(r)) /\ phase'[r] = "pick"
        /\ UNCHANGED <<cur, gapped, ran, results>>
    BY <1>5 DEF RecordSuccess, RecordFailure
  <2>2. disk' = Outcome(r) /\ mem'[r] = Outcome(r) /\ phase[r] \in InTask
    BY <1>5, <2>1 DEF Save, RecordSuccess, RecordFailure
  <2> QED
    BY <2>1, <2>2, OutcomeMarks DEF gap_analysis
<1>6. CASE GapPass(r)
  <2>1. /\ mem'[r].completed = mem[r].completed \ gap_analysis /\ disk' = mem'[r]
        /\ mem'[r].status = mem[r].status
        /\ phase[r] = "gaps" /\ phase'[r] = "pick" /\ UNCHANGED results
    BY <1>6 DEF GapPass, Save, State
  <2> QED
    BY <2>1 DEF gap_analysis
<1>7. CASE \/ Interrupt(r) \/ Unexpected(r) \/ Close(r)
           \/ RecordFailure(r) /\ failfast[r]
  <2>1. phase'[r] = "over"
    BY <1>7, SessionEnds
  <2> QED
    BY <2>1
<1>8. CASE Abandon(r)
  BY <1>8 DEF Abandon, Leave
<1> QED
  BY <1>1, <1>2, <1>3, <1>4, <1>5, <1>6, <1>7, <1>8 DEF SessionNext, SessionStep

LEMMA OwnTask ==
  ASSUME BenchTypeOK, NEW r \in Run, phase[r] \in InTask => cur[r] \in ran[r], SessionNext(r)
  PROVE  phase'[r] \in InTask => cur'[r] \in ran'[r]
<1> USE DEF BenchTypeOK, SessionTypeOK, Enter, InTask
<1>1. CASE Discard(r) \/ RemoveState(r) \/ RemoveRuns(r)
  BY <1>1 DEF Discard, RemoveState, RemoveRuns, session
<1>2. CASE \E ff \in BOOLEAN : Begin(r, ff)
  BY <1>2 DEF Begin
<1>3. CASE Pick(r)
  BY <1>3 DEF Pick
<1>4. CASE ProcessEnds(r) \/ GapPass(r)
  BY <1>4 DEF ProcessEnds, GapPass
<1>5. CASE RecordSuccess(r) \/ (RecordFailure(r) /\ ~failfast[r])
  BY <1>5 DEF RecordSuccess, RecordFailure
<1>6. CASE \/ Interrupt(r) \/ Unexpected(r) \/ Close(r)
           \/ RecordFailure(r) /\ failfast[r]
  BY <1>6, SessionEnds
<1>7. CASE Abandon(r)
  BY <1>7 DEF Abandon, Leave
<1> QED
  BY <1>1, <1>2, <1>3, <1>4, <1>5, <1>6, <1>7 DEF SessionNext, SessionStep

(* Every step keeps the sessions' invariant: while the lock excludes, no   *)
(* other run has a session whose memory the step could outdate.            *)
LEMMA SessionInvKept ==
  ASSUME BenchTypeOK, OwnershipInv, SessionInv, [BenchNext]_benchVars
  PROVE  SessionInv'
<1> USE DEF BenchTypeOK
<1>1. InBlock' /\ (~disturbed' => ~disturbed)
  BY InBlockKept DEF SessionInv
<1>2. CASE UNCHANGED benchVars
  BY <1>1, <1>2 DEF benchVars, session, vars, SessionInv, TaskWasRun, FileIsMemory, GapsRan,
                    InSession, gap_analysis
<1>3. ASSUME NEW r \in Run, SessionNext(r)
      PROVE  SessionInv'
  <2>1. TaskWasRun'
    BY <1>3, OwnTask, OthersKeep DEF SessionInv, TaskWasRun
  <2>2. ASSUME ~disturbed'
        PROVE  FileIsMemory' /\ GapsRan'
    <3>1. FileIsMemory /\ GapsRan /\ ~disturbed /\ TaskWasRun /\ InBlock
      BY <1>1, <2>2 DEF SessionInv
    <3>2. Sound(r)'
      BY <1>3, <3>1, OwnStep DEF Sound, FileIsMemory, GapsRan
    <3>3. ASSUME NEW q \in Run, q # r
          PROVE  ~InSession(q)'
      <4>1. pc[r] = "held"
        BY <1>3, <3>1, SessionMoves DEF InBlock
      <4>2. phase[q] \in {"none", "over"}
        BY <3>1, <3>3, <4>1 DEF InBlock, OwnershipInv
      <4> QED
        BY <1>3, <3>3, <4>2, OthersKeep DEF InSession, Scheduling, InTask
    <3> QED
      BY <3>2, <3>3 DEF Sound, FileIsMemory, GapsRan
  <2> QED
    BY <1>1, <2>1, <2>2 DEF SessionInv
<1>4. ASSUME NEW r \in Run, LockNext(r)
      PROVE  SessionInv'
  BY <1>1, <1>4 DEF LockNext, session, SessionInv, TaskWasRun, FileIsMemory, GapsRan, InSession,
                    gap_analysis
<1>5. ASSUME NEW r \in Run, EndBlock(r) \/ Kill(r)
      PROVE  SessionInv'
  <2>1. phase'[r] = "none" /\ UNCHANGED <<disk, results>>
    BY <1>5 DEF EndBlock, Kill, Leave, Enter, SessionTypeOK
  <2>2. \A q \in Run : phase'[q] # "none" =>
          /\ phase'[q] = phase[q] /\ mem'[q] = mem[q] /\ cur'[q] = cur[q]
          /\ gapped'[q] = gapped[q] /\ ran'[q] = ran[q]
    BY <1>5, <2>1, OthersKeep
  <2> QED
    BY <1>1, <2>1, <2>2 DEF SessionInv, TaskWasRun, FileIsMemory, GapsRan, InSession,
                            Scheduling, InTask, gap_analysis
<1> QED
  BY <1>2, <1>3, <1>4, <1>5 DEF BenchNext

(* The invariant holds along every behaviour. *)
LEMMA SessionHolds == BenchSpec => [](BenchTypeOK /\ OwnershipInv /\ SessionInv)
<1>1. BenchInit => SessionInv
  BY DEF BenchInit, SessionInv, InBlock, TaskWasRun, FileIsMemory, GapsRan, InSession,
         Scheduling, InTask
<1> QED
  BY <1>1, SessionInvKept, BenchTypeCorrect, BenchmarkLocks, OwnershipHolds, PTL DEF BenchSpec

-----------------------------------------------------------------------------
(* While the lock excludes, no save overwrites what another run recorded:  *)
(* the state file is what the session has in memory.                       *)
THEOREM UpdatesAreKept == BenchSpec => []NoLostUpdate
<1>1. SessionInv => NoLostUpdate
  BY DEF SessionInv, FileIsMemory, NoLostUpdate
<1> QED
  BY <1>1, SessionHolds, PTL

(* Work recorded as completed stays recorded, whichever run resumes it.    *)
THEOREM RecordedKept == BenchSpec => RecordedWorkKept
<1> DEFINE Kept == ~disturbed /\ disk # NoState /\ (\A r \in Run : phase[r] # "discard") =>
                       disk.completed \cap results \subseteq disk'.completed
<1>1. BenchTypeOK /\ SessionInv /\ [BenchNext]_benchVars => [Kept]_benchVars
  <2> SUFFICES ASSUME BenchTypeOK, SessionInv, BenchNext, ~disturbed, disk # NoState,
                      \A r \in Run : phase[r] # "discard"
               PROVE  disk.completed \cap results \subseteq disk'.completed
    BY DEF Kept
  <2>1. disk \in State /\ SessionTypeOK
    BY DEF BenchTypeOK
  <2>2. ASSUME NEW r \in Run, phase[r] \in Scheduling
        PROVE  disk = mem[r]
    BY <2>2 DEF SessionInv, FileIsMemory, InSession
  <2>3. ASSUME NEW r \in Run, LockNext(r) \/ EndBlock(r) \/ Kill(r)
        PROVE  UNCHANGED disk
    BY <2>3 DEF LockNext, EndBlock, Kill
  <2>4. ASSUME NEW r \in Run,
               Discard(r) \/ RemoveState(r) \/ RemoveRuns(r) \/ Abandon(r) \/ Pick(r) \/ ProcessEnds(r)
        PROVE  UNCHANGED disk
    BY <2>4 DEF Discard, RemoveState, RemoveRuns, Abandon, Pick, ProcessEnds
  <2>5. ASSUME NEW r \in Run, NEW ff \in BOOLEAN, Begin(r, ff)
        PROVE  disk'.completed = disk.completed
    BY <2>1, <2>5, Loaded DEF Begin, Save
  <2>6. ASSUME NEW r \in Run, RecordSuccess(r) \/ (RecordFailure(r) /\ ~failfast[r])
        PROVE  disk.completed \subseteq disk'.completed
    <3>1. disk' = Outcome(r) /\ phase[r] \in Scheduling
      BY <2>6 DEF RecordSuccess, RecordFailure, Save, Scheduling, InTask
    <3> QED
      BY <2>1, <2>2, <3>1, OutcomeMarks
  <2>7. ASSUME NEW r \in Run, GapPass(r)
        PROVE  disk.completed \cap results \subseteq disk'.completed
    <3>1. disk = mem[r] /\ disk' = [mem[r] EXCEPT !.completed = @ \ gap_analysis]
      BY <2>2, <2>7 DEF GapPass, Save, Scheduling
    <3> QED
      BY <2>1, <3>1 DEF gap_analysis, State
  <2>8. ASSUME NEW r \in Run,
               \/ Interrupt(r) \/ Unexpected(r) \/ Close(r)
               \/ RecordFailure(r) /\ failfast[r]
        PROVE  disk.completed \subseteq disk'.completed
    <3>1. disk'.completed \in {mem[r].completed, Outcome(r).completed} /\ phase[r] \in Scheduling
      BY <2>1, <2>8, SessionEnds
    <3> QED
      BY <2>1, <2>2, <3>1, OutcomeMarks
  <2>9. ASSUME NEW r \in Run, SessionNext(r)
        PROVE  disk.completed \cap results \subseteq disk'.completed
    <3>1. CASE SessionStep(r)
      BY <2>4, <2>6, <2>7, <2>8, <3>1 DEF SessionStep
    <3>2. CASE \E ff \in BOOLEAN : Begin(r, ff)
      BY <2>5, <3>2
    <3> QED
      BY <2>4, <2>8, <2>9, <3>1, <3>2 DEF SessionNext
  <2> QED
    BY <2>3, <2>9 DEF BenchNext
<1> QED
  BY <1>1, SessionHolds, PTL DEF BenchSpec, RecordedWorkKept

(* A session that reports completion retried what has no results.          *)
THEOREM GapsRetried == BenchSpec => GapsWereRetried
<1> DEFINE Retried == ~disturbed =>
                          \A r \in Run : Publishes(r) => gap_analysis \subseteq ran[r]
<1>1. BenchTypeOK /\ SessionInv /\ [BenchNext]_benchVars => [Retried]_benchVars
  <2> SUFFICES ASSUME BenchTypeOK, SessionInv, BenchNext, ~disturbed,
                      NEW q \in Run, Publishes(q)
               PROVE  gap_analysis \subseteq ran[q]
    BY DEF Retried
  <2>1. phase[q] = "gaps" /\ phase'[q] = "over" /\ disk'.status = "completed" /\ InSession(q)
    BY DEF Publishes, InSession, Scheduling
  <2>2. disk = mem[q] /\ mem[q].status = "running" /\ SessionTypeOK
    BY <2>1 DEF SessionInv, FileIsMemory, BenchTypeOK
  <2>3. PICK r \in Run : SessionNext(r) \/ LockNext(r) \/ EndBlock(r) \/ Kill(r)
    BY DEF BenchNext
  <2>4. SessionNext(r)
    BY <2>1, <2>2, <2>3 DEF LockNext, EndBlock, Kill
  <2>5. r = q
    BY <2>1, <2>2, <2>4, OthersKeep
  <2>6. ~(Discard(q) \/ RemoveState(q) \/ RemoveRuns(q) \/ Abandon(q) \/ Pick(q) \/ ProcessEnds(q)
          \/ RecordSuccess(q) \/ RecordFailure(q) \/ GapPass(q) \/ Interrupt(q)
          \/ \E ff \in BOOLEAN : Begin(q, ff))
    BY <2>1, <2>2
    DEF Discard, RemoveState, RemoveRuns, Abandon, Pick, ProcessEnds, RecordSuccess, RecordFailure,
        GapPass, Interrupt, Begin, InTask, Enter, SessionTypeOK
  <2>7. ~Unexpected(q)
    BY <2>1, <2>2, SessionEnds
  <2>8. Close(q)
    BY <2>4, <2>5, <2>6, <2>7 DEF SessionNext, SessionStep
  <2>9. Task \subseteq mem[q].completed
    BY <2>1, <2>2, <2>8, SessionEnds DEF is_complete
  <2> QED
    BY <2>1, <2>8, <2>9 DEF Close, SessionInv, GapsRan, gap_analysis
<1> QED
  BY <1>1, SessionHolds, PTL DEF BenchSpec, GapsWereRetried
=============================================================================
