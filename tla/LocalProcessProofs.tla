------------------------- MODULE LocalProcessProofs -------------------------
(***************************************************************************)
(* Theorems about the pid files of the local executor, for every set of    *)
(* sessions, workloads and pids.                                           *)
(***************************************************************************)
EXTENDS LocalProcess, TLAPS

(* The local executor's files, processes and scripts keep their types. *)
THEOREM TypeCorrect == Spec => []TypeOK
<1>1. Init => TypeOK
  BY LocalProcessAssumption DEF Init, TypeOK
<1>2. TypeOK /\ [Next]_vars => TypeOK'
  <2> SUFFICES ASSUME TypeOK, [Next]_vars
               PROVE  TypeOK'
    OBVIOUS
  <2> USE LocalProcessAssumption DEF TypeOK, Goto, End
  <2>1. CASE UNCHANGED vars
    BY <2>1 DEF vars
  <2>2. ASSUME NEW s \in Session, Script(s)
        PROVE  TypeOK'
    <3>1. ASSUME NEW n \in Name, NEW j \in {"stop", "launch"}, Begin(s, n, j)
          PROVE  TypeOK'
      BY <3>1 DEF Begin
    <3>2. CASE Read(s)
      BY <3>2 DEF Read
    <3>3. CASE Terminate(s)
      BY <3>3 DEF Terminate, Alive
    <3>4. CASE Kill(s)
      <4>1. pid[s] \in Pid /\ pc' = [pc EXCEPT ![s] = "remove"]
        BY <3>4 DEF Kill
      <4>2. CASE Alive(pid[s])
        BY <3>4, <4>1, <4>2 DEF Kill
      <4>3. CASE ~Alive(pid[s])
        BY <3>4, <4>1, <4>3 DEF Kill
      <4> QED
        BY <4>2, <4>3
    <3>5. CASE Remove(s)
      BY <3>5 DEF Remove
    <3>6. CASE Verify(s)
      BY <3>6 DEF Verify
    <3>7. CASE Open(s)
      BY <3>7 DEF Open
    <3>8. CASE Interrupt(s)
      BY <3>8 DEF Interrupt
    <3>9. CASE Spawn(s)
      BY <3>9 DEF Spawn
    <3>10. CASE Write(s)
      BY <3>10 DEF Write
    <3> QED
      BY <2>2, <3>1, <3>2, <3>3, <3>4, <3>5, <3>6, <3>7, <3>8, <3>9, <3>10 DEF Script
  <2>3. ASSUME NEW p \in Pid, LeaderEnds(p) \/ WorkersEnd(p) \/ Recycle(p) \/ StrangerEnds(p)
        PROVE  TypeOK'
    BY <2>3 DEF LeaderEnds, WorkersEnd, Recycle, StrangerEnds
  <2>4. CASE Reboot
    BY <2>4 DEF Reboot
  <2> QED
    BY <2>1, <2>2, <2>3, <2>4 DEF Next
<1> QED
  BY <1>1, <1>2, PTL DEF Spec
-----------------------------------------------------------------------------
(* The strengthening of LiveIsTracked and ConfirmedIsGone, for a workload  *)
(* that is not muddled: one script works on it; while its process lives it *)
(* is in the file, as a script that has read the file knows, or the script *)
(* that spawned it is about to write it down.                              *)
Alone(n) == \A s, t \in Session : name[s] = n /\ name[t] = n => s = t

Filed(n, p) ==
    /\ file[n] = p
    /\ \A s \in Session : name[s] = n =>
          \/ pc[s] = "read"
          \/ pc[s] \in {"signal", "wait"} /\ pid[s] = p

Spawned(n, p) == \E s \in Session : name[s] = n /\ pc[s] \in {"open", "write"} /\ pid[s] = p

TrackInv ==
    \A n \in Name \ muddled :
        Alone(n) /\ \A p \in Pid : lead[p] = n => Filed(n, p) \/ Spawned(n, p)

(* Every step keeps the invariant. *)
LEMMA TrackStep == TypeOK /\ TrackInv /\ [Next]_vars => TrackInv'
<1> SUFFICES ASSUME TypeOK, TrackInv, [Next]_vars
             PROVE  TrackInv'
  OBVIOUS
<1> SUFFICES ASSUME NEW n \in Name, n \notin muddled'
             PROVE  /\ Alone(n)'
                    /\ \A p \in Pid : lead'[p] = n => (Filed(n, p) \/ Spawned(n, p))'
  BY DEF TrackInv
<1> USE LocalProcessAssumption DEF TypeOK, Goto, End
<1>0. n \notin muddled => Alone(n) /\ \A p \in Pid : lead[p] = n => Filed(n, p) \/ Spawned(n, p)
  BY DEF TrackInv
<1>1. CASE UNCHANGED vars
  BY <1>0, <1>1 DEF vars, Alone, Filed, Spawned
<1>2. ASSUME NEW s \in Session, NEW m \in Name, NEW j \in {"stop", "launch"}, Begin(s, m, j)
      PROVE  /\ Alone(n)'
             /\ \A p \in Pid : lead'[p] = n => (Filed(n, p) \/ Spawned(n, p))'
  BY <1>0, <1>2 DEF Begin, AtWork, Alone, Filed, Spawned
<1>3. ASSUME NEW s \in Session, Read(s) \/ Terminate(s)
      PROVE  /\ Alone(n)'
             /\ \A p \in Pid : lead'[p] = n => (Filed(n, p) \/ Spawned(n, p))'
  BY <1>0, <1>3 DEF Read, Terminate, Alive, Alone, Filed, Spawned
<1>4. ASSUME NEW s \in Session, Kill(s)
      PROVE  /\ Alone(n)'
             /\ \A p \in Pid : lead'[p] = n => (Filed(n, p) \/ Spawned(n, p))'
  BY <1>0, <1>4 DEF Kill, Alive, Alone, Filed, Spawned
<1>5. ASSUME NEW s \in Session, Remove(s) \/ Verify(s)
      PROVE  /\ Alone(n)'
             /\ \A p \in Pid : lead'[p] = n => (Filed(n, p) \/ Spawned(n, p))'
  BY <1>0, <1>5 DEF Remove, Verify, Alone, Filed, Spawned
<1>6. ASSUME NEW s \in Session, Spawn(s)
      PROVE  /\ Alone(n)'
             /\ \A p \in Pid : lead'[p] = n => (Filed(n, p) \/ Spawned(n, p))'
  BY <1>0, <1>6 DEF Spawn, Free, Alone, Filed, Spawned
<1>7. ASSUME NEW s \in Session, Open(s) \/ Write(s)
      PROVE  /\ Alone(n)'
             /\ \A p \in Pid : lead'[p] = n => (Filed(n, p) \/ Spawned(n, p))'
  BY <1>0, <1>7 DEF Open, Write, Alone, Filed, Spawned
<1>8. ASSUME NEW s \in Session, Interrupt(s)
      PROVE  /\ Alone(n)'
             /\ \A p \in Pid : lead'[p] = n => (Filed(n, p) \/ Spawned(n, p))'
  BY <1>0, <1>8 DEF Interrupt, Alone, Filed, Spawned
<1>9. ASSUME NEW q \in Pid, LeaderEnds(q) \/ WorkersEnd(q) \/ Recycle(q) \/ StrangerEnds(q)
      PROVE  /\ Alone(n)'
             /\ \A p \in Pid : lead'[p] = n => (Filed(n, p) \/ Spawned(n, p))'
  BY <1>0, <1>9 DEF LeaderEnds, WorkersEnd, Recycle, StrangerEnds, Alone, Filed, Spawned
<1>10. CASE Reboot
  BY <1>0, <1>10 DEF Reboot, Alone
<1> QED
  BY <1>1, <1>2, <1>3, <1>4, <1>5, <1>6, <1>7, <1>8, <1>9, <1>10 DEF Next, Script

(* The invariant holds along every behaviour. *)
LEMMA TrackHolds == Spec => [](TypeOK /\ TrackInv)
<1>1. Init => TrackInv
  BY LocalProcessAssumption DEF Init, TrackInv, Alone
<1> QED
  BY <1>1, TrackStep, TypeCorrect, PTL DEF Spec

(* status and stop find every workload that runs.                          *)
THEOREM LiveTracked == Spec => []LiveIsTracked
<1>1. TypeOK /\ TrackInv => LiveIsTracked
  BY LocalProcessAssumption DEF TypeOK, TrackInv, LiveIsTracked, AtWork, Filed, Spawned
<1> QED
  BY <1>1, TrackHolds, PTL

(* A teardown that confirms has ended the workload.                        *)
THEOREM ConfirmedGone == Spec => []ConfirmedIsGone
<1>1. TypeOK /\ TrackInv => ConfirmedIsGone
  BY LocalProcessAssumption
     DEF TypeOK, TrackInv, ConfirmedIsGone, Confirms, Alone, Filed, Spawned
<1> QED
  BY <1>1, TrackHolds, PTL
=============================================================================
