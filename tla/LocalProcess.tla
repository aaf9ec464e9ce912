---------------------------- MODULE LocalProcess ----------------------------
(***************************************************************************)
(* The local executor on one host (orchestration/executors/local.py): a    *)
(* workload is a process group, found again by the pid in a file that has  *)
(* the workload's name.                                                    *)
(*                                                                         *)
(* Its commands are shell scripts, and every command of a script that      *)
(* others can see is a step: reading the file, signalling, removing the    *)
(* file, spawning, opening the file, writing the pid.  Scripts of several  *)
(* sessions run side by side, end in the middle, and go down with the      *)
(* host, which leaves the files behind.  The kernel gives a pid away again *)
(* once neither a process nor a group has it.                              *)
(***************************************************************************)
EXTENDS FiniteSets

CONSTANTS
    Session,    \* the calls of sparkrun that have a script on the host
    Name,       \* the workloads, container_name in the code
    Pid,
    Nobody,     \* no process
    Stranger,   \* a program sparkrun did not start
    Absent,     \* no pid file
    Empty       \* a pid file that has been opened and not been written

ASSUME LocalProcessAssumption ==
    /\ Nobody # Stranger /\ Absent # Empty
    /\ {Nobody, Stranger} \cap (Name \cup Pid) = {}
    /\ {Absent, Empty} \cap Pid = {}

VARIABLES
    file,       \* the pid files
    lead,       \* the process that has each pid
    kids,       \* the workload whose workers are in the group of each pid
    pc, name, pid,  \* of the script of each session: where it is, its locals
    job,        \* what the session is about: a stop or a launch
    muddled     \* history: the workloads two scripts met on, and those of
                \* which a script ended between the spawn and the pid's writing

vars == <<file, lead, kids, pc, name, pid, job, muddled>>

Free(p) == lead[p] = Nobody /\ kids[p] = Nobody

(* kill -0 *)
Alive(p) == p # Nobody /\ lead[p] # Nobody

AtWork(n) == {s \in Session : pc[s] # "idle" /\ name[s] = n}

(* Every variable stays in its domain, and a script has the locals its     *)
(* place calls for.                                                        *)
TypeOK ==
    /\ file \in [Name -> Pid \cup {Absent, Empty}]
    /\ lead \in [Pid -> Name \cup {Nobody, Stranger}]
    /\ kids \in [Pid -> Name \cup {Nobody}]
    /\ pc \in [Session -> {"idle", "read", "signal", "wait", "remove", "verify",
                           "spawn", "open", "write"}]
    /\ name \in [Session -> Name \cup {Nobody}]
    /\ pid \in [Session -> Pid \cup {Nobody}]
    /\ job \in [Session -> {"stop", "launch"}]
    /\ muddled \subseteq Name
    /\ \A s \in Session :
          /\ pc[s] = "idle" <=> name[s] = Nobody
          /\ pc[s] \in {"wait", "open", "write"} => pid[s] \in Pid

Init ==
    /\ file = [n \in Name |-> Absent]
    /\ lead = [p \in Pid |-> Nobody]
    /\ kids = [p \in Pid |-> Nobody]
    /\ pc = [s \in Session |-> "idle"]
    /\ name = [s \in Session |-> Nobody]
    /\ pid = [s \in Session |-> Nobody]
    /\ job = [s \in Session |-> "stop"]
    /\ muddled = {}

-----------------------------------------------------------------------------
Goto(s, from, to) == pc[s] = from /\ pc' = [pc EXCEPT ![s] = to]

(* The script of a session has ended. *)
End(s) ==
    /\ pc' = [pc EXCEPT ![s] = "idle"]
    /\ name' = [name EXCEPT ![s] = Nobody]
    /\ pid' = [pid EXCEPT ![s] = Nobody]
    /\ job' = [job EXCEPT ![s] = "stop"]

(* Mutant: a launch does not begin with stop_cmd. *)
BeginDirectly(s, n, j) ==
    /\ Goto(s, "idle", IF j = "stop" THEN "read" ELSE "spawn")
    /\ name' = [name EXCEPT ![s] = n]
    /\ job' = [job EXCEPT ![s] = j]
    /\ muddled' = IF AtWork(n) = {} THEN muddled ELSE muddled \cup {n}
    /\ UNCHANGED <<file, lead, kids, pid>>

(* A stop runs teardown_script, a launch of a rank generate_node_script;   *)
(* both start with stop_cmd.                                               *)
Begin(s, n, j) ==
    /\ Goto(s, "idle", "read")
    /\ name' = [name EXCEPT ![s] = n]
    /\ job' = [job EXCEPT ![s] = j]
    /\ muddled' = IF AtWork(n) = {} THEN muddled ELSE muddled \cup {n}
    /\ UNCHANGED <<file, lead, kids, pid>>

(* Mutant: what cat prints is taken as it is. *)
ReadRaw(s) ==
    /\ Goto(s, "read", "signal")
    /\ pid' = [pid EXCEPT ![s] = file[name[s]]]
    /\ UNCHANGED <<file, lead, kids, name, job, muddled>>

(* cat prints nothing for a file that is absent or empty. *)
Read(s) ==
    /\ Goto(s, "read", "signal")
    /\ pid' = [pid EXCEPT ![s] = IF file[name[s]] \in Pid THEN file[name[s]] ELSE Nobody]
    /\ UNCHANGED <<file, lead, kids, name, job, muddled>>

(* SIGTERM to the group: whether and when its processes end is up to them. *)
Terminate(s) ==
    /\ Goto(s, "signal", IF Alive(pid[s]) THEN "wait" ELSE "remove")
    /\ UNCHANGED <<file, lead, kids, name, pid, job, muddled>>

(* Mutant: nobody is killed after the ten seconds. *)
KillNobody(s) ==
    /\ Goto(s, "wait", "remove")
    /\ UNCHANGED <<file, lead, kids, name, pid, job, muddled>>

(* The process has ended within ten seconds or its group is killed: of a   *)
(* group whose leader has ended the rest is left alone.                    *)
Kill(s) ==
    /\ Goto(s, "wait", "remove")
    /\ IF Alive(pid[s])
       THEN /\ lead' = [lead EXCEPT ![pid[s]] = Nobody]
            /\ kids' = [kids EXCEPT ![pid[s]] = Nobody]
       ELSE UNCHANGED <<lead, kids>>
    /\ UNCHANGED <<file, name, pid, job, muddled>>

Remove(s) ==
    /\ Goto(s, "remove", IF job[s] = "stop" THEN "verify" ELSE "spawn")
    /\ file' = [file EXCEPT ![name[s]] = Absent]
    /\ UNCHANGED <<lead, kids, name, pid, job, muddled>>

(* teardown_script asks status_cmd, which reads the file: the teardown     *)
(* confirms or not, and is over.                                           *)
Confirms(s) == pc[s] = "verify" /\ ~(file[name[s]] \in Pid /\ Alive(file[name[s]]))

Verify(s) ==
    /\ pc[s] = "verify"
    /\ End(s)
    /\ UNCHANGED <<file, lead, kids, muddled>>

(* setsid: a session, a group and its leader, which forks its workers.     *)
Spawn(s) ==
    /\ Goto(s, "spawn", "open")
    /\ \E p \in Pid :
         /\ Free(p)
         /\ lead' = [lead EXCEPT ![p] = name[s]]
         /\ kids' = [kids EXCEPT ![p] = name[s]]
         /\ pid' = [pid EXCEPT ![s] = p]
    /\ UNCHANGED <<file, name, job, muddled>>

Open(s) ==
    /\ Goto(s, "open", "write")
    /\ file' = [file EXCEPT ![name[s]] = Empty]
    /\ UNCHANGED <<lead, kids, name, pid, job, muddled>>

Write(s) ==
    /\ pc[s] = "write"
    /\ End(s)
    /\ file' = [file EXCEPT ![name[s]] = pid[s]]
    /\ UNCHANGED <<lead, kids, muddled>>

(* The connection is lost or the call is interrupted. *)
Interrupt(s) ==
    /\ pc[s] # "idle"
    /\ End(s)
    /\ muddled' = IF pc[s] \in {"open", "write"} THEN muddled \cup {name[s]} ELSE muddled
    /\ UNCHANGED <<file, lead, kids>>

-----------------------------------------------------------------------------
(* A workload ends, with its workers or before them. *)
LeaderEnds(p) ==
    /\ lead[p] \in Name
    /\ lead' = [lead EXCEPT ![p] = Nobody]
    /\ UNCHANGED <<file, kids, pc, name, pid, job, muddled>>

WorkersEnd(p) ==
    /\ kids[p] # Nobody
    /\ kids' = [kids EXCEPT ![p] = Nobody]
    /\ UNCHANGED <<file, lead, pc, name, pid, job, muddled>>

(* Other programs come and go. *)
Recycle(p) ==
    /\ Free(p)
    /\ lead' = [lead EXCEPT ![p] = Stranger]
    /\ UNCHANGED <<file, kids, pc, name, pid, job, muddled>>

StrangerEnds(p) ==
    /\ lead[p] = Stranger
    /\ lead' = [lead EXCEPT ![p] = Nobody]
    /\ UNCHANGED <<file, kids, pc, name, pid, job, muddled>>

(* The files are under $HOME/.cache. *)
Reboot ==
    /\ lead' = [p \in Pid |-> Nobody]
    /\ kids' = [p \in Pid |-> Nobody]
    /\ pc' = [s \in Session |-> "idle"]
    /\ name' = [s \in Session |-> Nobody]
    /\ pid' = [s \in Session |-> Nobody]
    /\ job' = [s \in Session |-> "stop"]
    /\ UNCHANGED <<file, muddled>>

Script(s) ==
    \/ \E n \in Name, j \in {"stop", "launch"} : Begin(s, n, j)
    \/ Read(s) \/ Terminate(s) \/ Kill(s) \/ Remove(s) \/ Verify(s)
    \/ Spawn(s) \/ Open(s) \/ Write(s) \/ Interrupt(s)

Next ==
    \/ \E s \in Session : Script(s)
    \/ \E p \in Pid : LeaderEnds(p) \/ WorkersEnd(p) \/ Recycle(p) \/ StrangerEnds(p)
    \/ Reboot

Spec == Init /\ [][Next]_vars

-----------------------------------------------------------------------------
(* query_status and stop find every workload that runs, and so there is    *)
(* one of a name at most: its pid is in the file of its name, however many *)
(* crashed, were stopped, were launched again or were interrupted before.  *)
LiveIsTracked ==
    \A n \in Name \ muddled : AtWork(n) = {} =>
        \A p \in Pid : lead[p] = n => file[n] = p

(* A teardown that confirms has ended the workload, although what it asks  *)
(* in the end is a file it has removed.                                    *)
ConfirmedIsGone ==
    \A s \in Session : Confirms(s) /\ name[s] \notin muddled =>
        \A p \in Pid : lead[p] # name[s]
=============================================================================
