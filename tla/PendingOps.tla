---------------------------- MODULE PendingOps ----------------------------
(***************************************************************************)
(* The lock files of long operations (core/pending_ops.py).  They exclude  *)
(* nobody: a process that finds a live lock goes on without one of its     *)
(* own.  They tell other commands what is running, so what matters is that *)
(* a file is there while the operation that wrote it runs, and gone after. *)
(*                                                                         *)
(* Reading, truncating (write_text opens the file first), writing and      *)
(* unlinking are steps of their own.  A file is its content: Absent, Torn  *)
(* (empty or unparseable) or the process whose payload is in it.           *)
(***************************************************************************)
CONSTANTS
    Process,     \* invocations that enter pending_op
    Viewer,      \* commands that list the pending operations
    Operation,   \* the keys (cluster id and operation), one file for each
    HostOf,      \* the machine of each process and viewer
    Absent, Torn,
    IoFaults,    \* processes whose file operations may fail with OSError
    MayAge       \* operations that may last beyond LOCK_MAX_AGE_SECONDS

(* What the constants of an instance must satisfy. *)
PendingAssumption ==
    /\ {Absent, Torn} \cap Process = {}
    /\ Absent # Torn
    /\ IoFaults \subseteq Process
    /\ MayAge \subseteq Operation
    /\ Operation # {}

VARIABLES
    file,     \* content of the lock file of each operation
    aged,     \* it is older than LOCK_MAX_AGE_SECONDS
    at,       \* where each process is in pending_op
    key,      \* the operation it entered for
    handle,   \* its open file is still the one under the path
    prune,    \* the files a viewer has read as stale and will unlink
    raced     \* history: two read-then-act windows on a file overlapped,
              \* or the lock of a running operation grew too old

pendingVars == <<file, aged, at, key, handle, prune, raced>>

Places == {"out", "open", "write", "held", "guest", "unlink", "dead"}

TypeOK ==
    /\ file \in [Operation -> Process \cup {Absent, Torn}]
    /\ aged \in [Operation -> BOOLEAN]
    /\ at \in [Process -> Places]
    /\ key \in [Process -> Operation]
    /\ handle \in [Process -> BOOLEAN]
    /\ prune \in [Viewer -> SUBSET Operation]
    /\ raced \in BOOLEAN

Init ==
    /\ file = [o \in Operation |-> Absent]
    /\ aged = [o \in Operation |-> FALSE]
    /\ at = [p \in Process |-> "out"]
    /\ key = [p \in Process |-> CHOOSE o \in Operation : TRUE]
    /\ handle = [p \in Process |-> FALSE]
    /\ prune = [v \in Viewer |-> {}]
    /\ raced = FALSE

Inside(p) == at[p] \in {"held", "guest"}

(* Somebody is between reading the file of o and acting on what was read. *)
Window(o) ==
    \/ \E p \in Process : key[p] = o /\ at[p] \in {"open", "write", "unlink"}
    \/ \E v \in Viewer : o \in prune[v]

_is_stale(r, o) ==
    \/ aged[o]
    \/ HostOf[file[o]] = HostOf[r] /\ at[file[o]] = "dead"

Readable(o) == file[o] \in Process

(* What a reader takes for a running operation. *)
Live(r, o) == Readable(o) /\ ~_is_stale(r, o)

Unlink(o) ==
    /\ file' = [file EXCEPT ![o] = Absent]
    /\ aged' = [aged EXCEPT ![o] = FALSE]
    /\ handle' = [p \in Process |-> handle[p] /\ key[p] # o]

-----------------------------------------------------------------------------
(* create_pending_op up to the decision: a live lock is left alone. *)
Check(p, o) ==
    /\ at[p] = "out"
    /\ key' = [key EXCEPT ![p] = o]
    /\ IF Live(p, o)
       THEN at' = [at EXCEPT ![p] = "guest"] /\ UNCHANGED raced
       ELSE /\ at' = [at EXCEPT ![p] = "open"]
            /\ raced' = (raced \/ Window(o))
    /\ UNCHANGED <<file, aged, handle, prune>>

(* write_text: the file is created or truncated ... *)
Open(p) ==
    /\ at[p] = "open"
    /\ file' = [file EXCEPT ![key[p]] = Torn]
    /\ aged' = [aged EXCEPT ![key[p]] = FALSE]
    /\ handle' = [handle EXCEPT ![p] = TRUE]
    /\ at' = [at EXCEPT ![p] = "write"]
    /\ UNCHANGED <<key, prune, raced>>

(* ... and then written, over what another writer of the same file has     *)
(* put there: the longer text leaves its tail.                             *)
Write(p) ==
    /\ at[p] = "write"
    /\ \/ ~handle[p] /\ UNCHANGED file
       \/ handle[p] /\ file' = [file EXCEPT ![key[p]] = p]
       \/ /\ handle[p]
          /\ Readable(key[p])
          /\ file' = [file EXCEPT ![key[p]] = Torn]
    /\ handle' = [handle EXCEPT ![p] = FALSE]
    /\ at' = [at EXCEPT ![p] = "held"]
    /\ UNCHANGED <<aged, key, prune, raced>>

(* The OSError of opening or writing is swallowed. *)
WriteError(p) ==
    /\ p \in IoFaults
    /\ at[p] \in {"open", "write"}
    /\ handle' = [handle EXCEPT ![p] = FALSE]
    /\ at' = [at EXCEPT ![p] = "guest"]
    /\ UNCHANGED <<file, aged, key, prune, raced>>

(* remove_pending_op up to the decision: only a readable file of another   *)
(* process is left alone.                                                  *)
LeaveAny(p) ==   \* mutant: the token is not compared
    /\ Inside(p)
    /\ at' = [at EXCEPT ![p] = "unlink"]
    /\ raced' = (raced \/ Window(key[p]))
    /\ UNCHANGED <<file, aged, key, handle, prune>>

LeaveOwn(p) ==   \* mutant: what cannot be removed at once is left behind
    /\ Inside(p)
    /\ at' = [at EXCEPT ![p] = "out"]
    /\ UNCHANGED <<file, aged, key, handle, prune, raced>>

Leave(p) ==
    /\ Inside(p)
    /\ IF Readable(key[p]) /\ file[key[p]] # p
       THEN at' = [at EXCEPT ![p] = "out"] /\ UNCHANGED raced
       ELSE /\ at' = [at EXCEPT ![p] = "unlink"]
            /\ raced' = (raced \/ Window(key[p]))
    /\ UNCHANGED <<file, aged, key, handle, prune>>

Remove(p) ==
    /\ at[p] = "unlink"
    /\ at' = [at EXCEPT ![p] = "out"]
    /\ \/ Unlink(key[p])
       \/ p \in IoFaults /\ UNCHANGED <<file, aged, handle>>
    /\ UNCHANGED <<key, prune, raced>>

-----------------------------------------------------------------------------
(* list_pending_ops reads one file: a corrupt or stale one is to go. *)
Read(v, o) ==
    /\ file[o] # Absent
    /\ o \notin prune[v]
    /\ ~Live(v, o)
    /\ prune' = [prune EXCEPT ![v] = @ \cup {o}]
    /\ raced' = (raced \/ Window(o))
    /\ UNCHANGED <<file, aged, at, key, handle>>

Prune(v, o) ==
    /\ o \in prune[v]
    /\ prune' = [prune EXCEPT ![v] = @ \ {o}]
    /\ Unlink(o)
    /\ UNCHANGED <<at, key, raced>>

(* The environment: a process is killed, a lock passes the age limit. *)
Die(p) ==
    /\ at[p] \notin {"out", "dead"}
    /\ at' = [at EXCEPT ![p] = "dead"]
    /\ handle' = [handle EXCEPT ![p] = FALSE]
    /\ UNCHANGED <<file, aged, key, prune, raced>>

Expire(o) ==
    /\ Readable(o)
    /\ o \in MayAge
    /\ ~aged[o]
    /\ aged' = [aged EXCEPT ![o] = TRUE]
    /\ raced' = (raced \/ at[file[o]] # "dead")
    /\ UNCHANGED <<file, at, key, handle, prune>>

Next ==
    \/ \E p \in Process :
        \/ \E o \in Operation : Check(p, o)
        \/ Open(p) \/ Write(p) \/ WriteError(p)
        \/ Leave(p) \/ Remove(p)
        \/ Die(p)
    \/ \E v \in Viewer, o \in Operation : Read(v, o) \/ Prune(v, o)
    \/ \E o \in Operation : Expire(o)

Spec == Init /\ [][Next]_pendingVars

-----------------------------------------------------------------------------
(* "Concurrent runs sharing a key never delete each other's lock": the     *)
(* lock of a running operation stays while it runs, whoever comes, leaves, *)
(* dies or looks at the list meanwhile, unless two of them read the file   *)
(* before either acted on it.                                              *)
HeldLockStays ==
    ~raced => \A p \in Process : at[p] = "held" => file[key[p]] = p

(* No lock outlives its operation: the file of a process that still runs,  *)
(* and whose unlink cannot fail, is that of the operation it is in.  A     *)
(* reader could not tell one that is left over from one that is running.   *)
LockEndsWithOwner ==
    \A o \in Operation :
        Readable(o) /\ file[o] \notin IoFaults =>
            key[file[o]] = o /\ at[file[o]] # "out"
=============================================================================
