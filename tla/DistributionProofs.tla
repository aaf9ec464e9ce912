------------------------- MODULE DistributionProofs -------------------------
(***************************************************************************)
(* Theorems about Distribution, for every cluster, set of sessions and     *)
(* number of faults: the part of a step that concerns the lock files is a  *)
(* step of PendingOps, so that what is proved there holds of every way a   *)
(* distribution goes on, fails, is interrupted or killed.                  *)
(***************************************************************************)
EXTENDS Distribution, FiniteSetTheorems, SequenceTheorems, TLAPS

(* The sessions touch the lock files only as pending_op does. *)
THEOREM UsesPendingOps == Spec => Lock!Spec
<1>1. Init => Lock!Init
  BY DEF Init
<1>2. [Next]_vars => [Lock!Next]_lockVars
  <2> SUFFICES ASSUME Next
               PROVE  [Lock!Next]_lockVars
    BY DEF vars
  <2>1. ASSUME NEW s \in Session, SessionStep(s)
        PROVE  [Lock!Next]_lockVars
    <3>1. CASE Start(s) \/ EnsureImage(s) \/ _filter_hosts_needing_image(s) \/ DownloadModel(s)
      BY <3>1 DEF Start, EnsureImage, _filter_hosts_needing_image, DownloadModel
    <3>2. CASE CheckIdentities(s) \/ PullOnHead(s) \/ DownloadOnHead(s)
      BY <3>2 DEF CheckIdentities, PullOnHead, DownloadOnHead
    <3>3. CASE Collect(s) \/ Proceed(s) \/ Interrupt(s)
      BY <3>3 DEF Collect, Proceed, Interrupt
    <3>4. ASSUME NEW n \in Node, Transfer(s, n)
          PROVE  UNCHANGED lockVars
      BY <3>4 DEF Transfer
    <3>5. CASE Die(s)
      BY <3>5 DEF Die, Lock!Next
    <3>6. CASE Locking(s)
      BY <3>6 DEF Locking, Lock!Next
    <3> QED
      BY <2>1, <3>1, <3>2, <3>3, <3>4, <3>5, <3>6 DEF SessionStep
  <2>2. ASSUME Viewing
        PROVE  [Lock!Next]_lockVars
    BY <2>2 DEF Viewing, Lock!Next
  <2>3. ASSUME Publish
        PROVE  [Lock!Next]_lockVars
    BY <2>3 DEF Publish
  <2> QED
    BY <2>1, <2>2, <2>3 DEF Next
<1> QED
  BY <1>1, <1>2, PTL DEF Spec, Lock!Spec, lockVars, Lock!pendingVars

-----------------------------------------------------------------------------
(* The locks keep their types. *)
LEMMA LockTypes ==
    ASSUME Lock!PendingAssumption
    PROVE  Lock!Spec => []Lock!TypeOK
<1>1. Lock!Init => Lock!TypeOK
  <2>1. (CHOOSE o \in Kind : TRUE) \in Kind
    BY DEF Lock!PendingAssumption
  <2> QED
    BY <2>1 DEF Lock!Init, Lock!TypeOK, Lock!Places
<1>2. Lock!TypeOK /\ [Lock!Next]_lockVars => Lock!TypeOK'
  <2> SUFFICES ASSUME Lock!TypeOK, [Lock!Next]_lockVars
               PROVE  Lock!TypeOK'
    OBVIOUS
  <2> USE DEF Lock!TypeOK, Lock!Places
  <2>1. CASE UNCHANGED lockVars
    BY <2>1 DEF lockVars
  <2>2. ASSUME NEW p \in Session, NEW o \in Kind, Lock!Check(p, o)
        PROVE  Lock!TypeOK'
    BY <2>2 DEF Lock!Check, Lock!Window
  <2>3. ASSUME NEW p \in Session, Lock!Open(p)
        PROVE  Lock!TypeOK'
    BY <2>3 DEF Lock!Open
  <2>4. ASSUME NEW p \in Session, Lock!Write(p)
        PROVE  Lock!TypeOK'
    BY <2>4 DEF Lock!Write
  <2>5. ASSUME NEW p \in Session, Lock!WriteError(p) \/ Lock!Die(p)
        PROVE  Lock!TypeOK'
    BY <2>5 DEF Lock!WriteError, Lock!Die
  <2>6. ASSUME NEW p \in Session, Lock!Leave(p)
        PROVE  Lock!TypeOK'
    BY <2>6 DEF Lock!Leave, Lock!Window
  <2>7. ASSUME NEW p \in Session, Lock!Remove(p)
        PROVE  Lock!TypeOK'
    BY <2>7 DEF Lock!Remove, Lock!Unlink
  <2>8. ASSUME NEW v \in Viewer, NEW o \in Kind, Lock!Read(v, o) \/ Lock!Prune(v, o)
        PROVE  Lock!TypeOK'
    <3>1. CASE Lock!Read(v, o)
      BY <3>1 DEF Lock!Read, Lock!Window
    <3>2. CASE Lock!Prune(v, o)
      BY <3>2 DEF Lock!Prune, Lock!Unlink
    <3> QED
      BY <2>8, <3>1, <3>2
  <2>9. ASSUME NEW o \in Kind, Lock!Expire(o)
        PROVE  Lock!TypeOK'
    BY <2>9 DEF Lock!Expire
  <2> QED
    BY <2>1, <2>2, <2>3, <2>4, <2>5, <2>6, <2>7, <2>8, <2>9 DEF Lock!Next
<1> QED
  BY <1>1, <1>2, PTL DEF Lock!Spec, lockVars, Lock!pendingVars

(* No lock outlives its operation: whoever leaves takes the file along or  *)
(* leaves another's.                                                       *)
LEMMA LockFileEnds ==
    ASSUME Lock!PendingAssumption
    PROVE  Lock!Spec => []Lock!LockEndsWithOwner
<1>1. Lock!Init => Lock!LockEndsWithOwner
  BY DEF Lock!PendingAssumption, Lock!Init, Lock!LockEndsWithOwner, Lock!Readable
<1>2. Lock!TypeOK /\ Lock!LockEndsWithOwner /\ [Lock!Next]_lockVars => Lock!LockEndsWithOwner'
  <2> SUFFICES ASSUME Lock!TypeOK, Lock!LockEndsWithOwner, [Lock!Next]_lockVars
               PROVE  Lock!LockEndsWithOwner'
    OBVIOUS
  <2> USE DEF Lock!PendingAssumption, Lock!TypeOK, Lock!LockEndsWithOwner, Lock!Readable
  <2>1. CASE UNCHANGED lockVars
    BY <2>1 DEF lockVars
  <2>2. ASSUME NEW p \in Session, NEW o \in Kind, Lock!Check(p, o)
        PROVE  Lock!LockEndsWithOwner'
    BY <2>2 DEF Lock!Check
  <2>3. ASSUME NEW p \in Session, Lock!Open(p)
        PROVE  Lock!LockEndsWithOwner'
    BY <2>3 DEF Lock!Open
  <2>4. ASSUME NEW p \in Session, Lock!Write(p)
        PROVE  Lock!LockEndsWithOwner'
    BY <2>4 DEF Lock!Write
  <2>5. ASSUME NEW p \in Session, Lock!WriteError(p) \/ Lock!Die(p)
        PROVE  Lock!LockEndsWithOwner'
    BY <2>5 DEF Lock!WriteError, Lock!Die
  <2>6. ASSUME NEW p \in Session, Lock!Leave(p)
        PROVE  Lock!LockEndsWithOwner'
    BY <2>6 DEF Lock!Leave, Lock!Inside
  <2>7. ASSUME NEW p \in Session, Lock!Remove(p)
        PROVE  Lock!LockEndsWithOwner'
    BY <2>7 DEF Lock!Remove, Lock!Unlink
  <2>8. ASSUME NEW v \in Viewer, NEW o \in Kind, Lock!Read(v, o) \/ Lock!Prune(v, o)
        PROVE  Lock!LockEndsWithOwner'
    BY <2>8 DEF Lock!Read, Lock!Prune, Lock!Unlink
  <2>9. ASSUME NEW o \in Kind, Lock!Expire(o)
        PROVE  Lock!LockEndsWithOwner'
    BY <2>9 DEF Lock!Expire
  <2> QED
    BY <2>1, <2>2, <2>3, <2>4, <2>5, <2>6, <2>7, <2>8, <2>9 DEF Lock!Next
<1>3. Lock!Spec => []Lock!TypeOK
  BY LockTypes
<1> QED
  BY <1>1, <1>2, <1>3, PTL DEF Lock!Spec, lockVars, Lock!pendingVars

-----------------------------------------------------------------------------
(* The strengthening of HeldLockStays: outside a race a file has one       *)
(* window at a time, none while its lock is held; a process that writes    *)
(* has the file to itself, under its path, not aged; and only the lock of  *)
(* a dead process is too old.                                              *)
InWindow(p) == at[p] \in {"open", "write", "unlink"}

OneWindow ==
    /\ \A p, q \in Session : InWindow(p) /\ InWindow(q) /\ key[p] = key[q] => p = q
    /\ \A v, w \in Viewer, o \in Kind : o \in prune[v] /\ o \in prune[w] => v = w
    /\ \A p \in Session, v \in Viewer : InWindow(p) => key[p] \notin prune[v]

WritesAlone ==
    \A p \in Session : at[p] = "write" => handle[p] /\ file[key[p]] = Torn /\ ~aged[key[p]]

HeldAlone == \A p \in Session : at[p] = "held" => file[key[p]] = p /\ ~Lock!Window(key[p])

OnlyDeadAge == \A o \in Kind : aged[o] /\ Lock!Readable(o) => at[file[o]] = "dead"

PendingInv == ~raced => OneWindow /\ WritesAlone /\ HeldAlone /\ OnlyDeadAge

(* Who finds the lock of a running operation leaves it alone. *)
LEMMA HeldIsLive ==
    ASSUME Lock!TypeOK, PendingInv, ~raced, NEW p \in Session, NEW r, at[p] = "held"
    PROVE  Lock!Live(r, key[p]) /\ file[key[p]] = p
BY DEF Lock!TypeOK, PendingInv, HeldAlone, OnlyDeadAge, Lock!Live, Lock!Readable, Lock!_is_stale

(* The lock of a running operation stays while it runs. *)
LEMMA LockFileStays ==
    ASSUME Lock!PendingAssumption
    PROVE  Lock!Spec => []Lock!HeldLockStays
<1>1. Lock!Init => PendingInv
  BY DEF Lock!PendingAssumption, Lock!Init, PendingInv, OneWindow, WritesAlone, HeldAlone, OnlyDeadAge,
     InWindow, Lock!Readable, Lock!Window
<1>2. Lock!TypeOK /\ PendingInv /\ [Lock!Next]_lockVars => PendingInv'
  <2> SUFFICES ASSUME Lock!TypeOK, PendingInv, [Lock!Next]_lockVars, ~raced'
               PROVE  (OneWindow /\ WritesAlone /\ HeldAlone /\ OnlyDeadAge)'
    BY DEF PendingInv
  <2>a. Absent \notin Session /\ Torn \notin Session /\ Absent # Torn
    BY DEF Lock!PendingAssumption
  <2> USE <2>a DEF Lock!TypeOK, Lock!Readable, InWindow
  <2>0. ~raced => OneWindow /\ WritesAlone /\ HeldAlone /\ OnlyDeadAge
    BY DEF PendingInv
  <2>1. CASE UNCHANGED lockVars
    BY <2>0, <2>1 DEF lockVars, OneWindow, WritesAlone, HeldAlone, OnlyDeadAge, Lock!Window
  <2>2. ASSUME NEW p \in Session, NEW o \in Kind, Lock!Check(p, o)
        PROVE  (OneWindow /\ WritesAlone /\ HeldAlone /\ OnlyDeadAge)'
    <3>1. ~raced /\ OneWindow /\ WritesAlone /\ HeldAlone /\ OnlyDeadAge
      BY <2>0, <2>2 DEF Lock!Check
    <3>2. at'[p] = "open" => ~Lock!Window(o) /\ \A q \in Session : at[q] = "held" => key[q] # o
      <4>1. \A q \in Session : at[q] = "held" => Lock!Live(p, key[q])
        BY <3>1, HeldIsLive
      <4>2. at'[p] = "open" => ~Lock!Live(p, o) /\ ~Lock!Window(o)
        BY <2>2 DEF Lock!Check
      <4> QED
        BY <4>1, <4>2
    <3>3. OneWindow'
      BY <2>2, <3>1, <3>2 DEF Lock!Check, OneWindow, Lock!Window
    <3>4. WritesAlone' /\ OnlyDeadAge'
      BY <2>2, <3>1 DEF Lock!Check, WritesAlone, OnlyDeadAge
    <3>5. HeldAlone'
      BY <2>2, <3>1, <3>2 DEF Lock!Check, HeldAlone, Lock!Window
    <3> QED
      BY <3>3, <3>4, <3>5
  <2>3. ASSUME NEW p \in Session, Lock!Open(p)
        PROVE  (OneWindow /\ WritesAlone /\ HeldAlone /\ OnlyDeadAge)'
    <3>1. ~raced /\ OneWindow /\ WritesAlone /\ HeldAlone /\ OnlyDeadAge
      BY <2>0, <2>3 DEF Lock!Open
    <3>2. OneWindow'
      BY <2>3, <3>1 DEF Lock!Open, OneWindow
    <3>3. WritesAlone'
      BY <2>3, <3>1 DEF Lock!Open, WritesAlone, OneWindow
    <3>4. HeldAlone'
      BY <2>3, <3>1 DEF Lock!Open, HeldAlone, Lock!Window
    <3>5. OnlyDeadAge'
      BY <2>3, <3>1 DEF Lock!Open, OnlyDeadAge
    <3> QED
      BY <3>2, <3>3, <3>4, <3>5
  <2>4. ASSUME NEW p \in Session, Lock!Write(p)
        PROVE  (OneWindow /\ WritesAlone /\ HeldAlone /\ OnlyDeadAge)'
    <3>1. ~raced /\ OneWindow /\ WritesAlone /\ HeldAlone /\ OnlyDeadAge
      BY <2>0, <2>4 DEF Lock!Write
    <3>2. file' = [file EXCEPT ![key[p]] = p] /\ ~aged[key[p]]
      BY <2>4, <3>1 DEF Lock!Write, WritesAlone
    <3>3. OneWindow'
      BY <2>4, <3>1 DEF Lock!Write, OneWindow
    <3>4. WritesAlone'
      BY <2>4, <3>1, <3>2 DEF Lock!Write, WritesAlone, OneWindow
    <3>5. HeldAlone'
      BY <2>4, <3>1, <3>2 DEF Lock!Write, HeldAlone, OneWindow, Lock!Window
    <3>6. OnlyDeadAge'
      BY <2>4, <3>1, <3>2 DEF Lock!Write, OnlyDeadAge
    <3> QED
      BY <3>3, <3>4, <3>5, <3>6
  <2>5. ASSUME NEW p \in Session, Lock!WriteError(p) \/ Lock!Die(p)
        PROVE  (OneWindow /\ WritesAlone /\ HeldAlone /\ OnlyDeadAge)'
    <3>1. ~raced /\ OneWindow /\ WritesAlone /\ HeldAlone /\ OnlyDeadAge
      BY <2>0, <2>5 DEF Lock!WriteError, Lock!Die
    <3> QED
      BY <2>5, <3>1 DEF Lock!WriteError, Lock!Die, OneWindow, WritesAlone, HeldAlone, OnlyDeadAge, Lock!Window
  <2>6. ASSUME NEW p \in Session, Lock!Leave(p)
        PROVE  (OneWindow /\ WritesAlone /\ HeldAlone /\ OnlyDeadAge)'
    <3>1. ~raced /\ OneWindow /\ WritesAlone /\ HeldAlone /\ OnlyDeadAge
      BY <2>0, <2>6 DEF Lock!Leave
    <3>2. at'[p] = "unlink" =>
            /\ ~Lock!Window(key[p])
            /\ \A q \in Session \ {p} : at[q] = "held" => key[q] # key[p]
      BY <2>6, <3>1 DEF Lock!Leave, HeldAlone
    <3>3. OneWindow'
      BY <2>6, <3>1, <3>2 DEF Lock!Leave, OneWindow, Lock!Window
    <3>4. WritesAlone' /\ OnlyDeadAge'
      BY <2>6, <3>1 DEF Lock!Leave, Lock!Inside, WritesAlone, OnlyDeadAge
    <3>5. HeldAlone'
      BY <2>6, <3>1, <3>2 DEF Lock!Leave, HeldAlone, Lock!Window
    <3> QED
      BY <3>3, <3>4, <3>5
  <2>7. ASSUME NEW p \in Session, Lock!Remove(p)
        PROVE  (OneWindow /\ WritesAlone /\ HeldAlone /\ OnlyDeadAge)'
    <3>1. ~raced /\ OneWindow /\ WritesAlone /\ HeldAlone /\ OnlyDeadAge
      BY <2>0, <2>7 DEF Lock!Remove
    <3>2. OneWindow'
      BY <2>7, <3>1 DEF Lock!Remove, OneWindow
    <3>3. WritesAlone'
      BY <2>7, <3>1 DEF Lock!Remove, Lock!Unlink, WritesAlone, OneWindow
    <3>4. HeldAlone'
      BY <2>7, <3>1 DEF Lock!Remove, Lock!Unlink, HeldAlone, Lock!Window
    <3>5. OnlyDeadAge'
      BY <2>7, <3>1 DEF Lock!Remove, Lock!Unlink, OnlyDeadAge
    <3> QED
      BY <3>2, <3>3, <3>4, <3>5
  <2>8. ASSUME NEW v \in Viewer, NEW o \in Kind, Lock!Read(v, o)
        PROVE  (OneWindow /\ WritesAlone /\ HeldAlone /\ OnlyDeadAge)'
    <3>1. ~raced /\ ~Lock!Window(o) /\ OneWindow /\ WritesAlone /\ HeldAlone /\ OnlyDeadAge
      BY <2>0, <2>8 DEF Lock!Read
    <3>2. \A q \in Session : at[q] = "held" => key[q] # o
      BY <2>8, <3>1, HeldIsLive DEF Lock!Read
    <3>3. OneWindow'
      BY <2>8, <3>1 DEF Lock!Read, OneWindow, Lock!Window
    <3>4. WritesAlone' /\ OnlyDeadAge'
      BY <2>8, <3>1 DEF Lock!Read, WritesAlone, OnlyDeadAge
    <3>5. HeldAlone'
      BY <2>8, <3>1, <3>2 DEF Lock!Read, HeldAlone, Lock!Window
    <3> QED
      BY <3>3, <3>4, <3>5
  <2>9. ASSUME NEW v \in Viewer, NEW o \in Kind, Lock!Prune(v, o)
        PROVE  (OneWindow /\ WritesAlone /\ HeldAlone /\ OnlyDeadAge)'
    <3>1. ~raced /\ OneWindow /\ WritesAlone /\ HeldAlone /\ OnlyDeadAge
      BY <2>0, <2>9 DEF Lock!Prune
    <3>2. OneWindow'
      BY <2>9, <3>1 DEF Lock!Prune, OneWindow
    <3>3. WritesAlone'
      BY <2>9, <3>1 DEF Lock!Prune, Lock!Unlink, WritesAlone, OneWindow
    <3>4. HeldAlone'
      BY <2>9, <3>1 DEF Lock!Prune, Lock!Unlink, HeldAlone, Lock!Window
    <3>5. OnlyDeadAge'
      BY <2>9, <3>1 DEF Lock!Prune, Lock!Unlink, OnlyDeadAge
    <3> QED
      BY <3>2, <3>3, <3>4, <3>5
  <2>10. ASSUME NEW o \in Kind, Lock!Expire(o)
         PROVE  (OneWindow /\ WritesAlone /\ HeldAlone /\ OnlyDeadAge)'
    <3>1. ~raced /\ OneWindow /\ WritesAlone /\ HeldAlone /\ OnlyDeadAge
      BY <2>0, <2>10 DEF Lock!Expire
    <3>2. OneWindow' /\ WritesAlone'
      BY <2>10, <3>1 DEF Lock!Expire, OneWindow, WritesAlone
    <3>3. HeldAlone'
      BY <2>10, <3>1 DEF Lock!Expire, HeldAlone, Lock!Window
    <3>4. OnlyDeadAge'
      BY <2>10, <3>1 DEF Lock!Expire, OnlyDeadAge
    <3> QED
      BY <3>2, <3>3, <3>4
  <2> QED
    BY <2>1, <2>2, <2>3, <2>4, <2>5, <2>6, <2>7, <2>8, <2>9, <2>10 DEF Lock!Next
<1>3. PendingInv => Lock!HeldLockStays
  BY DEF PendingInv, HeldAlone, Lock!HeldLockStays
<1>4. Lock!Spec => []Lock!TypeOK
  BY LockTypes
<1> QED
  BY <1>1, <1>2, <1>3, <1>4, PTL DEF Lock!Spec, lockVars, Lock!pendingVars

(* While a session is inside a block, its lock stays. *)
THEOREM LocksHeld == Spec => []HeldLockStays
<1>1. Lock!Spec => []Lock!HeldLockStays
  BY DistributionAssumption, LockFileStays
<1> QED
  BY <1>1, UsesPendingOps, PTL DEF HeldLockStays

(* No lock outlives the entry it was written for. *)
THEOREM LocksEnd == Spec => []LockEndsWithOwner
<1>1. Lock!Spec => []Lock!LockEndsWithOwner
  BY DistributionAssumption, LockFileEnds
<1> QED
  BY <1>1, UsesPendingOps, PTL DEF LockEndsWithOwner

-----------------------------------------------------------------------------
(* The hosts and the lists of targets a request may have. *)
LEMMA Cluster ==
    /\ Hosts \in Seq(Elements(Hosts)) /\ Len(Hosts) \in Nat \ {0}
    /\ DOMAIN Hosts = 1 .. Len(Hosts)
    /\ Elements(Hosts) \subseteq Node /\ Control \in Node
BY DistributionAssumption DEF Node

LEMMA Targets ==
  ASSUME NEW q \in Request
  PROVE  /\ q.targets \in Seq(Elements(Hosts)) /\ Len(q.targets) \in Nat \ {0}
         /\ DOMAIN q.targets = 1 .. Len(q.targets)
         /\ \A i, k \in DOMAIN q.targets : q.targets[i] = q.targets[k] => i = k
<1>1. PICK n \in 1 .. Len(Hosts) : q.targets \in [1 .. n -> Elements(Hosts)]
  BY DEF Request
<1>2. n \in Nat \ {0}
  BY Cluster
<1>3. \A i, k \in DOMAIN q.targets : q.targets[i] = q.targets[k] => i = k
  BY DEF Request
<1> QED
  BY <1>1, <1>2, <1>3

(* The head of the targets and the workers behind it.                      *)
LEMMA HeadAndWorkers ==
  ASSUME NEW q \in Request
  PROVE  /\ Head(q.targets) \in Elements(q.targets)
         /\ Elements(q.targets) = {Head(q.targets)} \cup Elements(Tail(q.targets))
         /\ Head(q.targets) \notin Elements(Tail(q.targets))
         /\ Len(q.targets) = 1 => Elements(Tail(q.targets)) = {}
         /\ Elements(q.targets) \subseteq Elements(Hosts)
<1>1. /\ q.targets \in Seq(Elements(Hosts)) /\ Len(q.targets) \in Nat \ {0}
      /\ DOMAIN q.targets = 1 .. Len(q.targets)
      /\ \A i, k \in DOMAIN q.targets : q.targets[i] = q.targets[k] => i = k
  BY Targets
<1>2. /\ Head(q.targets) = q.targets[1]
      /\ DOMAIN Tail(q.targets) = 1 .. Len(q.targets) - 1
      /\ \A i \in 1 .. Len(q.targets) - 1 : Tail(q.targets)[i] = q.targets[i + 1]
  BY <1>1
<1>3. ASSUME NEW h \in Elements(q.targets)
      PROVE  h = Head(q.targets) \/ h \in Elements(Tail(q.targets))
  <2>1. PICK i \in DOMAIN q.targets : h = q.targets[i]
    BY DEF Elements
  <2>2. i = 1 \/ i - 1 \in 1 .. Len(q.targets) - 1
    BY <1>1
  <2>3. ASSUME i # 1
        PROVE  h = Tail(q.targets)[i - 1]
    BY <1>1, <1>2, <2>1, <2>2, <2>3
  <2> QED
    BY <1>2, <2>1, <2>2, <2>3 DEF Elements
<1>4. ASSUME NEW h \in Elements(Tail(q.targets))
      PROVE  h \in Elements(q.targets) /\ h # Head(q.targets)
  <2>1. PICK i \in 1 .. Len(q.targets) - 1 : h = q.targets[i + 1]
    BY <1>2 DEF Elements
  <2>2. i + 1 \in DOMAIN q.targets /\ 1 \in DOMAIN q.targets /\ i + 1 # 1
    BY <1>1
  <2> QED
    BY <1>1, <1>2, <2>1, <2>2 DEF Elements
<1>5. Head(q.targets) \in Elements(q.targets)
  BY <1>1, <1>2 DEF Elements
<1>6. Len(q.targets) = 1 => Elements(Tail(q.targets)) = {}
  BY <1>1, <1>2 DEF Elements
<1>7. Elements(q.targets) \subseteq Elements(Hosts)
  <2>1. \A i \in DOMAIN q.targets : q.targets[i] \in Elements(Hosts)
    BY <1>1
  <2> QED
    BY <2>1 DEF Elements
<1> QED
  BY <1>3, <1>4, <1>5, <1>6, <1>7

-----------------------------------------------------------------------------
(* The places _subset_transfer_hosts gives to the hosts it keeps.          *)
Kept(hosts, q) == {i \in DOMAIN hosts : hosts[i] \in Elements(q.targets)}
Place(K, i) == Cardinality({k \in K : k <= i})

LEMMA Subset ==
  ASSUME NEW hosts, NEW q
  PROVE  _subset_transfer_hosts(hosts, q) =
           [n \in 1 .. Cardinality(Kept(hosts, q)) |->
              hosts[CHOOSE i \in Kept(hosts, q) : Place(Kept(hosts, q), i) = n]]
BY Zenon DEF _subset_transfer_hosts, Kept, Place

(* A later index has a later place. *)
LEMMA PlaceGrows ==
  ASSUME NEW K \in SUBSET Nat, IsFiniteSet(K), NEW i \in K, NEW k \in K, i < k
  PROVE  Place(K, i) < Place(K, k)
<1> DEFINE A == {x \in K : x <= i}  B == {x \in K : x <= k}
<1>1. A \subseteq B /\ k \in B /\ k \notin A
  <2>1. i \in Nat /\ k \in Nat /\ k <= k /\ ~(k <= i)
    OBVIOUS
  <2>2. \A x \in K : x <= i => x <= k
    OBVIOUS
  <2> QED
    BY <2>1, <2>2, Zenon
<1>2. IsFiniteSet(A) /\ IsFiniteSet(B)
  <2>1. A \in SUBSET K /\ B \in SUBSET K
    OBVIOUS
  <2> HIDE DEF A, B
  <2> QED
    BY <2>1, FS_Subset
<1>3. Cardinality(A) <= Cardinality(B) /\ Cardinality(A) # Cardinality(B)
  <2> HIDE DEF A, B
  <2> QED
    BY <1>1, <1>2, FS_Subset
<1>4. Cardinality(A) \in Nat /\ Cardinality(B) \in Nat
  <2> HIDE DEF A, B
  <2> QED
    BY <1>2, FS_CardinalityType
<1> QED
  BY <1>3, <1>4 DEF Place

(* Every place up to the number of hosts kept is the place of one of them. *)
LEMMA EveryPlace ==
  ASSUME NEW K \in SUBSET Nat, IsFiniteSet(K)
  PROVE  /\ Cardinality(K) \in Nat
         /\ \A i \in K : Place(K, i) \in 1 .. Cardinality(K)
         /\ \A n \in 1 .. Cardinality(K) : \E i \in K : Place(K, i) = n
<1>1. Cardinality(K) \in Nat
  BY FS_CardinalityType
<1>2. ASSUME NEW i \in K
      PROVE  Place(K, i) \in 1 .. Cardinality(K)
  <2> DEFINE A == {x \in K : x <= i}
  <2>1. A \in SUBSET K /\ i \in A
    OBVIOUS
  <2> HIDE DEF A
  <2>2. IsFiniteSet(A) /\ Cardinality(A) <= Cardinality(K)
    BY <2>1, FS_Subset
  <2>3. Cardinality(A) \in Nat /\ Cardinality(A) # 0
    BY <2>1, <2>2, FS_CardinalityType, FS_EmptySet
  <2>4. Place(K, i) = Cardinality(A)
    BY DEF Place, A
  <2> QED
    BY <1>1, <2>2, <2>3, <2>4
<1> DEFINE f == [i \in K |-> Place(K, i)]  I == 1 .. Cardinality(K)
<1>3. IsFiniteSet(I) /\ Cardinality(I) = Cardinality(K)
  BY <1>1, FS_Interval
<1>4. f \in Injection(K, I)
  <2>1. \A i, k \in K : f[i] = f[k] => i = k
    <3> SUFFICES ASSUME NEW i \in K, NEW k \in K, f[i] = f[k], i # k
                 PROVE  FALSE
      OBVIOUS
    <3>1. i < k \/ k < i
      OBVIOUS
    <3>2. Place(K, i) \in Nat /\ Place(K, k) \in Nat
      BY <1>2
    <3> QED
      BY <3>1, <3>2, PlaceGrows
  <2>2. f \in [K -> I]
    BY <1>2
  <2> QED
    BY <2>1, <2>2 DEF Injection, IsInjective
<1>5. f \in Surjection(K, I)
  <2> HIDE DEF f, I
  <2> QED
    BY <1>3, <1>4, FS_Injection
<1>6. \A n \in I : \E i \in K : f[i] = n
  BY <1>5 DEF Surjection
<1> QED
  BY <1>1, <1>2, <1>6

(* The indices kept in a sequence are finitely many. *)
LEMMA FinitelyMany ==
  ASSUME NEW hosts \in Seq(Elements(Hosts)), NEW q
  PROVE  Kept(hosts, q) \in SUBSET Nat /\ IsFiniteSet(Kept(hosts, q))
<1>1. Kept(hosts, q) \in SUBSET (1 .. Len(hosts)) /\ Len(hosts) \in Nat
  BY DEF Kept
<1>2. IsFiniteSet(1 .. Len(hosts))
  BY <1>1, FS_Interval
<1> QED
  BY <1>1, <1>2, FS_Subset

(* What is kept comes from the sequence. *)
LEMMA SubsetOfHosts ==
  ASSUME NEW hosts \in Seq(Elements(Hosts)), NEW q
  PROVE  Elements(_subset_transfer_hosts(hosts, q)) \subseteq Elements(hosts)
<1> DEFINE K == Kept(hosts, q)
<1>1. K \in SUBSET Nat /\ IsFiniteSet(K) /\ K \subseteq DOMAIN hosts
  BY FinitelyMany DEF Kept
<1> HIDE DEF K
<1>2. \A n \in 1 .. Cardinality(K) : \E i \in K : Place(K, i) = n
  BY <1>1, EveryPlace
<1>3. ASSUME NEW n \in 1 .. Cardinality(K)
      PROVE  hosts[CHOOSE i \in K : Place(K, i) = n] \in Elements(hosts)
  <2>1. (CHOOSE i \in K : Place(K, i) = n) \in K
    BY <1>2, Zenon
  <2> QED
    BY <1>1, <2>1 DEF Elements
<1>4. _subset_transfer_hosts(hosts, q) =
        [n \in 1 .. Cardinality(K) |-> hosts[CHOOSE i \in K : Place(K, i) = n]]
  BY Subset, Zenon DEF K
<1> SUFFICES ASSUME NEW n \in DOMAIN _subset_transfer_hosts(hosts, q)
             PROVE  _subset_transfer_hosts(hosts, q)[n] \in Elements(hosts)
  BY Zenon DEF Elements
<1>5. n \in 1 .. Cardinality(K)
  BY <1>4, Zenon
<1> QED
  BY <1>3, <1>4, <1>5, Zenon

(* Moving a set of positive numbers down by one keeps its size. *)
LEMMA Shifted ==
  ASSUME NEW K \in SUBSET (Nat \ {0}), IsFiniteSet(K), NEW T, T = {i \in Nat : i + 1 \in K}
  PROVE  Cardinality(T) = Cardinality(K)
<1> DEFINE f == [k \in K |-> k - 1]
<1>1. f \in [K -> T]
  OBVIOUS
<1>2. \A a, b \in K : f[a] = f[b] => a = b
  OBVIOUS
<1>3. ASSUME NEW t \in T
      PROVE  \E k \in K : f[k] = t
  <2>1. t + 1 \in K /\ f[t + 1] = t
    OBVIOUS
  <2> QED
    BY <2>1
<1>4. f \in Bijection(K, T)
  BY <1>1, <1>2, <1>3 DEF Bijection, Injection, Surjection, IsInjective
<1> QED
  BY <1>4, FS_Bijection DEF ExistsBijection

(* When positions in the targets are positions in the addresses, the       *)
(* workers are reached at their own addresses.                             *)
LEMMA AlignedWorkers ==
  ASSUME NEW q \in Request, Aligned(q)
  PROVE  worker_transfer_hosts(q) = Tail(q.targets)
<1> SUFFICES ASSUME q.ib
             PROVE  _subset_transfer_hosts(Tail(Hosts), q) = Tail(q.targets)
  BY DEF worker_transfer_hosts
<1> DEFINE K == Kept(Hosts, q)  L == Kept(Tail(Hosts), q)
<1>1. /\ Head(q.targets) = Head(Hosts)
      /\ q.targets = _subset_transfer_hosts(Hosts, q)
  BY DEF Aligned
<1>2. /\ Hosts \in Seq(Elements(Hosts)) /\ Len(Hosts) \in Nat \ {0}
      /\ Tail(Hosts) \in Seq(Elements(Hosts)) /\ Head(Hosts) = Hosts[1]
      /\ DOMAIN Hosts = 1 .. Len(Hosts) /\ DOMAIN Tail(Hosts) = 1 .. Len(Hosts) - 1
      /\ \A i \in 1 .. Len(Hosts) - 1 : Tail(Hosts)[i] = Hosts[i + 1]
  BY Cluster
<1>3. /\ K \in SUBSET Nat /\ IsFiniteSet(K)
      /\ L \in SUBSET Nat /\ IsFiniteSet(L)
  BY <1>2, FinitelyMany
<1>4. 1 \in K /\ K \subseteq 1 .. Len(Hosts) /\ L \subseteq DOMAIN Tail(Hosts)
  <2>1. Hosts[1] \in Elements(q.targets)
    BY <1>1, <1>2, HeadAndWorkers
  <2> QED
    BY <1>2, <2>1 DEF Kept
<1>5. ASSUME NEW i \in Nat
      PROVE  i \in L <=> i + 1 \in K \ {1}
  BY <1>2 DEF Kept
<1>6. q.targets = [n \in 1 .. Cardinality(K) |-> Hosts[CHOOSE i \in K : Place(K, i) = n]]
  BY <1>1, Subset, Zenon
<1>7. _subset_transfer_hosts(Tail(Hosts), q) =
        [n \in 1 .. Cardinality(L) |-> Tail(Hosts)[CHOOSE i \in L : Place(L, i) = n]]
  BY Subset, Zenon
<1> HIDE DEF K, L
<1>8. Cardinality(L) = Cardinality(K) - 1 /\ Cardinality(K) \in Nat
  <2>1. K \ {1} \in SUBSET (Nat \ {0})
    BY <1>2, <1>3, <1>4
  <2>2. IsFiniteSet(K \ {1}) /\ Cardinality(K \ {1}) = Cardinality(K) - 1
    <3>1. IsFiniteSet(K) /\ 1 \in K
      BY <1>3, <1>4
    <3> QED
      BY ONLY <3>1, FS_RemoveElement
  <2>3. L = {i \in Nat : i + 1 \in K \ {1}}
    BY <1>3, <1>5
  <2>4. Cardinality(L) = Cardinality(K \ {1})
    BY <2>1, <2>2, <2>3, Shifted
  <2> QED
    BY <1>3, <2>2, <2>4, FS_CardinalityType
<1>9. ASSUME NEW i \in L
      PROVE  Place(K, i + 1) = Place(L, i) + 1
  <2> DEFINE A == {k \in K : k <= i + 1}  B == {k \in L : k <= i}
  <2>1. A \in SUBSET K /\ 1 \in A /\ i \in Nat
    BY <1>3, <1>4
  <2>2. IsFiniteSet(A) /\ Cardinality(A) \in Nat
    <3> HIDE DEF A
    <3> QED
      BY <1>3, <2>1, FS_Subset, FS_CardinalityType
  <2>3. IsFiniteSet(A \ {1}) /\ Cardinality(A \ {1}) = Cardinality(A) - 1
    <3> HIDE DEF A
    <3> QED
      BY <2>1, <2>2, FS_RemoveElement
  <2>4. A \ {1} \in SUBSET (Nat \ {0})
    <3>1. \A k \in K : k \in Nat \ {0}
      BY <1>2, <1>4
    <3> QED
      BY <2>1, <3>1, Zenon
  <2>5. B = {k \in Nat : k + 1 \in A \ {1}}
    <3>1. ASSUME NEW k \in Nat
          PROVE  k \in B <=> k + 1 \in A \ {1}
      BY <1>5, <2>1
    <3> QED
      BY <1>3, <3>1
  <2>6. Cardinality(B) = Cardinality(A \ {1})
    <3> HIDE DEF A, B
    <3> QED
      BY <2>3, <2>4, <2>5, Shifted
  <2> QED
    BY <2>2, <2>3, <2>6 DEF Place
<1>10. ASSUME NEW n \in 1 .. Cardinality(K) - 1
       PROVE  Tail(Hosts)[CHOOSE i \in L : Place(L, i) = n] =
                Hosts[CHOOSE i \in K : Place(K, i) = n + 1]
  <2> DEFINE a == CHOOSE i \in L : Place(L, i) = n
             b == CHOOSE i \in K : Place(K, i) = n + 1
  <2>1. (\E i \in L : Place(L, i) = n) /\ (\E i \in K : Place(K, i) = n + 1)
    BY <1>3, <1>8, EveryPlace
  <2>2. a \in L /\ Place(L, a) = n /\ b \in K /\ Place(K, b) = n + 1
    BY <2>1, Zenon
  <2> HIDE DEF a, b
  <2>3. a + 1 \in K /\ Place(K, a + 1) = n + 1
    BY <1>3, <1>5, <1>9, <2>2
  <2>4. a + 1 = b
    <3> SUFFICES ASSUME a + 1 # b
                 PROVE  FALSE
      OBVIOUS
    <3>1. a + 1 < b \/ b < a + 1
      BY <1>3, <2>2, <2>3
    <3> QED
      BY <1>3, <2>2, <2>3, <3>1, PlaceGrows
  <2>5. Tail(Hosts)[a] = Hosts[b]
    BY <1>2, <1>4, <2>2, <2>4
  <2> QED
    BY <2>5 DEF a, b
<1>11. ASSUME NEW n \in 1 .. Cardinality(K) - 1
       PROVE  Tail(q.targets)[n] = Hosts[CHOOSE i \in K : Place(K, i) = n + 1]
  <2>1. Len(q.targets) = Cardinality(K) /\ q.targets \in Seq(Elements(Hosts))
    BY <1>6, <1>8, Targets
  <2>2. Tail(q.targets)[n] = q.targets[n + 1] /\ n + 1 \in 1 .. Cardinality(K)
    BY <1>8, <2>1
  <2> DEFINE place(m) == Hosts[CHOOSE i \in K : Place(K, i) = m]
  <2>3. q.targets = [m \in 1 .. Cardinality(K) |-> place(m)]
    BY <1>6, Zenon
  <2> HIDE DEF place
  <2>4. Tail(q.targets)[n] = place(n + 1)
    BY <2>2, <2>3
  <2> QED
    BY <2>4, Zenon DEF place
<1>12. DOMAIN Tail(q.targets) = 1 .. Cardinality(K) - 1
  <2>1. DOMAIN q.targets = 1 .. Cardinality(K) /\ q.targets \in Seq(Elements(Hosts))
    BY <1>6, Targets
  <2>2. Len(q.targets) = Cardinality(K)
    BY <1>8, <2>1
  <2> QED
    BY <1>8, <2>1, <2>2
<1>13. Tail(q.targets) = [n \in DOMAIN Tail(q.targets) |-> Tail(q.targets)[n]]
  <2>1. Tail(q.targets) \in Seq(Elements(Hosts))
    BY Targets
  <2>2. Tail(q.targets) \in [1 .. Len(Tail(q.targets)) -> Elements(Hosts)]
    BY <2>1, LenProperties
  <2> QED
    BY <2>2
<1> DEFINE w == _subset_transfer_hosts(Tail(Hosts), q)
<1>14. w = [n \in 1 .. Cardinality(K) - 1 |-> Hosts[CHOOSE i \in K : Place(K, i) = n + 1]]
  BY <1>7, <1>8, <1>10
<1>15. Tail(q.targets) =
         [n \in 1 .. Cardinality(K) - 1 |-> Hosts[CHOOSE i \in K : Place(K, i) = n + 1]]
  BY <1>11, <1>12, <1>13
<1> QED
  BY <1>14, <1>15

-----------------------------------------------------------------------------
(* The records the legs of an entry make of a job. *)
LEMMA WorkerAddresses ==
  ASSUME NEW q \in Request
  PROVE  Elements(worker_transfer_hosts(q)) \subseteq Node /\ Elements(Tail(q.targets)) \subseteq Node
<1>1. Elements(Tail(q.targets)) \subseteq Node
  BY Cluster, HeadAndWorkers
<1>2. Tail(Hosts) \in Seq(Elements(Hosts)) /\ Elements(Tail(Hosts)) \subseteq Elements(Hosts)
  <2>1. Tail(Hosts) \in Seq(Elements(Hosts))
    BY Cluster
  <2>2. ASSUME NEW i \in DOMAIN Tail(Hosts)
        PROVE  Tail(Hosts)[i] \in Elements(Hosts)
    BY <2>1
  <2> QED
    BY <2>1, <2>2 DEF Elements
<1>3. Elements(_subset_transfer_hosts(Tail(Hosts), q)) \subseteq Node
  BY <1>2, Cluster, SubsetOfHosts
<1> QED
  BY <1>1, <1>3 DEF worker_transfer_hosts

LEMMA HeadLegIs ==
  ASSUME NEW j \in Job, NEW force \in BOOLEAN
  PROVE  LET h == HeadLeg(j, force)
         IN  /\ h \in Job
             /\ h.req = j.req /\ h.kinds = j.kinds /\ h.mode = j.mode /\ h.since = j.since
             /\ h.leg = "head" /\ h.forced = force /\ h.retry = j.retry
             /\ h.step = IF kind(j) = "model" \/ force THEN "ensure" ELSE "probe"
             /\ h.to = Elements(worker_transfer_hosts(j.req)) /\ h.bad = {}
             /\ h.hosts = Elements(Tail(j.req.targets))
<1>1. j.req \in Request
  BY DEF Job
<1>2. /\ Elements(worker_transfer_hosts(j.req)) \in SUBSET Node
      /\ Elements(Tail(j.req.targets)) \in SUBSET Node
  BY <1>1, WorkerAddresses
<1> QED
  BY <1>2 DEF HeadLeg, Job

LEMMA LocalLegIs ==
  ASSUME NEW j \in Job, NEW again \in BOOLEAN
  PROVE  LET h == LocalLeg([j EXCEPT !.retry = again])
         IN  /\ h \in Job
             /\ h.req = j.req /\ h.kinds = j.kinds /\ h.mode = j.mode /\ h.since = j.since
             /\ h.leg = "local" /\ h.step = "ensure"
BY DEF LocalLeg, Job

LEMMA LeaveIs ==
  ASSUME NEW j \in Job, NEW F \in SUBSET Node
  PROVE  LET h == Leave(j, F)
         IN  /\ h \in Job
             /\ h.req = j.req /\ h.kinds = j.kinds /\ h.mode = j.mode /\ h.since = j.since
             /\ h.leg = j.leg /\ h.step = "leave" /\ h.failed = F
BY DEF Leave, Job

LEMMA BeginIs ==
  ASSUME NEW j \in Job
  PROVE  LET h == Begin(j)
         IN  /\ h \in Job
             /\ h.req = j.req /\ h.kinds = j.kinds /\ h.mode = j.mode /\ h.since = j.since
             /\ \/ h.leg = "local" /\ h.step = "ensure"
                \/ /\ h.leg = "head" /\ h.forced = j.req.force
                   /\ h.step = IF kind(j) = "model" \/ j.req.force THEN "ensure" ELSE "probe"
                   /\ h.to = Elements(worker_transfer_hosts(j.req)) /\ h.bad = {}
                   /\ h.hosts = Elements(Tail(j.req.targets))
<1> DEFINE again == (j.req.mode = "auto")  entry == [j EXCEPT !.retry = again]
<1>1. j.req.force \in BOOLEAN
  BY DEF Job, Request
<1>2. /\ entry \in Job /\ kind(entry) = kind(j)
      /\ entry.req = j.req /\ entry.kinds = j.kinds
      /\ entry.mode = j.mode /\ entry.since = j.since
  BY DEF Job, kind
<1>3. Begin(j) = IF j.mode = "delegated" THEN HeadLeg(entry, j.req.force) ELSE LocalLeg(entry)
  BY Zenon DEF Begin
<1>4. CASE j.mode = "delegated"
  <2> HIDE DEF entry
  <2> QED
    BY <1>1, <1>2, <1>3, <1>4, HeadLegIs
<1>5. CASE j.mode # "delegated"
  <2>1. again \in BOOLEAN
    OBVIOUS
  <2>2. LocalLeg(entry) = LocalLeg([j EXCEPT !.retry = again])
    OBVIOUS
  <2> HIDE DEF again, entry
  <2> QED
    BY <1>3, <1>5, <2>1, <2>2, LocalLegIs
<1> QED
  BY <1>4, <1>5

(* The hosts a job is about. *)
LEMMA JobHosts ==
  ASSUME NEW j \in Job
  PROVE  /\ head(j) \in Elements(j.req.targets)
         /\ Elements(j.req.targets) = {head(j)} \cup Elements(Tail(j.req.targets))
         /\ head(j) \notin Elements(Tail(j.req.targets))
         /\ Len(j.req.targets) \in Nat \ {0}
         /\ ~(Len(j.req.targets) > 1) => Elements(j.req.targets) = {head(j)}
         /\ Elements(j.req.targets) \in SUBSET Node
         /\ Elements(dest(j)) = IF j.mode = "local" THEN Elements(j.req.targets) ELSE {head(j)}
         /\ source(j) \in Node /\ Served(j) \in SUBSET Node
         /\ kind(j) \in Kind
<1>1. j.req \in Request
  BY DEF Job
<1>2. /\ head(j) \in Elements(j.req.targets)
      /\ Elements(j.req.targets) = {head(j)} \cup Elements(Tail(j.req.targets))
      /\ head(j) \notin Elements(Tail(j.req.targets))
      /\ Elements(j.req.targets) \subseteq Elements(Hosts)
      /\ Len(j.req.targets) \in Nat \ {0}
      /\ Len(j.req.targets) = 1 => Elements(Tail(j.req.targets)) = {}
  BY <1>1, HeadAndWorkers, Targets DEF head
<1>3. Elements(<<head(j)>>) = {head(j)}
  BY DEF Elements
<1>4. Elements(dest(j)) = IF j.mode = "local" THEN Elements(j.req.targets) ELSE {head(j)}
  BY <1>3, Zenon DEF dest
<1>5. ASSUME ~(Len(j.req.targets) > 1)
      PROVE  Elements(j.req.targets) = {head(j)}
  <2>1. Len(j.req.targets) = 1
    <3>1. ASSUME NEW n \in Nat \ {0}, ~(n > 1)
          PROVE  n = 1
      BY <3>1
    <3> QED
      BY <1>2, <1>5, <3>1, Zenon
  <2>2. Elements(Tail(j.req.targets)) = {}
    BY <1>2, <2>1
  <2> QED
    BY <1>2, <2>2
<1>6. Elements(j.req.targets) \in SUBSET Node
  BY <1>2, Cluster
<1>7. source(j) \in Node
  BY <1>2, <1>6, Cluster DEF source
<1>8. Served(j) \in SUBSET Node
  BY <1>2, <1>4, <1>6 DEF Served
<1>9. kind(j) \in Kind
  BY DEF Job, kind, Kind
<1> QED
  BY <1>2, <1>4, <1>5, <1>6, <1>7, <1>8, <1>9

(* What follows a leg: the head leg after a local one that went well, a    *)
(* push after a delegation that did not, or the result, which is a success *)
(* only when nothing failed and nobody is left to be served.               *)
Follows(j, F, a) ==
    \/ F = {} /\ j.leg = "local" /\ j.mode # "local" /\ a = HeadLeg(j, FALSE)
    \/ F # {} /\ j.leg = "head" /\ a = LocalLeg([j EXCEPT !.retry = FALSE])
    \/ \E G \in SUBSET Node :
          /\ a = Leave(j, G)
          /\ G = {} => /\ F = {}
                       /\ j.leg = "local" /\ j.mode # "local" => ~(Len(j.req.targets) > 1)

LEMMA AfterFollows ==
  ASSUME NEW j \in Job, NEW F \in SUBSET Node
  PROVE  Follows(j, F, After(j, F))
<1>1. Elements(j.req.targets) \in SUBSET Node /\ Elements(j.req.targets) # {}
  BY JobHosts
<1>2. CASE j.leg = "local" /\ j.mode # "local" /\ F # {}
  <2>1. After(j, F) = Leave(j, Elements(j.req.targets))
    BY <1>2, Zenon DEF After
  <2> QED
    BY <1>1, <2>1 DEF Follows
<1>3. CASE j.leg = "local" /\ j.mode # "local" /\ F = {} /\ Len(j.req.targets) > 1
  <2>1. After(j, F) = HeadLeg(j, FALSE)
    BY <1>3, Zenon DEF After
  <2> QED
    BY <1>3, <2>1 DEF Follows
<1>4. CASE j.leg = "local" /\ j.mode # "local" /\ F = {} /\ ~(Len(j.req.targets) > 1)
  <2>1. After(j, F) = Leave(j, {})
    BY <1>4, Zenon DEF After
  <2> QED
    BY <1>4, <2>1 DEF Follows
<1>5. CASE ~(j.leg = "local" /\ j.mode # "local") /\ j.leg = "head" /\ F # {}
  <2>1. After(j, F) = Leave(j, F) \/ After(j, F) = LocalLeg([j EXCEPT !.retry = FALSE])
    BY <1>5, Zenon DEF After
  <2> QED
    BY <1>5, <2>1 DEF Follows
<1>6. CASE ~(j.leg = "local" /\ j.mode # "local") /\ ~(j.leg = "head" /\ F # {})
  <2>1. After(j, F) = Leave(j, F)
    BY <1>6, Zenon DEF After
  <2> QED
    BY <1>6, <2>1 DEF Follows
<1> QED
  BY <1>2, <1>3, <1>4, <1>5, <1>6

(* Whatever follows, it is the same entry of the same call. *)
LEMMA FollowsIs ==
  ASSUME NEW j \in Job, NEW F \in SUBSET Node, NEW a, Follows(j, F, a)
  PROVE  /\ a \in Job
         /\ a.req = j.req /\ a.kinds = j.kinds /\ a.mode = j.mode /\ a.since = j.since
         /\ a.step \in {"probe", "ensure", "leave"}
<1>1. CASE a = HeadLeg(j, FALSE)
  BY <1>1, HeadLegIs
<1>2. CASE a = LocalLeg([j EXCEPT !.retry = FALSE])
  BY <1>2, LocalLegIs
<1>3. ASSUME NEW G \in SUBSET Node, a = Leave(j, G)
      PROVE  a \in Job /\ a.req = j.req /\ a.kinds = j.kinds /\ a.mode = j.mode
             /\ a.since = j.since /\ a.step = "leave"
  BY <1>3, LeaveIs
<1> QED
  BY <1>1, <1>2, <1>3 DEF Follows

(* The other moves of a job inside a leg. *)
LEMMA MoveIs ==
  ASSUME NEW j \in Job, NEW to \in SUBSET Node, NEW bad \in SUBSET Node, NEW hosts \in SUBSET Node,
         NEW step \in {"probe", "ensure", "send", "leave", "done", "failed"}
  PROVE  /\ [j EXCEPT !.step = step] \in Job
         /\ [j EXCEPT !.step = step, !.to = to, !.bad = bad] \in Job
         /\ [j EXCEPT !.step = step, !.bad = bad, !.to = to] \in Job
         /\ [j EXCEPT !.to = to, !.bad = bad] \in Job
         /\ [j EXCEPT !.step = step, !.hosts = hosts, !.to = to] \in Job
BY DEF Job

(* A session that has started is at a job, and goes from job to job. *)
DataOK ==
    /\ img \in [Node -> 0 .. MaxVersion]
    /\ mdl \in [Node -> 0 .. 2]
    /\ registry \in 1 .. MaxVersion
    /\ mounts \subseteq Node
    /\ job \in [Session -> Idle \cup Job]
    /\ alone \in [Session -> BOOLEAN]
    /\ faults \in 0 .. MaxFaults

LEMMA Started ==
  ASSUME DataOK, NEW s \in Session, job[s].step # "idle"
  PROVE  job[s] \in Job
BY DEF DataOK, Idle

LEMMA GoesTo ==
  ASSUME DataOK, NEW s \in Session, NEW j \in Job, Goto(s, j)
  PROVE  /\ job' \in [Session -> Idle \cup Job]
         /\ job'[s] = j
         /\ \A t \in Session \ {s} : job'[t] = job[t]
BY DEF DataOK, Goto

-----------------------------------------------------------------------------
(* Every step keeps the types. *)
LEMMA GainIs ==
  ASSUME DataOK, NEW n \in Node, NEW some \in 0 .. 2, Gain(n, some)
  PROVE  /\ mdl' \in [Node -> 0 .. 2]
         /\ \A m \in Node : mdl'[m] >= mdl[m]
         /\ mdl'[n] >= some
         /\ \A m \in Node : {m, n} \subseteq mounts => mdl'[m] >= some
BY DEF DataOK, Gain

LEMMA FaultIs ==
  ASSUME DataOK, Fault
  PROVE  faults' \in 0 .. MaxFaults
BY DistributionAssumption DEF DataOK, Fault

(* A step that moves one session and keeps registry, mounts and alone. *)
LEMMA Moved ==
  ASSUME DataOK, NEW s \in Session, NEW a \in Job, Goto(s, a),
         img' \in [Node -> 0 .. MaxVersion], mdl' \in [Node -> 0 .. 2],
         faults' \in 0 .. MaxFaults, registry' = registry, mounts' = mounts, alone' = alone
  PROVE  DataOK'
BY GoesTo DEF DataOK

LEMMA Continues ==
  ASSUME NEW j \in Job, NEW F \in SUBSET Node
  PROVE  After(j, F) \in Job
BY AfterFollows, FollowsIs

LEMMA HeadReadyIs ==
  ASSUME NEW j \in Job
  PROVE  HeadReady(j) \in Job
<1>1. After(j, {}) \in Job
  BY Continues
<1>2. [j EXCEPT !.step = "send"] \in Job
  BY MoveIs
<1> QED
  BY <1>1, <1>2, Zenon DEF HeadReady

LEMMA StartsFrom ==
  ASSUME DataOK, NEW s \in Session, Start(s)
  PROVE  \E r \in Job : Goto(s, Begin(r)) /\ r.since = registry
<1>1. PICK q \in job[s].ask : \E m \in resolve_auto_transfer_mode(q) :
        Goto(s, Begin([req |-> q, kinds |-> q.kinds, mode |-> m, since |-> registry,
                       leg |-> "local", step |-> "ensure", forced |-> FALSE,
                       retry |-> FALSE, hosts |-> {}, to |-> {}, bad |-> {}, failed |-> {}]))
  BY DEF Start
<1>2. PICK m \in resolve_auto_transfer_mode(q) :
        Goto(s, Begin([req |-> q, kinds |-> q.kinds, mode |-> m, since |-> registry,
                       leg |-> "local", step |-> "ensure", forced |-> FALSE,
                       retry |-> FALSE, hosts |-> {}, to |-> {}, bad |-> {}, failed |-> {}]))
  BY <1>1
<1> DEFINE r == [req |-> q, kinds |-> q.kinds, mode |-> m, since |-> registry,
                 leg |-> "local", step |-> "ensure", forced |-> FALSE,
                 retry |-> FALSE, hosts |-> {}, to |-> {}, bad |-> {}, failed |-> {}]
<1>3. q \in Request
  <2>1. job[s].step = "idle" /\ job[s] \in Idle \cup Job
    BY DEF Start, DataOK
  <2>2. job[s] \in Idle
    BY <2>1 DEF Job
  <2> QED
    BY <2>2 DEF Idle
<1>4. m \in {"local", "push", "delegated"}
  BY <1>3 DEF resolve_auto_transfer_mode, Request
<1>5. r \in Job
  <2>1. q.kinds \in {<<"image">>, <<"model">>, <<"image", "model">>}
    BY <1>3 DEF Request
  <2> QED
    BY <1>3, <1>4, <2>1 DEF Job, DataOK
<1>6. r.since = registry
  OBVIOUS
<1>7. Goto(s, Begin(r))
  BY <1>2
<1> QED
  BY <1>5, <1>6, <1>7

LEMMA TypedStart ==
  ASSUME DataOK, NEW s \in Session, Start(s)
  PROVE  DataOK' /\ job'[s] \in Job
<1>1. PICK r \in Job : Goto(s, Begin(r))
  BY StartsFrom
<1>2. Begin(r) \in Job
  BY BeginIs
<1>3. /\ job' \in [Session -> Idle \cup Job] /\ job'[s] = Begin(r)
  BY <1>1, <1>2, GoesTo
<1>4. alone' \in [Session -> BOOLEAN]
  BY DEF Start, DataOK
<1> QED
  BY <1>2, <1>3, <1>4 DEF DataOK, Start

LEMMA TypedEnsureImage ==
  ASSUME DataOK, NEW s \in Session, EnsureImage(s)
  PROVE  DataOK' /\ job'[s] \in Job
<1>1. PICK j \in Job : j = job[s]
  BY Started DEF EnsureImage, At
<1>2. [j EXCEPT !.step = "probe"] \in Job
  BY MoveIs
<1>3. After(j, Elements(dest(j))) \in Job
  BY JobHosts, Continues
<1>4. PICK a \in Job : Goto(s, a)
  BY <1>1, <1>2, <1>3 DEF EnsureImage
<1>5. job'[s] = a
  BY <1>4, GoesTo
<1>6. img' \in [Node -> 0 .. MaxVersion]
  BY Cluster DEF EnsureImage, DataOK
<1>7. faults' \in 0 .. MaxFaults /\ mdl' \in [Node -> 0 .. 2]
  BY FaultIs DEF EnsureImage, DataOK
<1> QED
  BY <1>4, <1>5, <1>6, <1>7, Moved DEF EnsureImage

LEMMA TypedFilter ==
  ASSUME DataOK, NEW s \in Session, _filter_hosts_needing_image(s)
  PROVE  DataOK' /\ job'[s] \in Job
<1>1. PICK j \in Job : j = job[s]
  BY Started DEF _filter_hosts_needing_image, At
<1>2. PICK lost \in SUBSET Elements(dest(j)) :
        /\ Goto(s, [j EXCEPT !.step = "send", !.bad = {},
                             !.to = {h \in Elements(dest(j)) : h \in lost \/ img[h] # img[Control]}])
        /\ IF lost = {} THEN UNCHANGED faults ELSE Fault
  BY <1>1, Zenon DEF _filter_hosts_needing_image
<1>3. {h \in Elements(dest(j)) : h \in lost \/ img[h] # img[Control]} \in SUBSET Node
  BY JobHosts
<1>4. [j EXCEPT !.step = "send", !.bad = {},
                !.to = {h \in Elements(dest(j)) : h \in lost \/ img[h] # img[Control]}] \in Job
  BY <1>3, MoveIs
<1>5. faults' \in 0 .. MaxFaults
  BY <1>2, FaultIs DEF DataOK
<1> QED
  BY <1>2, <1>4, <1>5, Moved, GoesTo DEF _filter_hosts_needing_image, DataOK

LEMMA TypedDownloadModel ==
  ASSUME DataOK, NEW s \in Session, DownloadModel(s)
  PROVE  DataOK' /\ job'[s] \in Job
<1>1. PICK j \in Job : j = job[s]
  BY Started DEF DownloadModel, At
<1>2. /\ After(j, {}) \in Job
      /\ After(j, Elements(dest(j))) \in Job
      /\ [j EXCEPT !.step = "send", !.to = Elements(dest(j)), !.bad = {}] \in Job
  BY JobHosts, Continues, MoveIs
<1>3. PICK a \in Job : Goto(s, a)
  BY <1>1, <1>2 DEF DownloadModel
<1>4. job'[s] = a
  BY <1>3, GoesTo
<1>5. mdl' \in [Node -> 0 .. 2]
  BY Cluster, GainIs DEF DownloadModel
<1>6. faults' \in 0 .. MaxFaults
  BY FaultIs DEF DownloadModel, DataOK
<1> QED
  BY <1>3, <1>4, <1>5, <1>6, Moved DEF DownloadModel, DataOK

LEMMA TypedCheckIdentities ==
  ASSUME DataOK, NEW s \in Session, CheckIdentities(s)
  PROVE  DataOK' /\ job'[s] \in Job
<1> DEFINE j == job[s]
<1>1. j \in Job
  BY Started DEF CheckIdentities, At
<1> DEFINE workers == Tail(j.req.targets)  wt == worker_transfer_hosts(j.req)
           stale(h, lost) == h \in lost \/ img[h] # img[head(j)]
           Pairs(lost) == {i \in DOMAIN workers \cap DOMAIN wt : stale(workers[i], lost)}
<1>2. PICK lost \in SUBSET Elements(j.req.targets) :
        \/ Goto(s, [j EXCEPT !.step = "ensure"])
        \/ Goto(s, After(j, {}))
        \/ Goto(s, [j EXCEPT !.step = "ensure",
                             !.hosts = {workers[i] : i \in Pairs(lost)},
                             !.to = {wt[i] : i \in Pairs(lost)}])
  <2>1. PICK lost \in SUBSET Elements(j.req.targets) :
          IF head(j) \in lost \/ img[head(j)] = 0
          THEN Goto(s, [j EXCEPT !.step = "ensure"])
          ELSE IF \A h \in Elements(workers) : ~stale(h, lost)
          THEN Goto(s, After(j, {}))
          ELSE Goto(s, [j EXCEPT !.step = "ensure",
                                 !.hosts = {workers[i] : i \in Pairs(lost)},
                                 !.to = {wt[i] : i \in Pairs(lost)}])
    BY Zenon DEF CheckIdentities
  <2> QED
    BY <2>1, Zenon
<1> DEFINE pairs == Pairs(lost)
<1>3. {workers[i] : i \in pairs} \in SUBSET Node /\ {wt[i] : i \in pairs} \in SUBSET Node
  <2>1. j.req \in Request
    BY <1>1 DEF Job
  <2>2. Elements(wt) \subseteq Node /\ Elements(workers) \subseteq Node
    BY <2>1, WorkerAddresses
  <2> QED
    BY <2>2 DEF Elements
<1>4. /\ [j EXCEPT !.step = "ensure"] \in Job
      /\ After(j, {}) \in Job
      /\ [j EXCEPT !.step = "ensure",
                   !.hosts = {workers[i] : i \in pairs}, !.to = {wt[i] : i \in pairs}] \in Job
  BY <1>1, <1>3, Continues, MoveIs
<1>5. PICK a \in Job : Goto(s, a)
  BY <1>2, <1>4
<1>6. faults' \in 0 .. MaxFaults
  BY FaultIs DEF CheckIdentities, DataOK
<1> QED
  BY <1>5, <1>6, Moved, GoesTo DEF CheckIdentities, DataOK

LEMMA TypedPullOnHead ==
  ASSUME DataOK, NEW s \in Session, PullOnHead(s)
  PROVE  DataOK' /\ job'[s] \in Job
<1>1. PICK j \in Job : j = job[s]
  BY Started DEF PullOnHead, At
<1>2. HeadReady(j) \in Job /\ After(j, {head(j)} \cup j.hosts) \in Job
  <2>1. {head(j)} \cup j.hosts \in SUBSET Node
    BY JobHosts DEF Job
  <2> QED
    BY <2>1, HeadReadyIs, Continues
<1>3. PICK a \in Job : Goto(s, a)
  BY <1>1, <1>2 DEF PullOnHead
<1>4. img' \in [Node -> 0 .. MaxVersion]
  BY <1>1, JobHosts DEF PullOnHead, DataOK
<1>5. faults' \in 0 .. MaxFaults
  BY FaultIs DEF PullOnHead, DataOK
<1> QED
  BY <1>3, <1>4, <1>5, Moved, GoesTo DEF PullOnHead, DataOK

LEMMA TypedDownloadOnHead ==
  ASSUME DataOK, NEW s \in Session, DownloadOnHead(s)
  PROVE  DataOK' /\ job'[s] \in Job
<1>1. PICK j \in Job : j = job[s]
  BY Started DEF DownloadOnHead, At
<1> DEFINE F == {head(j)} \cup IF SkipFanOut THEN {} ELSE j.hosts
<1>2. HeadReady(j) \in Job /\ After(j, F) \in Job
  <2>1. F \in SUBSET Node
    BY JobHosts DEF Job
  <2> QED
    BY <2>1, HeadReadyIs, Continues
<1>3. PICK a \in Job : Goto(s, a)
  BY <1>1, <1>2 DEF DownloadOnHead
<1>4. head(j) \in Node
  BY JobHosts
<1>5. mdl' \in [Node -> 0 .. 2]
  BY <1>1, <1>4, GainIs DEF DownloadOnHead, DataOK
<1>6. faults' \in 0 .. MaxFaults
  BY FaultIs DEF DownloadOnHead, DataOK
<1> QED
  BY <1>3, <1>5, <1>6, Moved, GoesTo DEF DownloadOnHead, DataOK

LEMMA TypedTransfer ==
  ASSUME DataOK, NEW s \in Session, NEW n \in Node, Transfer(s, n)
  PROVE  DataOK' /\ job'[s] \in Job
<1>1. PICK j \in Job : j = job[s]
  BY Started DEF Transfer
<1>2. ASSUME NEW bad \in SUBSET Node
      PROVE  [j EXCEPT !.to = @ \ {n}, !.bad = @ \cup bad] \in Job
  <2>1. j.to \ {n} \in SUBSET Node /\ j.bad \cup bad \in SUBSET Node
    BY DEF Job
  <2> QED
    BY <2>1 DEF Job
<1>3. PICK a \in Job : Goto(s, a)
  BY <1>1, <1>2 DEF Transfer
<1>4. source(j) \in Node
  BY JobHosts
<1>5. img' \in [Node -> 0 .. MaxVersion]
  BY <1>1, <1>4 DEF Transfer, DataOK
<1>6. mdl' \in [Node -> 0 .. 2]
  <2>1. mdl[source(j)] \in 0 .. 2
    BY <1>4 DEF DataOK
  <2> QED
    BY <1>1, <2>1, GainIs DEF Transfer, DataOK
<1>7. faults' \in 0 .. MaxFaults
  BY FaultIs DEF Transfer, DataOK
<1> QED
  BY <1>3, <1>5, <1>6, <1>7, Moved, GoesTo DEF Transfer

(* Only a leg without failed addresses is reported without failed hosts. *)
LEMMA FailuresMapped ==
  ASSUME NEW j \in Job, NEW xfer
  PROVE  LET F == map_transfer_failures(j.bad, xfer, dest(j))
         IN  F \in SUBSET Node /\ (F = {} => j.bad = {})
<1> DEFINE hosts == dest(j)  zip == DOMAIN xfer \cap DOMAIN hosts
           named == {hosts[i] : i \in {k \in zip : xfer[k] \in j.bad}}
           kept == {a \in j.bad : \A k \in zip : xfer[k] # a}
<1>1. map_transfer_failures(j.bad, xfer, hosts) = named \cup kept
  BY Zenon DEF map_transfer_failures
<1>2. kept \in SUBSET Node
  BY DEF Job
<1>3. named \in SUBSET Node
  <2>1. Elements(hosts) \subseteq Node
    BY JobHosts
  <2> QED
    BY <2>1, Zenon DEF Elements
<1>4. ASSUME NEW n \in j.bad
      PROVE  named \cup kept # {}
  <2>1. CASE \A k \in zip : xfer[k] # n
    BY <2>1
  <2>2. ASSUME NEW k \in zip, xfer[k] = n
        PROVE  hosts[k] \in named
    BY <2>2
  <2> QED
    BY <2>1, <2>2
<1> QED
  BY <1>1, <1>2, <1>3, <1>4

Failed(j) ==
    LET xfer == IF j.req.ib /\ j.mode = "local"
                THEN _subset_transfer_hosts(Hosts, j.req) ELSE dest(j)
    IN  IF j.leg = "local" THEN map_transfer_failures(j.bad, xfer, dest(j))
        ELSE IF j.bad = {} THEN {} ELSE j.hosts

LEMMA TypedCollect ==
  ASSUME DataOK, NEW s \in Session, Collect(s)
  PROVE  DataOK' /\ job'[s] \in Job
<1>1. PICK j \in Job : j = job[s]
  BY Started DEF Collect
<1>2. Failed(j) \in SUBSET Node
  <2>1. j.hosts \in SUBSET Node
    BY DEF Job
  <2> QED
    BY <2>1, FailuresMapped DEF Failed
<1>3. Goto(s, After(j, Failed(j)))
  BY <1>1, Zenon DEF Collect, Failed
<1>4. After(j, Failed(j)) \in Job
  BY <1>2, Continues
<1> QED
  BY <1>3, <1>4, Moved, GoesTo DEF Collect, DataOK

LEMMA NextKind ==
  ASSUME NEW j \in Job, Len(j.kinds) # 1
  PROVE  LET h == [j EXCEPT !.kinds = Tail(@)]
         IN  h \in Job /\ kind(h) = "model" /\ h.req = j.req /\ h.since = j.since /\ h.mode = j.mode
<1>1. j.kinds = <<"image", "model">>
  BY DEF Job
<1>2. Tail(j.kinds) = <<"model">>
  BY <1>1
<1>3. [j EXCEPT !.kinds = Tail(@)] = [j EXCEPT !.kinds = <<"model">>]
  BY <1>2
<1>4. [j EXCEPT !.kinds = <<"model">>] \in Job
  BY DEF Job
<1>5. LET h == [j EXCEPT !.kinds = <<"model">>]
      IN  h.kinds = <<"model">> /\ h.req = j.req /\ h.since = j.since /\ h.mode = j.mode
  BY DEF Job
<1>6. Head(<<"model">>) = "model"
  OBVIOUS
<1> QED
  BY <1>3, <1>4, <1>5, <1>6 DEF kind

LEMMA TypedProceed ==
  ASSUME DataOK, NEW s \in Session, Proceed(s)
  PROVE  DataOK' /\ job'[s] \in Job
<1>1. PICK j \in Job : j = job[s]
  BY Started DEF Proceed
<1>2. CASE j.failed # {} \/ Len(j.kinds) = 1
  <2>1. [j EXCEPT !.step = "failed"] \in Job /\ [j EXCEPT !.step = "done"] \in Job
    BY MoveIs
  <2>2. PICK a \in Job : Goto(s, a)
    BY <1>1, <1>2, <2>1 DEF Proceed
  <2> QED
    BY <2>2, Moved, GoesTo DEF Proceed, DataOK
<1>3. CASE ~(j.failed # {}) /\ Len(j.kinds) # 1
  <2>1. Goto(s, Begin([j EXCEPT !.kinds = Tail(@)]))
    BY <1>1, <1>3, Zenon DEF Proceed
  <2>2. Begin([j EXCEPT !.kinds = Tail(@)]) \in Job
    BY <1>3, NextKind, BeginIs
  <2> QED
    BY <2>1, <2>2, Moved, GoesTo DEF Proceed, DataOK
<1> QED
  BY <1>2, <1>3

LEMMA TypedEnds ==
  ASSUME DataOK, NEW s \in Session, Interrupt(s) \/ Die(s)
  PROVE  DataOK' /\ job'[s] \in Job
<1>1. PICK j \in Job : j = job[s]
  BY Started DEF Interrupt, Die, Active
<1>2. /\ [j EXCEPT !.step = "failed"] \in Job
      /\ Leave(j, Elements(j.req.targets)) \in Job
  BY JobHosts, LeaveIs, MoveIs
<1>3. PICK a \in Job : Goto(s, a)
  BY <1>1, <1>2 DEF Interrupt, Die
<1>4. faults' \in 0 .. MaxFaults
  BY FaultIs DEF Interrupt, Die
<1> QED
  BY <1>3, <1>4, Moved, GoesTo DEF Interrupt, Die, DataOK

LEMMA DataKept ==
  ASSUME DataOK, [Next]_vars
  PROVE  DataOK'
<1>1. ASSUME NEW s \in Session, SessionStep(s)
      PROVE  DataOK'
  <2>1. CASE Locking(s)
    BY <2>1 DEF Locking, distVars, DataOK
  <2> QED
    BY <1>1, <2>1, TypedStart, TypedEnsureImage, TypedFilter, TypedDownloadModel,
       TypedCheckIdentities, TypedPullOnHead, TypedDownloadOnHead, TypedTransfer,
       TypedCollect, TypedProceed, TypedEnds DEF SessionStep
<1>2. CASE Viewing
  BY <1>2 DEF Viewing, distVars, DataOK
<1>3. CASE Publish
  BY <1>3, DistributionAssumption DEF Publish, DataOK
<1>4. CASE UNCHANGED vars
  BY <1>4 DEF vars, distVars, DataOK
<1> QED
  BY <1>1, <1>2, <1>3, <1>4 DEF Next

LEMMA InitTyped ==
  ASSUME Init
  PROVE  DataOK
<1>1. PICK c \in Scenario :
        /\ img = c.img /\ mdl = c.mdl /\ mounts = c.mounts
        /\ job = [s \in Session |-> [step |-> "idle", ask |-> c.ask[s]]]
        /\ faults = c.faults
  BY DEF Init
<1>2. c \in [img: [Node -> {0, 1}], mdl: [Node -> 0 .. 2], mounts: SUBSET Node,
             ask: [Session -> SUBSET Request], faults: 0 .. MaxFaults]
  BY DistributionAssumption
<1>3. job \in [Session -> Idle \cup Job]
  <2>1. \A s \in Session : [step |-> "idle", ask |-> c.ask[s]] \in Idle
    BY <1>2 DEF Idle
  <2> QED
    BY <1>1, <2>1
<1>4. img \in [Node -> 0 .. MaxVersion] /\ registry \in 1 .. MaxVersion
  BY <1>1, <1>2, DistributionAssumption DEF Init
<1>5. alone \in [Session -> BOOLEAN]
  BY DEF Init
<1> QED
  BY <1>1, <1>2, <1>3, <1>4, <1>5 DEF DataOK

(* The types of the distribution: what the nodes hold, where the sessions  *)
(* are and the lock files.                                                 *)
THEOREM TypeCorrect == Spec => []TypeOK
<1>1. Init => DataOK
  BY InitTyped
<1>2. Spec => []DataOK
  BY <1>1, DataKept, PTL DEF Spec
<1>3. Lock!Spec => []Lock!TypeOK
  BY DistributionAssumption, LockTypes
<1>4. DataOK /\ Lock!TypeOK => TypeOK
  BY DEF DataOK, TypeOK
<1> QED
  BY <1>2, <1>3, <1>4, UsesPendingOps, PTL

-----------------------------------------------------------------------------
(* What a leg must have reached when it ends well. *)
Reached(j, undisturbed) ==
    Aligned(j.req) =>
        /\ Fit(j) => (\A h \in Served(j) : Has(j, h)) /\ (j.leg = "head" => Has(j, head(j)))
        /\ kind(j) = "image" /\ undisturbed =>
              /\ \A h \in Served(j) : img[h] = img[source(j)]
              /\ j.req.force => img[source(j)] >= j.since

(* A head leg that begins, a local leg that begins, an entry that failed.  *)
LEMMA HeadLegBegins ==
  ASSUME NEW h \in Job, NEW u \in BOOLEAN,
         h.leg = "head", h.step = IF kind(h) = "model" \/ h.forced THEN "ensure" ELSE "probe",
         h.to = Elements(worker_transfer_hosts(h.req)), h.bad = {},
         h.hosts = Elements(Tail(h.req.targets)),
         Aligned(h.req) /\ kind(h) = "image" /\ u /\ h.req.force /\ ~h.forced =>
            img'[head(h)] >= h.since
  PROVE  EntryInv(h, u)'
<1>1. h.req \in Request /\ h.forced \in BOOLEAN
  BY DEF Job
<1>2. kind(h) \in {"image", "model"}
  BY JobHosts DEF Kind
<1>3. Aligned(h.req) => h.to = h.hosts /\ Served(h) = h.to
  BY <1>1, AlignedWorkers DEF Served
<1>4. SourceInv(h)'
  BY <1>2 DEF SourceInv
<1>5. Aligned(h.req) => LegInv(h)'
  BY <1>2, <1>3 DEF LegInv, HeadInv
<1>6. Aligned(h.req) => AgreeInv(h)'
  BY <1>2, <1>3 DEF AgreeInv
<1>7. Aligned(h.req) /\ kind(h) = "image" /\ u /\ h.req.force => FreshInv(h)'
  BY <1>2 DEF FreshInv
<1> QED
  BY <1>4, <1>5, <1>6, <1>7 DEF EntryInv

LEMMA LocalLegBegins ==
  ASSUME NEW h \in Job, NEW u \in BOOLEAN, h.leg = "local", h.step = "ensure"
  PROVE  EntryInv(h, u)'
BY DEF EntryInv, SourceInv, LegInv, AgreeInv, FreshInv

LEMMA EntryFails ==
  ASSUME NEW h \in Job, NEW u \in BOOLEAN, h.step = "leave", h.failed # {}
  PROVE  EntryInv(h, u)'
BY DEF EntryInv, SourceInv, LegInv, AgreeInv, FreshInv

LEMMA EntryBegins ==
  ASSUME NEW j \in Job, NEW u \in BOOLEAN
  PROVE  EntryInv(Begin(j), u)'
<1>1. PICK h \in Job : h = Begin(j)
  BY BeginIs
<1>2. /\ h.req = j.req /\ h.kinds = j.kinds
      /\ \/ h.leg = "local" /\ h.step = "ensure"
         \/ /\ h.leg = "head" /\ h.forced = j.req.force
            /\ h.step = IF kind(j) = "model" \/ j.req.force THEN "ensure" ELSE "probe"
            /\ h.to = Elements(worker_transfer_hosts(j.req)) /\ h.bad = {}
            /\ h.hosts = Elements(Tail(j.req.targets))
  BY <1>1, BeginIs
<1>3. kind(h) = kind(j)
  BY <1>2 DEF kind
<1>4. EntryInv(h, u)'
  BY <1>2, <1>3, HeadLegBegins, LocalLegBegins
<1> QED
  BY <1>1, <1>4

(* Whatever follows a leg, the entry is as the invariant says. *)
LEMMA FollowKeeps ==
  ASSUME NEW j \in Job, NEW F \in SUBSET Node, NEW a \in Job, Follows(j, F, a), NEW u \in BOOLEAN,
         F = {} => Reached(j, u)'
  PROVE  EntryInv(a, u)'
<1>1. CASE F = {} /\ j.leg = "local" /\ j.mode # "local" /\ a = HeadLeg(j, FALSE)
  <2>1. /\ a.req = j.req /\ a.kinds = j.kinds /\ a.since = j.since
        /\ a.leg = "head" /\ a.forced = FALSE
        /\ a.step = IF kind(j) = "model" THEN "ensure" ELSE "probe"
        /\ a.to = Elements(worker_transfer_hosts(j.req)) /\ a.bad = {}
        /\ a.hosts = Elements(Tail(j.req.targets))
    BY <1>1, HeadLegIs
  <2>2. kind(a) = kind(j) /\ head(a) = head(j)
    BY <2>1 DEF kind, head
  <2>3. Served(j) = {head(j)}
    BY <1>1, JobHosts DEF Served
  <2>4. Aligned(j.req) /\ kind(j) = "image" /\ u /\ j.req.force => img'[head(j)] >= j.since
    BY <1>1, <2>3 DEF Reached
  <2> QED
    BY <2>1, <2>2, <2>4, HeadLegBegins
<1>2. CASE a = LocalLeg([j EXCEPT !.retry = FALSE])
  BY <1>2, LocalLegIs, LocalLegBegins
<1>3. ASSUME NEW G \in SUBSET Node, a = Leave(j, G),
             G = {} => /\ F = {}
                       /\ j.leg = "local" /\ j.mode # "local" => ~(Len(j.req.targets) > 1)
      PROVE  EntryInv(a, u)'
  <2>1. /\ a.req = j.req /\ a.kinds = j.kinds /\ a.mode = j.mode /\ a.since = j.since
        /\ a.leg = j.leg /\ a.step = "leave" /\ a.failed = G
    BY <1>3, LeaveIs
  <2>2. CASE G # {}
    BY <2>1, <2>2, EntryFails
  <2>3. CASE G = {}
    <3>1. kind(a) = kind(j) /\ head(a) = head(j) /\ (Fit(a)' <=> Fit(j)')
      BY <2>1 DEF kind, head, Fit, CacheIsShared
    <3>2. Reached(j, u)'
      BY <1>3, <2>3
    <3>3. /\ j.leg \in {"local", "head"}
          /\ j.leg = "local" => Served(j) = Elements(j.req.targets) /\ source(j) = Control
          /\ j.leg = "head" => /\ Elements(j.req.targets) = {head(j)} \cup Served(j)
                               /\ source(j) = head(j)
          /\ head(j) \in Elements(j.req.targets)
      BY <1>3, <2>3, JobHosts DEF Served, source, Job
    <3>4. Aligned(j.req) /\ Fit(j)' => \A h \in Elements(j.req.targets) : Has(j, h)'
      BY <3>2, <3>3 DEF Reached
    <3>5. Aligned(j.req) /\ kind(j) = "image" /\ u =>
             /\ \A h \in Elements(j.req.targets) : img'[h] = img'[head(j)]
             /\ j.req.force => img'[head(j)] >= j.since
      BY <3>2, <3>3 DEF Reached
    <3>6. Aligned(j.req) /\ Fit(j)' => LegInv(a)'
      BY <2>1, <3>1, <3>4 DEF LegInv, Has
    <3>7. Aligned(j.req) /\ kind(j) = "image" /\ u =>
             AgreeInv(a)' /\ (j.req.force => FreshInv(a)')
      BY <2>1, <3>1, <3>5 DEF AgreeInv, FreshInv
    <3>8. SourceInv(a)'
      BY <2>1 DEF SourceInv
    <3> QED
      BY <2>1, <3>1, <3>6, <3>7, <3>8 DEF EntryInv
  <2> QED
    BY <2>2, <2>3
<1> QED
  BY <1>1, <1>2, <1>3 DEF Follows

-----------------------------------------------------------------------------
(* The entry of a session after each of its steps. *)
LEMMA ArrivesAt ==
  ASSUME DataOK, NEW s \in Session, NEW a, a = job'[s], NEW x \in Job, Goto(s, x)
  PROVE  a = x
BY GoesTo

LEMMA KeptByEnsureImage ==
  ASSUME DataOK, DataOK', NEW s \in Session, NEW j \in Job, j = job[s], NEW a \in Job, a = job'[s],
         NEW u \in BOOLEAN, EntryInv(j, u), j.since <= registry, EnsureImage(s)
  PROVE  EntryInv(a, u)'
<1>1. kind(j) = "image" /\ j.leg = "local" /\ j.step = "ensure"
  BY DEF EnsureImage, At
<1>2. \/ /\ img' = [img EXCEPT ![Control] = registry] \/ (img[Control] # 0 /\ ~j.req.force /\ img' = img)
         /\ Goto(s, [j EXCEPT !.step = "probe"])
      \/ Goto(s, After(j, Elements(dest(j))))
  BY DEF EnsureImage
<1>3. CASE Goto(s, After(j, Elements(dest(j))))
  <2>1. Elements(dest(j)) \in SUBSET Node /\ Elements(dest(j)) # {}
    BY JobHosts
  <2>2. a = After(j, Elements(dest(j)))
    BY <1>3, <2>1, Continues, ArrivesAt
  <2> QED
    BY <2>1, <2>2, AfterFollows, FollowKeeps
<1>4. CASE /\ img' = [img EXCEPT ![Control] = registry] \/ (img[Control] # 0 /\ ~j.req.force /\ img' = img)
           /\ Goto(s, [j EXCEPT !.step = "probe"])
  <2>1. a = [j EXCEPT !.step = "probe"]
    BY <1>4, MoveIs, ArrivesAt
  <2>2. /\ a.req = j.req /\ a.kinds = j.kinds /\ a.leg = "local" /\ a.step = "probe"
        /\ a.since = j.since
    BY <1>1, <2>1 DEF Job
  <2>3. img'[Control] # 0 /\ (j.req.force => img'[Control] >= j.since)
    <3>1. registry \in Nat \ {0} /\ j.since \in Nat /\ Control \in DOMAIN img
      BY Cluster, DistributionAssumption DEF DataOK, Job
    <3>2. j.req.force => img' = [img EXCEPT ![Control] = registry]
      BY <1>4
    <3>3. img'[Control] # 0
      BY <1>4, <3>1
    <3> QED
      BY <3>1, <3>2, <3>3
  <2>4. kind(a) = "image" /\ source(a) = Control
    BY <1>1, <2>2 DEF kind, source
  <2>5. SourceInv(a)' /\ LegInv(a)' /\ AgreeInv(a)'
    BY <2>2, <2>3, <2>4 DEF SourceInv, LegInv, AgreeInv
  <2>6. a.req.force => FreshInv(a)'
    BY <2>2, <2>3 DEF FreshInv
  <2> QED
    BY <2>5, <2>6 DEF EntryInv
<1> QED
  BY <1>2, <1>3, <1>4

LEMMA KeptByFilter ==
  ASSUME DataOK, DataOK', NEW s \in Session, NEW j \in Job, j = job[s], NEW a \in Job, a = job'[s],
         NEW u \in BOOLEAN, EntryInv(j, u), _filter_hosts_needing_image(s)
  PROVE  EntryInv(a, u)'
<1>1. j.leg = "local" /\ j.step = "probe" /\ img' = img /\ mdl' = mdl /\ mounts' = mounts
  BY DEF _filter_hosts_needing_image, At
<1>2. PICK lost \in SUBSET Elements(dest(j)) :
        Goto(s, [j EXCEPT !.step = "send", !.bad = {},
                          !.to = {h \in Elements(dest(j)) : h \in lost \/ img[h] # img[Control]}])
  BY DEF _filter_hosts_needing_image
<1> DEFINE to == {h \in Elements(dest(j)) : h \in lost \/ img[h] # img[Control]}
<1>3. to \in SUBSET Node
  BY JobHosts
<1>4. a = [j EXCEPT !.step = "send", !.bad = {}, !.to = to]
  BY <1>2, <1>3, MoveIs, ArrivesAt
<1>5. /\ a.req = j.req /\ a.kinds = j.kinds /\ a.leg = "local" /\ a.step = "send"
      /\ a.since = j.since /\ a.mode = j.mode /\ a.to = to /\ a.bad = {}
  BY <1>1, <1>4 DEF Job
<1>6. /\ kind(a) = kind(j) /\ source(a) = Control /\ source(j) = Control
      /\ Served(a) = Elements(dest(j)) /\ (Fit(a)' <=> Fit(j))
  BY <1>1, <1>5 DEF kind, head, source, Served, dest, Fit, CacheIsShared, SkipFanOut
<1>7. \A h \in Served(a) \ (a.to \cup a.bad) : img[h] = img[Control]
  BY <1>5, <1>6
<1>8. kind(j) = "image" => img[Control] # 0
  BY <1>1, <1>6 DEF EntryInv, SourceInv
<1>9. SourceInv(a)'
  BY <1>1, <1>6, <1>8 DEF SourceInv
<1>10. Aligned(j.req) /\ Fit(j) => LegInv(a)'
  <2> SUFFICES ASSUME Aligned(j.req), Fit(j)
               PROVE  LegInv(a)'
    OBVIOUS
  <2>1. kind(j) = "image"
    BY <1>1 DEF EntryInv, LegInv
  <2> QED
    BY <1>1, <1>5, <1>6, <1>7, <1>8, <2>1 DEF LegInv, Has
<1>11. AgreeInv(a)'
  BY <1>1, <1>5, <1>6, <1>7 DEF AgreeInv
<1>12. Aligned(j.req) /\ kind(j) = "image" /\ u /\ j.req.force => FreshInv(a)'
  BY <1>1, <1>5 DEF EntryInv, FreshInv
<1> QED
  BY <1>5, <1>6, <1>9, <1>10, <1>11, <1>12 DEF EntryInv

LEMMA KeptByDownloadModel ==
  ASSUME DataOK, DataOK', NEW s \in Session, NEW j \in Job, j = job[s], NEW a \in Job, a = job'[s],
         NEW u \in BOOLEAN, EntryInv(j, u), DownloadModel(s)
  PROVE  EntryInv(a, u)'
<1>1. kind(j) = "model" /\ j.leg = "local" /\ j.step = "ensure" /\ mounts' = mounts
  BY DEF DownloadModel, At
<1>2. \/ /\ Gain(Control, 2)
         /\ Goto(s, IF SkipFanOut /\ j.mode = "local" THEN After(j, {})
                    ELSE [j EXCEPT !.step = "send", !.to = Elements(dest(j)), !.bad = {}])
      \/ Goto(s, After(j, Elements(dest(j))))
  BY DEF DownloadModel
<1>3. CASE Goto(s, After(j, Elements(dest(j))))
  <2>1. Elements(dest(j)) \in SUBSET Node /\ Elements(dest(j)) # {}
    BY JobHosts
  <2>2. a = After(j, Elements(dest(j)))
    BY <1>3, <2>1, Continues, ArrivesAt
  <2> QED
    BY <2>1, <2>2, AfterFollows, FollowKeeps
<1>4. CASE Gain(Control, 2) /\ SkipFanOut /\ j.mode = "local" /\ Goto(s, After(j, {}))
  <2>1. a = After(j, {})
    BY <1>4, Continues, ArrivesAt
  <2>2. Served(j) = Elements(j.req.targets) /\ j.req \in Request
    BY <1>1, <1>4, JobHosts DEF Served, Job
  <2>3. Served(j) \subseteq Elements(Hosts)
    BY <2>2, HeadAndWorkers
  <2>4. Fit(j)' => Elements(Hosts) \subseteq mounts /\ Control \in mounts
    BY <1>1, <1>4 DEF Fit, CacheIsShared, SkipFanOut
  <2>5. \A m \in Node : {m, Control} \subseteq mounts => mdl'[m] = 2
    <3>1. \A m \in Node : mdl'[m] \in 0 .. 2
      BY DEF DataOK
    <3>2. \A m \in Node : {m, Control} \subseteq mounts => mdl'[m] >= 2
      BY <1>4, Cluster, GainIs
    <3> QED
      BY <3>1, <3>2
  <2>6. Fit(j)' => \A h \in Served(j) : Has(j, h)'
    BY <1>1, <2>3, <2>4, <2>5, Cluster DEF Has
  <2>7. Reached(j, u)'
    BY <1>1, <2>6 DEF Reached
  <2> QED
    BY <2>1, <2>7, AfterFollows, FollowKeeps
<1>5. CASE /\ Gain(Control, 2)
           /\ Goto(s, [j EXCEPT !.step = "send", !.to = Elements(dest(j)), !.bad = {}])
  <2>1. Elements(dest(j)) \in SUBSET Node
    BY JobHosts
  <2>2. a = [j EXCEPT !.step = "send", !.to = Elements(dest(j)), !.bad = {}]
    BY <1>5, <2>1, MoveIs, ArrivesAt
  <2>3. /\ a.req = j.req /\ a.kinds = j.kinds /\ a.leg = "local" /\ a.step = "send"
        /\ a.mode = j.mode /\ a.to = Elements(dest(j)) /\ a.bad = {}
    BY <1>1, <2>2 DEF Job
  <2>4. kind(a) = "model" /\ source(a) = Control /\ Served(a) = a.to
    BY <1>1, <2>3 DEF kind, head, source, Served, dest
  <2>5. mdl'[Control] = 2
    <3>1. mdl'[Control] \in 0 .. 2
      BY Cluster DEF DataOK
    <3>2. mdl'[Control] >= 2
      BY <1>5, Cluster, GainIs
    <3> QED
      BY <3>1, <3>2
  <2>6. LegInv(a)'
    BY <2>3, <2>4, <2>5 DEF LegInv, Has
  <2> QED
    BY <2>4, <2>6 DEF EntryInv, SourceInv
<1> QED
  BY <1>2, <1>3, <1>4, <1>5

Compared(s, j, lost) ==
    LET workers == Tail(j.req.targets)
        wt == worker_transfer_hosts(j.req)
        stale(h) == h \in lost \/ img[h] # img[head(j)]
        pairs == {i \in DOMAIN workers \cap DOMAIN wt : stale(workers[i])}
    IN  IF head(j) \in lost \/ img[head(j)] = 0
        THEN Goto(s, [j EXCEPT !.step = "ensure"])
        ELSE IF \A h \in Elements(workers) : ~stale(h)
        THEN Goto(s, After(j, {}))
        ELSE Goto(s, [j EXCEPT !.step = "ensure",
                               !.hosts = {workers[i] : i \in pairs},
                               !.to = {wt[i] : i \in pairs}])

LEMMA KeptByCheckIdentities ==
  ASSUME DataOK, DataOK', NEW s \in Session, NEW j \in Job, j = job[s], NEW a \in Job, a = job'[s],
         NEW u \in BOOLEAN, EntryInv(j, u), CheckIdentities(s)
  PROVE  EntryInv(a, u)'
<1> DEFINE workers == Tail(j.req.targets)  wt == worker_transfer_hosts(j.req)
           stale(h, lost) == h \in lost \/ img[h] # img[head(j)]
           Pairs(lost) == {i \in DOMAIN workers \cap DOMAIN wt : stale(workers[i], lost)}
<1>1. j.leg = "head" /\ j.step = "probe" /\ img' = img /\ mdl' = mdl /\ mounts' = mounts
  BY DEF CheckIdentities, At
<1>2. PICK lost \in SUBSET Elements(j.req.targets) :
        IF head(j) \in lost \/ img[head(j)] = 0
        THEN Goto(s, [j EXCEPT !.step = "ensure"])
        ELSE IF \A h \in Elements(workers) : ~stale(h, lost)
        THEN Goto(s, After(j, {}))
        ELSE Goto(s, [j EXCEPT !.step = "ensure",
                               !.hosts = {workers[i] : i \in Pairs(lost)},
                               !.to = {wt[i] : i \in Pairs(lost)}])
  <2>1. PICK lost \in SUBSET Elements(job[s].req.targets) : Compared(s, job[s], lost)
    BY Zenon DEF CheckIdentities, Compared
  <2>2. lost \in SUBSET Elements(j.req.targets) /\ Compared(s, j, lost)
    BY <2>1
  <2> QED
    BY <2>2, Zenon DEF Compared
<1> DEFINE pairs == Pairs(lost)
<1>3. j.req \in Request /\ source(j) = head(j) /\ Served(j) = Elements(workers)
  BY <1>1 DEF Job, source, Served
<1>4. Aligned(j.req) /\ Fit(j) => /\ j.bad = {} /\ ~j.forced /\ kind(j) = "image"
                                  /\ j.hosts = {} => j.to = {}
                                  /\ Served(j) \subseteq j.to
  BY <1>1 DEF EntryInv, LegInv, HeadInv
<1>5. Aligned(j.req) /\ kind(j) = "image" /\ u /\ j.req.force => img[head(j)] >= j.since
  BY <1>1, <1>4 DEF EntryInv, FreshInv, Fit
<1>6. CASE Goto(s, [j EXCEPT !.step = "ensure"])
  <2>1. a = [j EXCEPT !.step = "ensure"]
    BY <1>6, MoveIs, ArrivesAt
  <2>2. /\ a.req = j.req /\ a.kinds = j.kinds /\ a.leg = "head" /\ a.step = "ensure"
        /\ a.mode = j.mode /\ a.to = j.to /\ a.bad = j.bad /\ a.hosts = j.hosts
        /\ a.since = j.since /\ a.forced = j.forced
    BY <1>1, <2>1 DEF Job
  <2>3. kind(a) = kind(j) /\ head(a) = head(j) /\ Served(a) = Served(j) /\ (Fit(a)' <=> Fit(j))
    BY <1>1, <2>2 DEF kind, head, Served, Fit, CacheIsShared, SkipFanOut
  <2>4. Aligned(j.req) /\ Fit(j) => LegInv(a)'
    BY <1>4, <2>2, <2>3 DEF LegInv, HeadInv
  <2>5. Aligned(j.req) /\ kind(j) = "image" => AgreeInv(a)'
    BY <1>4, <2>2, <2>3 DEF AgreeInv, Fit
  <2>6. Aligned(j.req) /\ kind(j) = "image" /\ u /\ j.req.force => FreshInv(a)'
    BY <1>1, <1>5, <2>2, <2>3 DEF FreshInv
  <2> QED
    BY <2>2, <2>3, <2>4, <2>5, <2>6 DEF EntryInv, SourceInv
<1>7. CASE (\A h \in Elements(workers) : ~stale(h, lost)) /\ img[head(j)] # 0 /\ Goto(s, After(j, {}))
  <2>1. a = After(j, {})
    BY <1>7, Continues, ArrivesAt
  <2>2. \A h \in Served(j) : img[h] = img[head(j)]
    BY <1>3, <1>7
  <2>3. Aligned(j.req) /\ Fit(j)' => kind(j) = "image"
    BY <1>1, <1>4 DEF Fit, CacheIsShared, SkipFanOut
  <2>4. Reached(j, u)'
    BY <1>1, <1>3, <1>5, <1>7, <2>2, <2>3 DEF Reached, Has
  <2> QED
    BY <2>1, <2>4, AfterFollows, FollowKeeps
<1>8. CASE /\ img[head(j)] # 0 /\ head(j) \notin lost
           /\ Goto(s, [j EXCEPT !.step = "ensure",
                                !.hosts = {workers[i] : i \in pairs}, !.to = {wt[i] : i \in pairs}])
  <2> DEFINE hosts == {workers[i] : i \in pairs}  to == {wt[i] : i \in pairs}
  <2>1. hosts \in SUBSET Node /\ to \in SUBSET Node
    <3>1. Elements(wt) \subseteq Node /\ Elements(workers) \subseteq Node
      BY <1>3, WorkerAddresses
    <3> QED
      BY <3>1 DEF Elements
  <2>2. a = [j EXCEPT !.step = "ensure", !.hosts = hosts, !.to = to]
    <3>1. Goto(s, [j EXCEPT !.step = "ensure", !.hosts = hosts, !.to = to])
      BY <1>8, Zenon
    <3> HIDE DEF hosts, to
    <3>2. [j EXCEPT !.step = "ensure", !.hosts = hosts, !.to = to] \in Job
      BY <2>1, MoveIs
    <3> QED
      BY <3>1, <3>2, ArrivesAt
  <2>3. Aligned(j.req) => /\ hosts = to
                          /\ \A h \in Elements(workers) \ to : img[h] = img[head(j)]
    <3> SUFFICES ASSUME Aligned(j.req)
                 PROVE  hosts = to /\ \A h \in Elements(workers) \ to : img[h] = img[head(j)]
      OBVIOUS
    <3>1. wt = workers
      BY <1>3, AlignedWorkers
    <3>2. ASSUME NEW i \in DOMAIN workers, workers[i] \notin to
          PROVE  img[workers[i]] = img[head(j)]
      BY <3>1, <3>2
    <3>3. \A h \in Elements(workers) \ to : img[h] = img[head(j)]
      <4> HIDE DEF workers, to
      <4> QED
        BY <3>2 DEF Elements
    <3> QED
      BY <3>1, <3>3
  <2> HIDE DEF hosts, to
  <2>4. /\ a.req = j.req /\ a.kinds = j.kinds /\ a.leg = "head" /\ a.step = "ensure"
        /\ a.mode = j.mode /\ a.to = to /\ a.bad = j.bad /\ a.hosts = hosts
        /\ a.since = j.since /\ a.forced = j.forced
    BY <1>1, <2>1, <2>2 DEF Job
  <2>5. kind(a) = kind(j) /\ head(a) = head(j) /\ Served(a) = Served(j) /\ (Fit(a)' <=> Fit(j))
    BY <1>1, <2>4 DEF kind, head, Served, Fit, CacheIsShared, SkipFanOut
  <2>6. Aligned(j.req) /\ Fit(j) => LegInv(a)'
    <3> SUFFICES ASSUME Aligned(j.req), Fit(j)
                 PROVE  LegInv(a)'
      OBVIOUS
    <3>1. kind(a) = "image" /\ ~a.forced /\ a.bad = {} /\ (a.hosts = {} => a.to \cup a.bad = {})
      BY <1>4, <2>3, <2>4, <2>5
    <3>2. img[head(a)] # 0 /\ \A h \in Served(a) \ a.to : img[h] # 0
      <4>1. img[head(j)] # 0
        BY <1>8
      <4>2. Served(a) = Elements(workers) /\ a.to = to /\ head(a) = head(j)
        BY <1>3, <2>4, <2>5
      <4> HIDE DEF workers
      <4> QED
        BY <2>3, <4>1, <4>2
    <3>3. HeadInv(a)'
      BY <1>1, <2>4, <3>1, <3>2 DEF HeadInv
    <3> QED
      BY <2>4, <3>3 DEF LegInv
  <2>7. Aligned(j.req) /\ kind(j) = "image" => AgreeInv(a)'
    BY <1>1, <1>3, <2>3, <2>4, <2>5 DEF AgreeInv
  <2>8. Aligned(j.req) /\ kind(j) = "image" /\ u /\ j.req.force => FreshInv(a)'
    BY <1>1, <1>5, <2>4, <2>5 DEF FreshInv
  <2> QED
    BY <2>4, <2>5, <2>6, <2>7, <2>8 DEF EntryInv, SourceInv
<1> QED
  BY <1>2, <1>6, <1>7, <1>8

(* The head has the resource and what it sends agrees: the leg goes on.    *)
LEMMA HeadIsReady ==
  ASSUME DataOK, DataOK', NEW s \in Session, NEW j \in Job, j = job[s], NEW a \in Job, a = job'[s],
         NEW u \in BOOLEAN, j.leg = "head", j.step = "ensure", Goto(s, HeadReady(j)),
         kind(j) = "image" => img'[head(j)] # 0,
         Aligned(j.req) /\ Fit(j)' =>
            /\ j.bad = {} /\ (j.hosts = {} => j.to = {})
            /\ Has(j, head(j))' /\ \A h \in Served(j) \ j.to : Has(j, h)'
            /\ kind(j) = "model" /\ SkipFanOut => \A h \in Served(j) : Has(j, h)',
         Aligned(j.req) /\ kind(j) = "image" /\ u =>
            /\ \A h \in Served(j) \ j.to : img'[h] = img'[head(j)]
            /\ j.req.force => img'[head(j)] >= j.since
  PROVE  EntryInv(a, u)'
<1>1. source(j) = head(j)
  BY DEF source
<1>2. kind(j) \in {"image", "model"}
  BY JobHosts DEF Kind
<1>3. CASE j.hosts = {} \/ (kind(j) = "model" /\ SkipFanOut)
  <2>1. Goto(s, After(j, {}))
    BY <1>3, Zenon DEF HeadReady
  <2>2. a = After(j, {})
    BY <2>1, Continues, ArrivesAt
  <2>3. Aligned(j.req) /\ Fit(j)' => \A h \in Served(j) : Has(j, h)'
    BY <1>3
  <2>4. Aligned(j.req) /\ kind(j) = "image" => j.to = {}
    BY <1>3 DEF Fit
  <2>5. Reached(j, u)'
    BY <1>1, <2>3, <2>4 DEF Reached
  <2> QED
    BY <2>2, <2>5, AfterFollows, FollowKeeps
<1>4. CASE ~(j.hosts = {} \/ (kind(j) = "model" /\ SkipFanOut))
  <2>1. Goto(s, [j EXCEPT !.step = "send"])
    BY <1>4, Zenon DEF HeadReady
  <2>2. a = [j EXCEPT !.step = "send"]
    BY <2>1, MoveIs, ArrivesAt
  <2>3. /\ a.req = j.req /\ a.kinds = j.kinds /\ a.leg = "head" /\ a.step = "send"
        /\ a.mode = j.mode /\ a.to = j.to /\ a.bad = j.bad /\ a.hosts = j.hosts
        /\ a.since = j.since
    BY <2>2 DEF Job
  <2>4. /\ kind(a) = kind(j) /\ head(a) = head(j) /\ Served(a) = Served(j) /\ (Fit(a)' <=> Fit(j)')
        /\ source(a) = head(j)
    BY <2>3 DEF kind, head, source, Served, Fit, CacheIsShared
  <2>5. SourceInv(a)'
    BY <2>4 DEF SourceInv
  <2>6. Aligned(j.req) /\ Fit(j)' => LegInv(a)'
    BY <1>4, <2>3, <2>4 DEF LegInv, HeadInv, Has
  <2>7. Aligned(j.req) /\ kind(j) = "image" /\ u => AgreeInv(a)' /\ (j.req.force => FreshInv(a)')
    BY <2>3, <2>4 DEF AgreeInv, FreshInv
  <2> QED
    BY <2>3, <2>4, <2>5, <2>6, <2>7 DEF EntryInv
<1> QED
  BY <1>3, <1>4

LEMMA KeptByPullOnHead ==
  ASSUME DataOK, DataOK', NEW s \in Session, NEW j \in Job, j = job[s], NEW a \in Job, a = job'[s],
         NEW u \in BOOLEAN, EntryInv(j, u), j.since <= registry, PullOnHead(s)
  PROVE  EntryInv(a, u)'
<1>1. kind(j) = "image" /\ j.leg = "head" /\ j.step = "ensure" /\ mounts' = mounts
  BY DEF PullOnHead, At
<1>2. \/ img[head(j)] # 0 /\ ~j.forced /\ Goto(s, HeadReady(j)) /\ img' = img
      \/ /\ ~(img[head(j)] # 0 /\ ~j.forced)
         /\ img' = [img EXCEPT ![head(j)] = registry] /\ Goto(s, HeadReady(j))
      \/ Goto(s, After(j, {head(j)} \cup j.hosts))
  BY DEF PullOnHead
<1>3. CASE Goto(s, After(j, {head(j)} \cup j.hosts))
  <2>1. {head(j)} \cup j.hosts \in SUBSET Node
    BY JobHosts DEF Job
  <2>2. a = After(j, {head(j)} \cup j.hosts)
    BY <1>3, <2>1, Continues, ArrivesAt
  <2> QED
    BY <2>1, <2>2, AfterFollows, FollowKeeps
<1>4. Fit(j) /\ Fit(j)'
  BY <1>1 DEF Fit
<1>5. Aligned(j.req) =>
         /\ j.bad = {} /\ (j.hosts = {} => j.to = {})
         /\ \/ Served(j) \subseteq j.to
            \/ ~j.forced /\ \A h \in {head(j)} \cup (Served(j) \ j.to) : img[h] # 0
  BY <1>1, <1>4 DEF EntryInv, LegInv, HeadInv
<1>6. Aligned(j.req) /\ u =>
         /\ \A h \in Served(j) \ j.to : img[h] = img[head(j)]
         /\ j.req.force /\ ~j.forced => img[head(j)] >= j.since
  BY <1>1 DEF EntryInv, AgreeInv, FreshInv
<1>7. registry \in Nat \ {0} /\ j.since \in Nat /\ head(j) \in DOMAIN img
  <2>1. head(j) \in Node
    BY JobHosts
  <2> QED
    BY <2>1, DistributionAssumption DEF DataOK, Job
<1>8. CASE img[head(j)] # 0 /\ ~j.forced /\ Goto(s, HeadReady(j)) /\ img' = img
  <2>1. Aligned(j.req) => Has(j, head(j))' /\ \A h \in Served(j) \ j.to : Has(j, h)'
    BY <1>1, <1>5, <1>8 DEF Has
  <2> QED
    BY <1>1, <1>5, <1>6, <1>8, <2>1, HeadIsReady
<1>9. CASE /\ ~(img[head(j)] # 0 /\ ~j.forced)
           /\ img' = [img EXCEPT ![head(j)] = registry] /\ Goto(s, HeadReady(j))
  <2>1. img'[head(j)] = registry
    BY <1>7, <1>9
  <2>2. Aligned(j.req) => Served(j) \ j.to = {}
    BY <1>5, <1>9
  <2>3. img'[head(j)] # 0 /\ img'[head(j)] >= j.since
    BY <1>7, <2>1
  <2>4. Has(j, head(j))'
    BY <1>1, <2>3 DEF Has
  <2> QED
    BY <1>1, <1>5, <1>9, <2>2, <2>3, <2>4, HeadIsReady
<1> QED
  BY <1>2, <1>3, <1>8, <1>9

LEMMA KeptByDownloadOnHead ==
  ASSUME DataOK, DataOK', NEW s \in Session, NEW j \in Job, j = job[s], NEW a \in Job, a = job'[s],
         NEW u \in BOOLEAN, EntryInv(j, u), DownloadOnHead(s)
  PROVE  EntryInv(a, u)'
<1> DEFINE F == {head(j)} \cup IF SkipFanOut THEN {} ELSE j.hosts
<1>1. kind(j) = "model" /\ j.leg = "head" /\ j.step = "ensure" /\ mounts' = mounts
  BY DEF DownloadOnHead, At
<1>2. \/ BareName /\ Goto(s, HeadReady(j))
      \/ Gain(head(j), 2) /\ Goto(s, HeadReady(j))
      \/ Goto(s, After(j, F))
  BY DEF DownloadOnHead
<1>3. CASE Goto(s, After(j, F))
  <2>1. F \in SUBSET Node /\ F # {}
    BY JobHosts DEF Job
  <2>2. a = After(j, F)
    BY <1>3, <2>1, Continues, ArrivesAt
  <2> HIDE DEF F
  <2> QED
    BY <2>1, <2>2, AfterFollows, FollowKeeps
<1>4. CASE BareName /\ Goto(s, HeadReady(j))
  <2>1. ~Fit(j)'
    BY <1>1, <1>4 DEF Fit
  <2> QED
    BY <1>1, <1>4, <2>1, HeadIsReady
<1>5. CASE Gain(head(j), 2) /\ Goto(s, HeadReady(j))
  <2>1. head(j) \in Node /\ Served(j) \in SUBSET Node
    BY JobHosts
  <2>2. \A m \in Node : mdl'[m] \in 0 .. 2
    BY DEF DataOK
  <2>3. mdl'[head(j)] >= 2 /\ \A m \in Node : {m, head(j)} \subseteq mounts => mdl'[m] >= 2
    BY <1>5, <2>1, GainIs
  <2>4. mdl'[head(j)] = 2 /\ \A m \in Node : {m, head(j)} \subseteq mounts => mdl'[m] = 2
    BY <2>1, <2>2, <2>3
  <2>5. Aligned(j.req) /\ Fit(j)' =>
           j.bad = {} /\ (j.hosts = {} => j.to = {}) /\ Served(j) \subseteq j.to
    <3>1. Fit(j)' => Fit(j)
      BY <1>1 DEF Fit, CacheIsShared, SkipFanOut
    <3> QED
      BY <1>1, <3>1 DEF EntryInv, LegInv, HeadInv
  <2>6. Fit(j)' /\ SkipFanOut => \A h \in Served(j) : mdl'[h] = 2
    <3>1. Fit(j)' /\ SkipFanOut => Elements(Hosts) \subseteq mounts
      BY <1>1 DEF Fit, CacheIsShared, SkipFanOut
    <3>2. Served(j) \subseteq Elements(Hosts) /\ head(j) \in Elements(Hosts)
      <4>1. j.req \in Request
        BY DEF Job
      <4>2. Served(j) = Elements(Tail(j.req.targets))
        BY <1>1 DEF Served
      <4> QED
        BY <4>1, <4>2, HeadAndWorkers DEF head
    <3> QED
      BY <2>1, <2>4, <3>1, <3>2
  <2>7. Has(j, head(j))'
    BY <1>1, <2>4 DEF Has
  <2>8. Fit(j)' /\ SkipFanOut => \A h \in Served(j) : Has(j, h)'
    BY <1>1, <2>6 DEF Has
  <2> QED
    BY <1>1, <1>5, <2>5, <2>7, <2>8, HeadIsReady
<1> QED
  BY <1>2, <1>3, <1>4, <1>5

LEMMA KeptByTransfer ==
  ASSUME DataOK, DataOK', NEW s \in Session, NEW j \in Job, j = job[s], NEW a \in Job, a = job'[s],
         NEW u \in BOOLEAN, EntryInv(j, u), NEW n \in Node, Transfer(s, n)
  PROVE  EntryInv(a, u)'
<1>1. j.step = "send" /\ n \in j.to /\ mounts' = mounts /\ kind(j) \in {"image", "model"}
  BY JobHosts DEF Transfer, Kind
<1>2. PICK bad \in {{}, {n}} :
        /\ Goto(s, [j EXCEPT !.to = @ \ {n}, !.bad = @ \cup bad])
        /\ IF kind(j) = "image"
           THEN mdl' = mdl /\ img' = IF bad = {} THEN [img EXCEPT ![n] = img[source(j)]] ELSE img
           ELSE img' = img /\ IF bad = {} THEN Gain(n, mdl[source(j)]) ELSE Gain(n, 1)
  BY DEF Transfer
<1>3. j.to \ {n} \in SUBSET Node /\ j.bad \cup bad \in SUBSET Node
  BY DEF Job
<1>4. a = [j EXCEPT !.to = j.to \ {n}, !.bad = j.bad \cup bad]
  <2>1. [j EXCEPT !.to = @ \ {n}, !.bad = @ \cup bad] = [j EXCEPT !.to = j.to \ {n}, !.bad = j.bad \cup bad]
    OBVIOUS
  <2>2. [j EXCEPT !.to = j.to \ {n}, !.bad = j.bad \cup bad] \in Job
    BY <1>3, MoveIs
  <2> QED
    BY <1>2, <2>1, <2>2, ArrivesAt
<1>5. /\ a.req = j.req /\ a.kinds = j.kinds /\ a.leg = j.leg /\ a.step = "send"
      /\ a.mode = j.mode /\ a.to = j.to \ {n} /\ a.bad = j.bad \cup bad /\ a.hosts = j.hosts
      /\ a.since = j.since
  BY <1>1, <1>4 DEF Job
<1>6. /\ kind(a) = kind(j) /\ head(a) = head(j) /\ Served(a) = Served(j) /\ (Fit(a)' <=> Fit(j))
      /\ source(a) = source(j)
  BY <1>1, <1>5 DEF kind, head, source, Served, dest, Fit, CacheIsShared, SkipFanOut
<1>7. source(j) \in Node /\ Served(j) \in SUBSET Node
  BY JobHosts
<1>8. ASSUME NEW h \in Served(j) \ (a.to \cup a.bad)
      PROVE  h \in Served(j) \ (j.to \cup j.bad) \/ (h = n /\ bad = {})
  BY <1>2, <1>5, <1>8
<1>9. kind(j) = "image" =>
         /\ img'[source(j)] = img[source(j)]
         /\ bad = {} => img'[n] = img[source(j)]
         /\ \A h \in Node \ {n} : img'[h] = img[h]
         /\ bad # {} => img' = img
  BY <1>2, <1>7 DEF DataOK
<1>10. kind(j) = "model" =>
          /\ \A h \in Node : mdl[h] = 2 => mdl'[h] = 2
          /\ bad = {} /\ mdl[source(j)] = 2 => mdl'[n] = 2
  <2> SUFFICES ASSUME kind(j) = "model"
               PROVE  /\ \A h \in Node : mdl[h] = 2 => mdl'[h] = 2
                      /\ bad = {} /\ mdl[source(j)] = 2 => mdl'[n] = 2
    OBVIOUS
  <2>1. mdl[source(j)] \in 0 .. 2 /\ \A m \in Node : mdl'[m] \in 0 .. 2
    BY <1>7 DEF DataOK
  <2>2. \A m \in Node : mdl'[m] >= mdl[m]
    BY <1>2, <2>1, GainIs
  <2>3. bad = {} => mdl'[n] >= mdl[source(j)]
    BY <1>2, <2>1, GainIs
  <2> QED
    BY <2>1, <2>2, <2>3 DEF DataOK
<1>11. SourceInv(a)'
  <2>1. kind(j) = "image" => img[source(j)] # 0
    BY <1>1 DEF EntryInv, SourceInv
  <2> QED
    BY <1>6, <1>9, <2>1 DEF SourceInv
<1>12. Aligned(j.req) /\ Fit(j) => LegInv(a)'
  <2> SUFFICES ASSUME Aligned(j.req), Fit(j)
               PROVE  LegInv(a)'
    OBVIOUS
  <2>1. /\ Has(j, source(j)) /\ \A h \in Served(j) \ (j.to \cup j.bad) : Has(j, h)
        /\ j.leg = "head" => j.hosts # {}
    BY <1>1 DEF EntryInv, LegInv, HeadInv
  <2>2. Has(j, source(j))'
    BY <1>1, <1>7, <1>9, <1>10, <2>1 DEF Has
  <2>3. \A h \in Served(j) \ (a.to \cup a.bad) : Has(j, h)'
    <3> SUFFICES ASSUME NEW h \in Served(j) \ (a.to \cup a.bad)
                 PROVE  Has(j, h)'
      OBVIOUS
    <3>1. CASE h # n
      <4>1. Has(j, h) /\ h \in Node
        BY <1>7, <1>8, <2>1, <3>1
      <4> QED
        BY <1>1, <1>9, <1>10, <3>1, <4>1 DEF Has
    <3>2. CASE h = n /\ bad = {}
      BY <1>1, <1>9, <1>10, <2>1, <3>2 DEF Has
    <3>3. CASE h = n /\ bad # {}
      BY <1>2, <1>5, <3>3
    <3> QED
      BY <3>1, <3>2, <3>3
  <2> QED
    BY <1>1, <1>5, <1>6, <2>1, <2>2, <2>3 DEF LegInv, HeadInv, Has
<1>13. Aligned(j.req) /\ kind(j) = "image" /\ u => AgreeInv(a)'
  <2> SUFFICES ASSUME Aligned(j.req), kind(j) = "image", u
               PROVE  \A h \in Served(j) \ (a.to \cup a.bad) : img'[h] = img'[source(j)]
    BY <1>5, <1>6 DEF AgreeInv
  <2>1. \A h \in Served(j) \ (j.to \cup j.bad) : img[h] = img[source(j)]
    BY <1>1 DEF EntryInv, AgreeInv
  <2> SUFFICES ASSUME NEW h \in Served(j) \ (a.to \cup a.bad)
               PROVE  img'[h] = img'[source(j)]
    OBVIOUS
  <2>2. CASE h # n
    BY <1>7, <1>8, <1>9, <2>1, <2>2
  <2>3. CASE h = n /\ bad = {}
    BY <1>9, <2>3
  <2>4. CASE h = n /\ bad # {}
    BY <1>2, <1>5, <2>4
  <2> QED
    BY <2>2, <2>3, <2>4
<1>14. Aligned(j.req) /\ kind(j) = "image" /\ u /\ j.req.force => FreshInv(a)'
  <2> SUFFICES ASSUME Aligned(j.req), kind(j) = "image", u, j.req.force
               PROVE  FreshInv(a)'
    OBVIOUS
  <2>1. j.leg \in {"local", "head"} /\ img[source(j)] >= j.since
    BY <1>1 DEF EntryInv, FreshInv, source, Job
  <2> QED
    BY <1>5, <1>6, <1>9, <2>1 DEF FreshInv, source
<1> QED
  BY <1>5, <1>6, <1>11, <1>12, <1>13, <1>14 DEF EntryInv

LEMMA KeptByCollect ==
  ASSUME DataOK, DataOK', NEW s \in Session, NEW j \in Job, j = job[s], NEW a \in Job, a = job'[s],
         NEW u \in BOOLEAN, EntryInv(j, u), Collect(s)
  PROVE  EntryInv(a, u)'
<1>1. j.step = "send" /\ j.to = {} /\ img' = img /\ mdl' = mdl /\ mounts' = mounts
  BY DEF Collect
<1>2. Failed(j) \in SUBSET Node
  <2>1. j.hosts \in SUBSET Node
    BY DEF Job
  <2> QED
    BY <2>1, FailuresMapped DEF Failed
<1>3. a = After(j, Failed(j))
  <2>1. Goto(s, After(j, Failed(j)))
    BY Zenon DEF Collect, Failed
  <2> QED
    BY <1>2, <2>1, Continues, ArrivesAt
<1>4. j.leg \in {"local", "head"}
  BY DEF Job
<1>5. ASSUME Failed(j) = {}
      PROVE  Reached(j, u)'
  <2> SUFFICES ASSUME Aligned(j.req)
               PROVE  /\ Fit(j)' => /\ \A h \in Served(j) : Has(j, h)'
                                    /\ j.leg = "head" => Has(j, head(j))'
                      /\ kind(j) = "image" /\ u =>
                            /\ \A h \in Served(j) : img'[h] = img'[source(j)]
                            /\ j.req.force => img'[source(j)] >= j.since
    BY DEF Reached
  <2>1. Fit(j)' => Fit(j)
    BY <1>1 DEF Fit, CacheIsShared, SkipFanOut
  <2>2. Fit(j) => j.bad = {}
    <3>1. CASE j.leg = "local"
      <4>1. \E xfer : Failed(j) = map_transfer_failures(j.bad, xfer, dest(j))
        BY <3>1, Zenon DEF Failed
      <4> QED
        BY <1>5, <4>1, FailuresMapped
    <3>2. CASE j.leg = "head"
      <4>1. j.bad = {} \/ j.hosts = {}
        BY <1>5, <3>2 DEF Failed
      <4>2. Fit(j) /\ j.hosts = {} => j.bad = {}
        BY <1>1, <3>2 DEF EntryInv, LegInv, HeadInv
      <4> QED
        BY <4>1, <4>2
    <3> QED
      BY <1>4, <3>1, <3>2
  <2>3. Fit(j) => Has(j, source(j)) /\ \A h \in Served(j) : Has(j, h)
    BY <1>1, <2>2 DEF EntryInv, LegInv
  <2>4. Fit(j)' => Has(j, source(j))' /\ \A h \in Served(j) : Has(j, h)'
    BY <1>1, <2>1, <2>3 DEF Has
  <2>5. j.leg = "head" => source(j) = head(j)
    BY DEF source
  <2>6. kind(j) = "image" /\ u =>
           /\ \A h \in Served(j) : img[h] = img[source(j)]
           /\ j.req.force => img[source(j)] >= j.since
    BY <1>1, <1>4, <2>2 DEF EntryInv, AgreeInv, FreshInv, Fit, source
  <2> QED
    BY <1>1, <2>4, <2>5, <2>6
<1> QED
  BY <1>2, <1>3, <1>5, AfterFollows, FollowKeeps

LEMMA KeptByProceed ==
  ASSUME DataOK, DataOK', NEW s \in Session, NEW j \in Job, j = job[s], NEW a \in Job, a = job'[s],
         NEW u \in BOOLEAN, Proceed(s)
  PROVE  a.since = j.since /\ (a.step \in {"done", "failed"} \/ EntryInv(a, u)')
<1>1. CASE j.failed # {} \/ Len(j.kinds) = 1
  <2>1. PICK step \in {"done", "failed"} : Goto(s, [j EXCEPT !.step = step])
    BY <1>1 DEF Proceed
  <2>2. a = [j EXCEPT !.step = step]
    BY <2>1, MoveIs, ArrivesAt
  <2> QED
    BY <2>2 DEF Job
<1>2. CASE ~(j.failed # {}) /\ Len(j.kinds) # 1
  <2> DEFINE r == [j EXCEPT !.kinds = Tail(@)]
  <2>1. Goto(s, Begin(r))
    BY <1>2, Zenon DEF Proceed
  <2>2. r \in Job /\ r.since = j.since
    BY <1>2, NextKind
  <2> HIDE DEF r
  <2>3. a = Begin(r) /\ a.since = j.since
    BY <2>1, <2>2, BeginIs, ArrivesAt
  <2> QED
    BY <2>2, <2>3, EntryBegins
<1> QED
  BY <1>1, <1>2

LEMMA KeptByInterrupt ==
  ASSUME DataOK, DataOK', NEW s \in Session, NEW j \in Job, j = job[s], NEW a \in Job, a = job'[s],
         NEW u \in BOOLEAN, Interrupt(s)
  PROVE  a.since = j.since /\ EntryInv(a, u)'
<1>1. Elements(j.req.targets) \in SUBSET Node /\ Elements(j.req.targets) # {}
  BY JobHosts
<1>2. Goto(s, Leave(j, Elements(j.req.targets)))
  BY DEF Interrupt
<1>3. a = Leave(j, Elements(j.req.targets))
  BY <1>1, <1>2, LeaveIs, ArrivesAt
<1>4. a.step = "leave" /\ a.failed = Elements(j.req.targets) /\ a.since = j.since
  BY <1>1, <1>3, LeaveIs
<1> QED
  BY <1>1, <1>4, EntryFails

LEMMA KeptByStart ==
  ASSUME DataOK, DataOK', NEW s \in Session, NEW a \in Job, a = job'[s],
         NEW u \in BOOLEAN, Start(s)
  PROVE  a.since = registry /\ EntryInv(a, u)'
<1>1. PICK r \in Job : a = Begin(r) /\ r.since = registry
  BY StartsFrom, BeginIs, ArrivesAt
<1> QED
  BY <1>1, BeginIs, EntryBegins

(* Sessions leave the entries of the others as they are. *)
LEMMA Bridge ==
  ASSUME NEW s \in Session, NEW a \in Job, a = job'[s], NEW u \in BOOLEAN, u = alone'[s],
         a.since <= registry', u => \A t \in Session \ {s} : ~Active(t)',
         a.step \in {"idle", "done", "failed"} \/ EntryInv(a, u)'
  PROVE  SessionInv(s)'
BY DEF SessionInv, Active

(* What the nodes hold only grows, the transfers of an image included:     *)
(* what a session sends is there.                                          *)
Grows ==
    /\ \A n \in Node : (img[n] # 0 => img'[n] # 0) /\ (mdl[n] = 2 => mdl'[n] = 2)
    /\ registry <= registry'
    /\ mounts' = mounts

LEMMA GainGrows ==
  ASSUME DataOK, NEW n \in Node, NEW some \in 0 .. 2, Gain(n, some)
  PROVE  \A m \in Node : mdl[m] = 2 => mdl'[m] = 2
<1>1. \A m \in Node : mdl[m] \in 0 .. 2 /\ mdl'[m] \in 0 .. 2 /\ mdl'[m] >= mdl[m]
  BY GainIs DEF DataOK
<1> QED
  BY <1>1

LEMMA StepGrows ==
  ASSUME DataOK, DataOK', NEW s \in Session, SessionInv(s), SessionStep(s)
  PROVE  Grows
<1>1. registry \in Nat \ {0} /\ Control \in Node /\ img \in [Node -> 0 .. MaxVersion]
  BY Cluster DEF DataOK
<1>2. CASE Start(s) \/ _filter_hosts_needing_image(s) \/ CheckIdentities(s) \/ Collect(s)
  <2>1. UNCHANGED <<img, mdl, registry, mounts>>
    BY <1>2, Zenon DEF Start, _filter_hosts_needing_image, CheckIdentities, Collect
  <2> QED
    BY <1>1, <2>1 DEF Grows
<1>3. CASE Proceed(s) \/ Interrupt(s) \/ Die(s)
  BY <1>1, <1>3 DEF Proceed, Interrupt, Die, Grows
<1>4. CASE EnsureImage(s)
  BY <1>1, <1>4 DEF EnsureImage, Grows
<1>5. CASE DownloadModel(s)
  BY <1>1, <1>5, GainGrows DEF DownloadModel, Grows
<1>6. CASE PullOnHead(s)
  BY <1>1, <1>6 DEF PullOnHead, Grows
<1>7. CASE DownloadOnHead(s)
  <2>1. job[s] \in Job
    BY <1>7, Started DEF DownloadOnHead, At
  <2>2. head(job[s]) \in Node
    BY <2>1, JobHosts
  <2>3. \A n \in Node : mdl[n] = 2 => mdl'[n] = 2
    BY <1>7, <2>2, GainGrows DEF DownloadOnHead
  <2> QED
    BY <1>1, <1>7, <2>3 DEF DownloadOnHead, Grows
<1>8. ASSUME NEW n \in Node, Transfer(s, n)
      PROVE  Grows
  <2>1. job[s] \in Job
    BY <1>8, Started DEF Transfer
  <2>2. source(job[s]) \in Node
    BY <2>1, JobHosts
  <2>3. mdl[source(job[s])] \in 0 .. 2
    BY <2>2 DEF DataOK
  <2>4. \A m \in Node : mdl[m] = 2 => mdl'[m] = 2
    BY <1>8, <2>3, GainGrows DEF Transfer
  <2>5. kind(job[s]) = "image" => img[source(job[s])] # 0
    BY <1>8 DEF Transfer, SessionInv, Active, EntryInv, SourceInv
  <2>6. \A m \in Node : img[m] # 0 => img'[m] # 0
    BY <1>1, <1>8, <2>2, <2>5 DEF Transfer
  <2> QED
    BY <1>1, <1>8, <2>4, <2>6 DEF Transfer, Grows
<1>9. CASE Locking(s)
  BY <1>1, <1>9 DEF Locking, distVars, Grows
<1> QED
  BY <1>2, <1>3, <1>4, <1>5, <1>6, <1>7, <1>8, <1>9 DEF SessionStep

(* An entry is as it was when its session does not move, and the images    *)
(* are what they were when it is undisturbed.                              *)
LEMMA EntryStays ==
  ASSUME NEW j \in Job, NEW u \in BOOLEAN, NEW v \in BOOLEAN, v => u,
         EntryInv(j, u), Grows, v => img' = img
  PROVE  EntryInv(j, v)'
<1>1. /\ source(j) \in Node /\ Served(j) \in SUBSET Node /\ head(j) \in Node
      /\ Elements(j.req.targets) \in SUBSET Node
  BY JobHosts
<1>2. Fit(j)' <=> Fit(j)
  BY DEF Fit, CacheIsShared, SkipFanOut, Grows
<1>3. \A n \in Node : Has(j, n) => Has(j, n)'
  BY DEF Has, Grows
<1>4. SourceInv(j)'
  BY <1>1 DEF EntryInv, SourceInv, Grows
<1>5. LegInv(j) => LegInv(j)'
  <2> SUFFICES ASSUME LegInv(j)
               PROVE  LegInv(j)'
    OBVIOUS
  <2>1. HeadInv(j) => HeadInv(j)'
    BY <1>1 DEF HeadInv, Grows
  <2>2. j.step = "send" => Has(j, source(j))' /\ \A h \in Served(j) \ (j.to \cup j.bad) : Has(j, h)'
    BY <1>1, <1>3 DEF LegInv
  <2>3. j.step = "leave" /\ j.failed = {} => \A h \in Elements(j.req.targets) : Has(j, h)'
    BY <1>1, <1>3 DEF LegInv
  <2> QED
    BY <2>1, <2>2, <2>3 DEF LegInv
<1>6. v /\ AgreeInv(j) => AgreeInv(j)'
  BY DEF AgreeInv
<1>7. v /\ FreshInv(j) => FreshInv(j)'
  BY DEF FreshInv
<1> QED
  BY <1>2, <1>4, <1>5, <1>6, <1>7 DEF EntryInv

(* A session that has started moves nobody else, and only while active.    *)
LEMMA MovesItself ==
  ASSUME DataOK, DataOK', NEW s \in Session, SessionStep(s), ~Start(s), ~Locking(s)
  PROVE  /\ Active(s) /\ job[s] \in Job /\ job'[s] \in Job /\ alone' = alone
         /\ \A t \in Session \ {s} : job'[t] = job[t]
<1>1. Active(s)
  BY DEF SessionStep, EnsureImage, _filter_hosts_needing_image, DownloadModel, CheckIdentities,
         PullOnHead, DownloadOnHead, Transfer, Collect, Proceed, Interrupt, Die, At, Active
<1>2. job[s] \in Job
  BY <1>1, Started DEF Active
<1>3. job'[s] \in Job
  BY TypedEnsureImage, TypedFilter, TypedDownloadModel, TypedCheckIdentities, TypedPullOnHead,
     TypedDownloadOnHead, TypedTransfer, TypedCollect, TypedProceed, TypedEnds DEF SessionStep
<1>4. alone' = alone
  <2>1. CASE EnsureImage(s) \/ _filter_hosts_needing_image(s) \/ DownloadModel(s) \/ CheckIdentities(s)
    BY <2>1, Zenon DEF EnsureImage, _filter_hosts_needing_image, DownloadModel, CheckIdentities
  <2>2. CASE PullOnHead(s) \/ DownloadOnHead(s) \/ \E n \in Node : Transfer(s, n)
    BY <2>2, Zenon DEF PullOnHead, DownloadOnHead, Transfer
  <2>3. CASE Collect(s) \/ Proceed(s) \/ Interrupt(s) \/ Die(s)
    BY <2>3, Zenon DEF Collect, Proceed, Interrupt, Die
  <2> QED
    BY <2>1, <2>2, <2>3 DEF SessionStep
<1>5. \E x : Goto(s, x)
  <2>1. CASE EnsureImage(s) \/ _filter_hosts_needing_image(s) \/ DownloadModel(s)
    BY <2>1, Zenon DEF EnsureImage, _filter_hosts_needing_image, DownloadModel
  <2>2. CASE CheckIdentities(s)
    BY <2>2, Zenon DEF CheckIdentities
  <2>3. CASE PullOnHead(s) \/ DownloadOnHead(s) \/ \E n \in Node : Transfer(s, n)
    BY <2>3, Zenon DEF PullOnHead, DownloadOnHead, Transfer
  <2>4. CASE Collect(s) \/ Proceed(s) \/ Interrupt(s) \/ Die(s)
    BY <2>4, Zenon DEF Collect, Proceed, Interrupt, Die
  <2> QED
    BY <2>1, <2>2, <2>3, <2>4 DEF SessionStep
<1>6. \A t \in Session \ {s} : job'[t] = job[t]
  BY <1>5 DEF Goto, DataOK
<1> QED
  BY <1>1, <1>2, <1>3, <1>4, <1>6

(* The steps of a session belong to the call it started with. *)
LEMMA SameCall ==
  ASSUME DataOK, DataOK', NEW s \in Session, SessionStep(s), ~Start(s), ~Locking(s),
         NEW j \in Job, j = job[s]
  PROVE  \E x \in Job : Goto(s, x) /\ x.since = j.since
<1> DEFINE Same(x) == x \in Job /\ x.since = j.since
<1>1. ASSUME NEW F \in SUBSET Node
      PROVE  Same(After(j, F))
  BY AfterFollows, FollowsIs
<1>2. ASSUME NEW step \in {"probe", "ensure", "send", "leave", "done", "failed"},
             NEW to \in SUBSET Node, NEW bad \in SUBSET Node, NEW hosts \in SUBSET Node
      PROVE  /\ Same([j EXCEPT !.step = step])
             /\ Same([j EXCEPT !.step = step, !.bad = bad, !.to = to])
             /\ Same([j EXCEPT !.step = step, !.to = to, !.bad = bad])
             /\ Same([j EXCEPT !.step = step, !.hosts = hosts, !.to = to])
             /\ Same([j EXCEPT !.to = to, !.bad = bad])
  <2>1. /\ [j EXCEPT !.step = step].since = j.since
        /\ [j EXCEPT !.step = step, !.bad = bad, !.to = to].since = j.since
        /\ [j EXCEPT !.step = step, !.to = to, !.bad = bad].since = j.since
        /\ [j EXCEPT !.step = step, !.hosts = hosts, !.to = to].since = j.since
        /\ [j EXCEPT !.to = to, !.bad = bad].since = j.since
    BY DEF Job
  <2>2. /\ [j EXCEPT !.step = step] \in Job
        /\ [j EXCEPT !.step = step, !.bad = bad, !.to = to] \in Job
        /\ [j EXCEPT !.step = step, !.to = to, !.bad = bad] \in Job
        /\ [j EXCEPT !.step = step, !.hosts = hosts, !.to = to] \in Job
        /\ [j EXCEPT !.to = to, !.bad = bad] \in Job
    <3>1. [j EXCEPT !.step = step] \in Job
      BY MoveIs
    <3>2. [j EXCEPT !.step = step, !.bad = bad, !.to = to] \in Job
      BY MoveIs
    <3>3. [j EXCEPT !.step = step, !.to = to, !.bad = bad] \in Job
      BY MoveIs
    <3>4. [j EXCEPT !.step = step, !.hosts = hosts, !.to = to] \in Job
      BY MoveIs
    <3>5. [j EXCEPT !.to = to, !.bad = bad] \in Job
      BY MoveIs
    <3> QED
      BY <3>1, <3>2, <3>3, <3>4, <3>5
  <2> QED
    BY <2>1, <2>2, Zenon
<1>3. Same(HeadReady(j))
  <2>1. Same(After(j, {})) /\ Same([j EXCEPT !.step = "send"])
    BY <1>1, <1>2
  <2> QED
    BY <2>1, Zenon DEF HeadReady
<1> HIDE DEF Same
<1>4. /\ Elements(dest(j)) \in SUBSET Node /\ {head(j)} \cup j.hosts \in SUBSET Node
      /\ {head(j)} \cup (IF SkipFanOut THEN {} ELSE j.hosts) \in SUBSET Node
      /\ Elements(j.req.targets) \in SUBSET Node
  <2>1. j.hosts \in SUBSET Node
    BY DEF Job
  <2> QED
    BY <2>1, JobHosts
<1>5. \E x : Same(x) /\ Goto(s, x)
  <2>1. CASE EnsureImage(s)
    BY <1>1, <1>2, <1>4, <2>1 DEF EnsureImage
  <2>2. CASE _filter_hosts_needing_image(s)
    <3>1. PICK to \in SUBSET Elements(dest(j)) : Goto(s, [j EXCEPT !.step = "send", !.bad = {}, !.to = to])
      BY <2>2 DEF _filter_hosts_needing_image
    <3> QED
      BY <1>2, <1>4, <3>1
  <2>3. CASE DownloadModel(s)
    BY <1>1, <1>2, <1>4, <2>3 DEF DownloadModel
  <2>4. CASE CheckIdentities(s)
    <3>1. PICK lost \in SUBSET Elements(job[s].req.targets) : Compared(s, job[s], lost)
      BY <2>4, Zenon DEF CheckIdentities, Compared
    <3>2. Compared(s, j, lost)
      BY <3>1
    <3> DEFINE workers == Tail(j.req.targets)  wt == worker_transfer_hosts(j.req)
               pairs == {i \in DOMAIN workers \cap DOMAIN wt :
                           workers[i] \in lost \/ img[workers[i]] # img[head(j)]}
               hosts == {workers[i] : i \in pairs}  to == {wt[i] : i \in pairs}
    <3>3. \/ Goto(s, [j EXCEPT !.step = "ensure"]) \/ Goto(s, After(j, {}))
          \/ Goto(s, [j EXCEPT !.step = "ensure", !.hosts = hosts, !.to = to])
      BY <3>2, Zenon DEF Compared
    <3>4. hosts \in SUBSET Node /\ to \in SUBSET Node
      <4>1. j.req \in Request
        BY DEF Job
      <4>2. Elements(wt) \subseteq Node /\ Elements(workers) \subseteq Node
        BY <4>1, WorkerAddresses
      <4> QED
        BY <4>2 DEF Elements
    <3> HIDE DEF hosts, to
    <3> QED
      BY <1>1, <1>2, <3>3, <3>4
  <2>5. CASE PullOnHead(s)
    BY <1>1, <1>3, <1>4, <2>5 DEF PullOnHead
  <2>6. CASE DownloadOnHead(s)
    BY <1>1, <1>3, <1>4, <2>6 DEF DownloadOnHead
  <2>7. ASSUME NEW n \in Node, Transfer(s, n)
        PROVE  \E x : Same(x) /\ Goto(s, x)
    <3>1. PICK bad \in {{}, {n}} : Goto(s, [j EXCEPT !.to = @ \ {n}, !.bad = @ \cup bad])
      BY <2>7 DEF Transfer
    <3>2. [j EXCEPT !.to = @ \ {n}, !.bad = @ \cup bad]
            = [j EXCEPT !.to = j.to \ {n}, !.bad = j.bad \cup bad]
      OBVIOUS
    <3>3. j.to \ {n} \in SUBSET Node /\ j.bad \cup bad \in SUBSET Node
      BY DEF Job
    <3> QED
      BY <1>2, <3>1, <3>2, <3>3
  <2>8. CASE Collect(s)
    <3>1. Failed(j) \in SUBSET Node
      <4>1. j.hosts \in SUBSET Node
        BY DEF Job
      <4> QED
        BY <4>1, FailuresMapped DEF Failed
    <3>2. Goto(s, After(j, Failed(j)))
      BY <2>8, Zenon DEF Collect, Failed
    <3> QED
      BY <1>1, <3>1, <3>2
  <2>9. CASE Proceed(s)
    <3>1. PICK x \in Job : x = job'[s]
      BY <2>9, TypedProceed
    <3>2. x.since = j.since
      BY <2>9, <3>1, KeptByProceed
    <3>3. \E y : Goto(s, y)
      BY <2>9, Zenon DEF Proceed
    <3>4. Goto(s, x)
      BY <3>1, <3>3 DEF Goto, DataOK
    <3> QED
      BY <3>2, <3>4 DEF Same
  <2>10. CASE Interrupt(s)
    BY <1>4, <2>10, LeaveIs DEF Interrupt, Same
  <2>11. CASE Die(s)
    BY <1>2, <2>11 DEF Die
  <2> QED
    BY <2>1, <2>2, <2>3, <2>4, <2>5, <2>6, <2>7, <2>8, <2>9, <2>10, <2>11 DEF SessionStep
<1> QED
  BY <1>5 DEF Same

(* The invariant of the session that steps. *)
LEMMA OwnStep ==
  ASSUME DataOK, DataOK', NEW s \in Session, SessionInv(s), SessionStep(s), ~Locking(s)
  PROVE  SessionInv(s)'
<1>1. PICK a \in Job : a = job'[s]
  BY MovesItself, TypedStart
<1>2. PICK u \in BOOLEAN : u = alone'[s]
  BY DEF DataOK
<1>3. CASE Start(s)
  <2>1. a.since = registry /\ EntryInv(a, u)'
    BY <1>1, <1>3, KeptByStart
  <2>5. a.since <= registry'
    <3>1. registry' = registry /\ registry \in Nat
      BY <1>3 DEF Start, DataOK
    <3> QED
      BY <2>1, <3>1
  <2>2. \A t \in Session \ {s} : job'[t] = job[t]
    <3>1. PICK r \in Job : Goto(s, Begin(r))
      BY <1>3, StartsFrom
    <3> QED
      BY <3>1 DEF Goto, DataOK
  <2>3. alone'[s] <=> \A t \in Session \ {s} : ~Active(t)
    BY <1>3 DEF Start
  <2>4. u => \A t \in Session \ {s} : ~Active(t)'
    BY <1>2, <2>2, <2>3 DEF Active
  <2> QED
    BY <1>1, <1>2, <2>1, <2>4, <2>5, Bridge
<1>4. CASE ~Start(s)
  <2>1. /\ Active(s) /\ alone' = alone
        /\ \A t \in Session \ {s} : job'[t] = job[t]
    BY <1>4, MovesItself
  <2>2. PICK j \in Job : j = job[s]
    BY <1>4, MovesItself
  <2>3. u = alone[s]
    BY <1>2, <2>1
  <2>4. /\ j.since <= registry /\ EntryInv(j, u)
        /\ u => \A t \in Session \ {s} : ~Active(t)
    BY <2>1, <2>2, <2>3 DEF SessionInv
  <2>5. u => \A t \in Session \ {s} : ~Active(t)'
    BY <2>1, <2>4 DEF Active
  <2>6. a.since <= registry'
    <3>1. a.since = j.since
      BY <1>1, <1>4, <2>2, SameCall, ArrivesAt
    <3> QED
      BY <2>4, <3>1, StepGrows DEF Grows, DataOK, Job
  <2>7. a.step \in {"idle", "done", "failed"} \/ EntryInv(a, u)'
    <3>1. CASE EnsureImage(s) \/ _filter_hosts_needing_image(s) \/ DownloadModel(s)
      BY <1>1, <2>2, <2>4, <3>1, KeptByEnsureImage, KeptByFilter, KeptByDownloadModel
    <3>2. CASE CheckIdentities(s) \/ PullOnHead(s) \/ DownloadOnHead(s)
      BY <1>1, <2>2, <2>4, <3>2, KeptByCheckIdentities, KeptByPullOnHead, KeptByDownloadOnHead
    <3>3. CASE (\E n \in Node : Transfer(s, n)) \/ Collect(s)
      BY <1>1, <2>2, <2>4, <3>3, KeptByTransfer, KeptByCollect
    <3>4. CASE Proceed(s) \/ Interrupt(s)
      BY <1>1, <2>2, <3>4, KeptByProceed, KeptByInterrupt
    <3>5. CASE Die(s)
      <4>1. a = [j EXCEPT !.step = "failed"]
        BY <1>1, <2>2, <3>5, MoveIs, ArrivesAt DEF Die
      <4> QED
        BY <4>1 DEF Job
    <3> QED
      BY <1>4, <3>1, <3>2, <3>3, <3>4, <3>5 DEF SessionStep
  <2> QED
    BY <1>1, <1>2, <2>5, <2>6, <2>7, Bridge
<1> QED
  BY <1>3, <1>4

(* The invariant of the other sessions. *)
LEMMA OthersStep ==
  ASSUME DataOK, DataOK', NEW s \in Session, SessionInv(s), SessionStep(s), ~Locking(s),
         NEW t \in Session \ {s}, SessionInv(t)
  PROVE  SessionInv(t)'
<1>1. job'[t] = job[t]
  <2>1. CASE Start(s)
    <3>1. PICK r \in Job : Goto(s, Begin(r))
      BY <2>1, StartsFrom
    <3> QED
      BY <3>1 DEF Goto, DataOK
  <2> QED
    BY <2>1, MovesItself
<1>2. CASE ~Active(t)
  BY <1>1, <1>2 DEF SessionInv, Active
<1>3. CASE Active(t)
  <2>1. PICK j \in Job : j = job[t]
    BY <1>3, Started DEF Active
  <2>2. PICK u \in BOOLEAN : u = alone[t]
    BY DEF DataOK
  <2>3. PICK v \in BOOLEAN : v = alone'[t]
    BY DEF DataOK
  <2>4. /\ j.since <= registry /\ EntryInv(j, u)
        /\ u => \A x \in Session \ {t} : ~Active(x)
    BY <1>3, <2>1, <2>2 DEF SessionInv
  <2>5. Grows
    BY StepGrows
  <2>6. ~v
    <3>1. CASE Start(s)
      <4>1. alone'[t] = (alone[t] /\ ~Active(t))
        BY <3>1 DEF Start
      <4> QED
        BY <1>3, <2>3, <4>1
    <3>2. CASE ~Start(s)
      BY <2>2, <2>3, <2>4, <3>2, MovesItself
    <3> QED
      BY <3>1, <3>2
  <2>7. EntryInv(j, v)'
    BY <2>4, <2>5, <2>6, EntryStays
  <2>8. j.since <= registry'
    BY <2>4, <2>5 DEF Grows, DataOK, Job
  <2> QED
    BY <1>1, <2>1, <2>3, <2>6, <2>7, <2>8, Bridge
<1> QED
  BY <1>2, <1>3

-----------------------------------------------------------------------------
(* The invariant of the sessions. *)
LEMMA SessionsKept ==
  ASSUME DataOK, \A s \in Session : SessionInv(s), [Next]_vars
  PROVE  \A s \in Session : SessionInv(s)'
<1>1. DataOK'
  BY DataKept
<1>2. ASSUME UNCHANGED distVars, NEW t \in Session
      PROVE  SessionInv(t)'
  <2>1. UNCHANGED <<img, mdl, registry, mounts, job, alone, faults>>
    BY <1>2 DEF distVars
  <2>2. CASE ~Active(t)
    BY <2>1, <2>2 DEF SessionInv, Active
  <2>3. CASE Active(t)
    <3>1. PICK j \in Job : j = job[t]
      BY <2>3, Started DEF Active
    <3>2. PICK u \in BOOLEAN : u = alone[t]
      BY DEF DataOK
    <3>3. j.since <= registry /\ EntryInv(j, u) /\ (u => \A x \in Session \ {t} : ~Active(x))
      BY <2>3, <3>1, <3>2 DEF SessionInv
    <3>4. Grows
      BY <2>1 DEF Grows, DataOK
    <3>5. EntryInv(j, u)'
      BY <2>1, <3>3, <3>4, EntryStays
    <3>6. u => \A x \in Session \ {t} : ~Active(x)'
      BY <2>1, <3>3 DEF Active
    <3> QED
      BY <2>1, <3>1, <3>2, <3>3, <3>5, <3>6, Bridge
  <2> QED
    BY <2>2, <2>3
<1>3. ASSUME NEW s \in Session, SessionStep(s), NEW t \in Session
      PROVE  SessionInv(t)'
  <2>1. CASE Locking(s)
    BY <1>2, <2>1 DEF Locking
  <2>2. CASE ~Locking(s) /\ t = s
    BY <1>1, <1>3, <2>2, OwnStep
  <2>3. CASE ~Locking(s) /\ t # s
    BY <1>1, <1>3, <2>3, OthersStep
  <2> QED
    BY <2>1, <2>2, <2>3
<1>4. ASSUME Viewing \/ UNCHANGED vars, NEW t \in Session
      PROVE  SessionInv(t)'
  <2>1. UNCHANGED distVars
    BY <1>4 DEF Viewing, vars
  <2> QED
    BY <1>2, <2>1
<1>5. ASSUME Publish, NEW t \in Session
      PROVE  SessionInv(t)'
  <2>1. UNCHANGED <<img, mdl, mounts, job, alone>> /\ registry' = registry + 1 /\ registry \in Nat
    BY <1>5 DEF Publish, DataOK
  <2>2. CASE ~Active(t)
    BY <2>1, <2>2 DEF SessionInv, Active
  <2>3. CASE Active(t)
    <3>1. PICK j \in Job : j = job[t]
      BY <2>3, Started DEF Active
    <3>2. PICK u \in BOOLEAN : u = alone[t]
      BY DEF DataOK
    <3>3. j.since <= registry /\ EntryInv(j, u) /\ (u => \A x \in Session \ {t} : ~Active(x))
      BY <2>3, <3>1, <3>2 DEF SessionInv
    <3>4. Grows
      BY <2>1 DEF Grows
    <3>5. EntryInv(j, u)'
      BY <2>1, <3>3, <3>4, EntryStays
    <3>6. u => \A x \in Session \ {t} : ~Active(x)'
      BY <2>1, <3>3 DEF Active
    <3>7. j.since <= registry'
      BY <2>1, <3>3 DEF Job
    <3> QED
      BY <2>1, <3>1, <3>2, <3>5, <3>6, <3>7, Bridge
  <2> QED
    BY <2>2, <2>3
<1> QED
  BY <1>3, <1>4, <1>5 DEF Next

(* What every session has reached with the entry it is in, whatever the    *)
(* other ones do meanwhile.                                                *)
THEOREM SessionsInvariant == Spec => [](DataOK /\ \A s \in Session : SessionInv(s))
<1>1. Init => DataOK
  BY InitTyped
<1>2. Init => \A s \in Session : SessionInv(s)
  <2> SUFFICES ASSUME Init, NEW s \in Session
               PROVE  ~Active(s)
    BY DEF SessionInv
  <2>1. job[s].step = "idle"
    BY DEF Init
  <2> QED
    BY <2>1 DEF Active
<1>3. DataOK /\ (\A s \in Session : SessionInv(s)) /\ [Next]_vars
        => (DataOK /\ \A s \in Session : SessionInv(s))'
  BY DataKept, SessionsKept
<1> QED
  BY <1>1, <1>2, <1>3, PTL DEF Spec

(* An entry reported as distributed, with what the invariant says of it.   *)
LEMMA DeliveredIs ==
  ASSUME DataOK, NEW s \in Session, SessionInv(s), NEW k, Delivered(s, k), Aligned(job[s].req)
  PROVE  /\ kind(job[s]) = k
         /\ Fit(job[s]) => \A h \in Elements(job[s].req.targets) : Has(job[s], h)
         /\ k = "image" /\ alone[s] =>
               /\ \A h \in Elements(job[s].req.targets) : img[h] = img[head(job[s])]
               /\ job[s].req.force => img[head(job[s])] >= job[s].since
BY DEF Delivered, SessionInv, Active, EntryInv, LegInv, AgreeInv, FreshInv

(* A distribution that reports success has put the image on every target,  *)
(* and the same one unless another session meddled.                        *)
THEOREM Agreement == Spec => []SuccessMeansAgreement
<1>1. DataOK /\ (\A s \in Session : SessionInv(s)) => SuccessMeansAgreement
  <2> SUFFICES ASSUME DataOK, NEW s \in Session, SessionInv(s),
                      Delivered(s, "image"), Aligned(job[s].req),
                      NEW g \in Elements(job[s].req.targets), NEW h \in Elements(job[s].req.targets)
               PROVE  img[h] # 0 /\ (alone[s] => img[g] = img[h])
    BY DEF SuccessMeansAgreement
  <2>1. kind(job[s]) = "image"
    BY DeliveredIs
  <2>2. Has(job[s], h)
    BY <2>1, DeliveredIs DEF Fit
  <2>3. alone[s] => img[g] = img[head(job[s])] /\ img[h] = img[head(job[s])]
    BY DeliveredIs
  <2> QED
    BY <2>1, <2>2, <2>3 DEF Has
<1> QED
  BY <1>1, SessionsInvariant, PTL

(* After a distribution with --rebuild no target has an image older than   *)
(* the registry's at the call, in every mode and through the fallback.     *)
THEOREM Rebuilt == Spec => []ForceIsFresh
<1>1. DataOK /\ (\A s \in Session : SessionInv(s)) => ForceIsFresh
  <2> SUFFICES ASSUME DataOK, NEW s \in Session, SessionInv(s),
                      Delivered(s, "image"), Aligned(job[s].req), alone[s], job[s].req.force,
                      NEW h \in Elements(job[s].req.targets)
               PROVE  img[h] >= job[s].since
    BY DEF ForceIsFresh
  <2> QED
    BY DeliveredIs
<1> QED
  BY <1>1, SessionsInvariant, PTL

(* A model reported as distributed is complete on every target.            *)
THEOREM Complete == Spec => []ModelComplete
<1>1. DataOK /\ (\A s \in Session : SessionInv(s)) => ModelComplete
  <2> SUFFICES ASSUME DataOK, NEW s \in Session, SessionInv(s),
                      Delivered(s, "model"), Aligned(job[s].req), ~BareName, CacheIsShared(job[s]),
                      NEW h \in Elements(job[s].req.targets)
               PROVE  mdl[h] = 2
    BY DEF ModelComplete
  <2>1. kind(job[s]) = "model" /\ Has(job[s], h)
    BY DeliveredIs DEF Fit
  <2> QED
    BY <2>1 DEF Has
<1> QED
  BY <1>1, SessionsInvariant, PTL
=============================================================================
