-------------------------- MODULE DeploymentsProofs --------------------------
(***************************************************************************)
(* Theorems about the life cycle of deployments, for any number of         *)
(* sessions, hosts, clusters, intents and tokens.                          *)
(***************************************************************************)
EXTENDS Deployments, FiniteSetTheorems, TLAPS

-----------------------------------------------------------------------------
(* What the helpers return.                                                *)

(* A placement gives each of its hosts one container of the deployment,    *)
(* under a name enumerate_containers knows for that many hosts.            *)
LEMMA PlacedNames ==
  ASSUME NEW c \in Cid, NEW H \in SUBSET Host, NEW f \in Rankings(H)
  PROVE  /\ Placed(c, f) \subseteq Container
         /\ HostsIn(Placed(c, f)) = H
         /\ \A x \in Placed(c, f) : x.cid = c
         /\ WellNamed(Placed(c, f))
<1> DEFINE n == Cardinality(H)
<1>1. n \in Nat
  BY DeploymentsAssumption, FS_Subset, FS_CardinalityType
<1>2. DOMAIN f = H /\ f \in [H -> 0 .. n - 1]
  BY DEF Rankings
<1> HIDE DEF n
<1>3. ASSUME NEW r \in 0 .. n - 1
      PROVE  /\ container_name(c, n, r) \in Role
             /\ container_name(c, n, r) \in enumerate_containers(n)
  BY <1>1, <1>3 DEF container_name, Role, enumerate_containers
<1>4. \A h \in H : f[h] \in 0 .. n - 1
  BY <1>2
<1>5. Placed(c, f) = {[cid |-> c, host |-> h, role |-> container_name(c, n, f[h])] : h \in H}
  BY <1>2 DEF Placed, n
<1>6. Placed(c, f) \subseteq Container
  BY <1>3, <1>4, <1>5 DEF Container
<1>7. HostsIn(Placed(c, f)) = H
  <2>1. HostsIn(Placed(c, f)) \subseteq H
    BY <1>5 DEF HostsIn
  <2>2. ASSUME NEW h \in H
        PROVE  h \in HostsIn(Placed(c, f))
    <3> DEFINE x == [cid |-> c, host |-> h, role |-> container_name(c, n, f[h])]
    <3>1. x \in Placed(c, f) /\ x.host = h
      BY <1>5
    <3> QED
      BY <3>1 DEF HostsIn
  <2> QED
    BY <2>1, <2>2
<1>8. \A x \in Placed(c, f) : x.cid = c /\ x.role \in enumerate_containers(n)
  BY <1>3, <1>4, <1>5
<1> QED
  BY <1>6, <1>7, <1>8 DEF WellNamed, n

(* More hosts, more names: a teardown over a superset of a deployment's    *)
(* hosts knows every name of that deployment.                              *)
LEMMA NamesGrow ==
  ASSUME NEW G \in SUBSET Host, NEW H \in SUBSET Host, G \subseteq H
  PROVE  enumerate_containers(Cardinality(G)) \subseteq enumerate_containers(Cardinality(H))
<1>1. /\ Cardinality(G) \in Nat
      /\ Cardinality(H) \in Nat
      /\ Cardinality(G) <= Cardinality(H)
  BY DeploymentsAssumption, FS_Subset, FS_CardinalityType
<1> QED
  BY <1>1 DEF enumerate_containers

(* A cluster id's first component is its intent.                           *)
LEMMA CidParts ==
  ASSUME NEW c \in Cid
  PROVE  c[1] \in Intent /\ c[2] \in Token /\ c # NoCid
BY DeploymentsAssumption DEF Cid

-----------------------------------------------------------------------------
(* The cache as every step leaves it: its types, and names a teardown      *)
(* knows in every file.                                                    *)
CacheSound ==
    /\ files \subseteq Cid
    /\ meta \in [Cid -> SUBSET Container]
    /\ newer \subseteq Cid \X Cid
    /\ old \subseteq Cid
    /\ \A d \in Cid : WellNamed(meta[d])

(* Nothing at all is well named: a cluster id without a metadata file.     *)
LEMMA WellNamedNothing == WellNamed({}) /\ {} \in SUBSET Container
BY DEF WellNamed

(* Truncating or removing files leaves the cache sound.                    *)
LEMMA CacheKeeps ==
  ASSUME TypeOK, SessionInv,
         \/ \E c \in Cid : open_private_write(c)
         \/ \E C \in SUBSET Cid : remove_job_metadata(C)
         \/ UNCHANGED cache
  PROVE  CacheSound'
<1>1. ASSUME NEW c \in Cid, open_private_write(c)
      PROVE  CacheSound'
  <2>1. \A d \in Cid : meta'[d] = IF d = c THEN {} ELSE meta[d]
    BY <1>1 DEF open_private_write, TypeOK
  <2> QED
    BY <1>1, <2>1, WellNamedNothing DEF open_private_write, CacheSound, TypeOK, SessionInv
<1>2. ASSUME NEW C \in SUBSET Cid, remove_job_metadata(C)
      PROVE  CacheSound'
  <2>1. \A d \in Cid : meta'[d] = IF d \in C THEN {} ELSE meta[d]
    BY <1>2 DEF remove_job_metadata
  <2>2. meta' \in [Cid -> SUBSET Container]
    BY <1>2, WellNamedNothing DEF remove_job_metadata, TypeOK
  <2> QED
    BY <1>2, <2>1, <2>2, WellNamedNothing DEF remove_job_metadata, CacheSound, TypeOK, SessionInv
<1>3. CASE UNCHANGED cache
  BY <1>3 DEF cache, CacheSound, TypeOK, SessionInv
<1> QED
  BY <1>1, <1>2, <1>3

(* A prune drops files that are there and that it was not told to protect. *)
LEMMA PruneDrops ==
  ASSUME TypeOK, NEW C
  PROVE  prune_job_metadata(C) \subseteq Cid \ C
BY DEF prune_job_metadata, TypeOK

(* The hosts and ids seen in a set of containers are hosts and ids.        *)
LEMMA ContainerParts ==
  ASSUME NEW C \in SUBSET Container
  PROVE  /\ HostsIn(C) \subseteq Host
         /\ CidsIn(C) \subseteq Cid
         /\ \A c : OfCid(C, c) \subseteq Container
BY DEF Container, HostsIn, CidsIn, OfCid

(* What a call names are hosts, what it discovers there are cluster ids of *)
(* the intent, and the sources it derives are containers.                  *)
LEMMA NamedAreHosts ==
  ASSUME NEW H \in NamedHosts
  PROVE  H \in SUBSET Host
BY DeploymentsAssumption DEF NamedHosts

LEMMA Discovered ==
  ASSUME TypeOK, NEW i, NEW H
  PROVE  /\ discover_cluster_id_by_intent(i, H) \subseteq Cid
         /\ \A c \in discover_cluster_id_by_intent(i, H) : c[1] = i
BY ContainerParts DEF discover_cluster_id_by_intent, query_status, TypeOK

LEMMA SourcesAreContainers ==
  ASSUME NEW c \in Cid, NEW H \in NamedHosts, NEW C \in log_sources(c, H)
  PROVE  C \in SUBSET Container
BY NamedAreHosts, PlacedNames DEF log_sources

(* A session with nothing to do is well-formed.                            *)
LEMMA IdleFits == Idle \in SessionState /\ WellFormed(Idle)
BY DEF Idle, SessionState, WellFormed, RunPc

(* A step that gives one session a well-formed record keeps all of them.   *)
LEMMA SessionStep ==
  ASSUME TypeOK, SessionInv, NEW s \in Session, NEW v \in SessionState, WellFormed(v),
         ses' = [ses EXCEPT ![s] = v]
  PROVE  /\ ses' \in [Session -> SessionState]
         /\ \A t \in Session : WellFormed(ses'[t])
<1>1. \A t \in Session : ses'[t] = IF t = s THEN v ELSE ses[t]
  BY DEF TypeOK
<1> QED
  BY <1>1 DEF TypeOK, SessionInv

(* A launch that only moves on stays well-formed.                          *)
LEMMA LaunchMovesOn ==
  ASSUME NEW v \in SessionState, v.pc \in RunPc \ {"pruning"}, WellFormed(v),
         NEW l \in RunPc \ {"tearing", "evicted", "pruning"}
  PROVE  /\ [v EXCEPT !.pc = l] \in SessionState
         /\ WellFormed([v EXCEPT !.pc = l])
<1> DEFINE w == [v EXCEPT !.pc = l]
<1>1. w \in SessionState
  BY DEF SessionState
<1>2. /\ w.pc = l /\ w.cid = v.cid /\ w.place = v.place
      /\ w.todo = v.todo /\ w.victim = v.victim /\ w.doomed = v.doomed
  BY DEF SessionState
<1> HIDE DEF w
<1>3. WellFormed(w)
  BY <1>2 DEF WellFormed, RunPc
<1> QED
  BY <1>1, <1>3 DEF w

-----------------------------------------------------------------------------
(* Every step keeps the types and the sessions well-formed: one lemma for  *)
(* the steps of a launch, one for those of a stop, one for the others.     *)
LEMMA RunStepKeeps ==
  ASSUME TypeOK, SessionInv, NEW s \in Session, RunStep(s)
  PROVE  TypeOK' /\ SessionInv'
<1> DEFINE v == ses[s]
<1>1. v \in SessionState /\ WellFormed(v)
  BY DEF TypeOK, SessionInv
<1>2. ASSUME v.pc \in RunPc
      PROVE  v.cid \in Cid /\ v.place \in SUBSET Container /\ WellNamed(v.place)
  BY <1>1, <1>2 DEF WellFormed, SessionState
<1>3. ASSUME NEW c \in Cid, NEW k \in Cluster, Plan(s, c, k)
      PROVE  TypeOK' /\ SessionInv'
  <2>0. PICK H \in SUBSET HostsOf[k] :
            \E f \in Rankings(H) :
                ses' = [ses EXCEPT ![s] =
                          [Idle EXCEPT !.pc = "planned", !.cid = c, !.cand = HostsOf[k],
                                       !.place = Placed(c, f)]]
    BY <1>3 DEF Plan
  <2>1. PICK f \in Rankings(H) :
            ses' = [ses EXCEPT ![s] =
                      [Idle EXCEPT !.pc = "planned", !.cid = c, !.cand = HostsOf[k],
                                   !.place = Placed(c, f)]]
    BY <2>0
  <2> DEFINE w == [Idle EXCEPT !.pc = "planned", !.cid = c, !.cand = HostsOf[k],
                               !.place = Placed(c, f)]
  <2>2. HostsOf[k] \in SUBSET Host
    BY DeploymentsAssumption
  <2>3. /\ Placed(c, f) \in SUBSET Container
        /\ \A x \in Placed(c, f) : x.cid = c
        /\ WellNamed(Placed(c, f))
    BY <2>2, PlacedNames
  <2>4. w \in SessionState
    BY <2>2, <2>3 DEF Idle, SessionState, RunPc
  <2>5. /\ w.pc = "planned" /\ w.cid = c /\ w.place = Placed(c, f)
        /\ w.todo = {} /\ w.doomed = {}
    BY DEF Idle
  <2> HIDE DEF w
  <2>6. WellFormed(w)
    BY <2>3, <2>5 DEF WellFormed
  <2>7. ses' \in [Session -> SessionState] /\ \A t \in Session : WellFormed(ses'[t])
    BY <2>1, <2>4, <2>6, SessionStep DEF w
  <2> QED
    BY <1>3, <2>7 DEF Plan, Disturb, cache, TypeOK, SessionInv
<1>4. ASSUME Ensure(s)
      PROVE  TypeOK' /\ SessionInv'
  <2>1. ses' \in [Session -> SessionState] /\ \A t \in Session : WellFormed(ses'[t])
    BY <1>4, IdleFits, SessionStep DEF Ensure
  <2> QED
    BY <1>4, <2>1 DEF Ensure, cache, TypeOK, SessionInv
<1>5. ASSUME NEW l \in RunPc \ {"tearing", "evicted", "pruning"}, v.pc \in RunPc \ {"pruning"},
             ses' = [ses EXCEPT ![s].pc = l]
      PROVE  ses' \in [Session -> SessionState] /\ \A t \in Session : WellFormed(ses'[t])
  <2>1. ses' = [ses EXCEPT ![s] = [v EXCEPT !.pc = l]]
    BY <1>5 DEF TypeOK
  <2>2. [v EXCEPT !.pc = l] \in SessionState /\ WellFormed([v EXCEPT !.pc = l])
    BY <1>1, <1>5, LaunchMovesOn
  <2> QED
    BY <2>1, <2>2, SessionStep
<1>6. ASSUME v.pc \in RunPc, open_private_write(v.cid) \/ UNCHANGED cache
      PROVE  CacheSound'
  BY <1>2, <1>6, CacheKeeps
<1>7. ASSUME Save(s)
      PROVE  TypeOK' /\ SessionInv'
  <2>1. PICK l \in {"save1", "saved"} : ses' = [ses EXCEPT ![s].pc = l]
    BY <1>7 DEF Save
  <2>2. v.pc \in RunPc \ {"pruning"} /\ l \in RunPc \ {"tearing", "evicted", "pruning"}
    BY <1>7 DEF Save, RunPc
  <2>3. open_private_write(v.cid) \/ UNCHANGED cache
    BY <1>7 DEF Save
  <2>4. disturbed' \in BOOLEAN
    BY <1>7 DEF Save, Disturb, TypeOK
  <2> QED
    BY <1>5, <1>6, <1>7, <2>1, <2>2, <2>3, <2>4 DEF Save, CacheSound, TypeOK, SessionInv
<1>8. ASSUME Distribute(s)
      PROVE  TypeOK' /\ SessionInv'
  <2>1. PICK l \in {"save2", "staged"} : ses' = [ses EXCEPT ![s].pc = l]
    BY <1>8 DEF Distribute
  <2>2. v.pc \in RunPc \ {"pruning"} /\ l \in RunPc \ {"tearing", "evicted", "pruning"}
    BY <1>8 DEF Distribute, RunPc
  <2>3. open_private_write(v.cid) \/ UNCHANGED cache
    BY <1>8 DEF Distribute
  <2> QED
    BY <1>5, <1>6, <1>8, <2>1, <2>2, <2>3 DEF Distribute, CacheSound, TypeOK, SessionInv
<1>9. ASSUME CollectRuntimeInfo(s)
      PROVE  TypeOK' /\ SessionInv'
  <2>1. PICK l \in {"save3", "prune"} : ses' = [ses EXCEPT ![s].pc = l]
    BY <1>9 DEF CollectRuntimeInfo
  <2>2. v.pc \in RunPc \ {"pruning"} /\ l \in RunPc \ {"tearing", "evicted", "pruning"}
    BY <1>9 DEF CollectRuntimeInfo, RunPc
  <2>3. open_private_write(v.cid) \/ UNCHANGED cache
    BY <1>9 DEF CollectRuntimeInfo
  <2> QED
    BY <1>5, <1>6, <1>9, <2>1, <2>2, <2>3 DEF CollectRuntimeInfo, CacheSound, TypeOK, SessionInv
<1>16. ASSUME Write(s)
       PROVE  TypeOK' /\ SessionInv'
  <2> DEFINE l == AfterWrite[v.pc]
  <2>1. l \in {"saved", "staged", "prune"} /\ ses' = [ses EXCEPT ![s].pc = l]
    <3>1. v.pc \in Writing => l \in {"saved", "staged", "prune"}
      BY DEF Writing, AfterWrite
    <3> QED
      BY <1>16, <3>1 DEF Write
  <2> HIDE DEF l
  <2>2. v.pc \in RunPc \ {"pruning"} /\ l \in RunPc \ {"tearing", "evicted", "pruning"}
    BY <1>16, <2>1 DEF Write, Writing, RunPc
  <2>3. v.cid \in Cid /\ v.place \in SUBSET Container /\ WellNamed(v.place)
    BY <1>2, <2>2
  <2>4. meta' \in {meta, [meta EXCEPT ![v.cid] = v.place]}
    BY <1>16 DEF Write
  <2>5. meta' \in [Cid -> SUBSET Container] /\ \A d \in Cid : meta'[d] \in {meta[d], v.place}
    BY <2>3, <2>4 DEF TypeOK
  <2>6. \A d \in Cid : WellNamed(meta'[d])
    BY <2>3, <2>5 DEF SessionInv
  <2>7. disturbed' \in BOOLEAN
    BY <1>16 DEF Write, TypeOK
  <2> QED
    BY <1>5, <1>16, <2>1, <2>2, <2>5, <2>6, <2>7 DEF Write, TypeOK, SessionInv
<1>10. ASSUME Sweep(s)
       PROVE  TypeOK' /\ SessionInv'
  <2> DEFINE snapshot == query_status(v.cand)
             w == [v EXCEPT !.pc = "evict", !.looked = TRUE, !.seen = CidsIn(snapshot),
                            !.todo = Superseded(s, snapshot)]
  <2>1. ses' = [ses EXCEPT ![s] = w]
    BY <1>10 DEF Sweep, TypeOK
  <2>2. snapshot \in SUBSET Container /\ CidsIn(snapshot) \subseteq Cid
    BY ContainerParts DEF query_status, TypeOK
  <2>3. /\ Superseded(s, snapshot) \in SUBSET Container
        /\ \A x \in Superseded(s, snapshot) : x.cid # v.cid /\ x.cid[1] = v.cid[1]
    BY <2>2 DEF Superseded
  <2> HIDE DEF snapshot
  <2>4. w \in SessionState
    BY <1>1, <2>2, <2>3 DEF SessionState, RunPc
  <2>5. /\ w.pc = "evict" /\ w.cid = v.cid /\ w.place = v.place
        /\ w.todo = Superseded(s, snapshot) /\ w.doomed = v.doomed
    BY <1>1 DEF SessionState
  <2>6. v.pc = "staged"
    BY <1>10 DEF Sweep
  <2> HIDE DEF w
  <2>7. WellFormed(w)
    BY <1>1, <2>3, <2>5, <2>6 DEF WellFormed, RunPc
  <2>8. ses' \in [Session -> SessionState] /\ \A t \in Session : WellFormed(ses'[t])
    BY <2>1, <2>4, <2>7, SessionStep
  <2> QED
    BY <1>10, <2>8 DEF Sweep, Disturb, cache, TypeOK, SessionInv
<1>11. ASSUME SweepFails(s)
       PROVE  TypeOK' /\ SessionInv'
  <2>1. /\ v.pc \in RunPc \ {"pruning"} /\ ses' = [ses EXCEPT ![s].pc = "evict"]
        /\ "evict" \in RunPc \ {"tearing", "evicted", "pruning"}
    BY <1>11 DEF SweepFails, RunPc
  <2> QED
    BY <1>5, <1>11, <2>1 DEF SweepFails, cache, TypeOK, SessionInv
<1>12. ASSUME Evict(s)
       PROVE  TypeOK' /\ SessionInv'
  <2> DEFINE T(c) == OfCid(v.todo, c)
             w(c) == [v EXCEPT !.pc = "tearing", !.victim = c, !.targets = HostsIn(T(c)),
                               !.todo = @ \ T(c)]
  <2>1. PICK c \in CidsIn(v.todo) : ses' = [ses EXCEPT ![s] = w(c)]
    BY <1>12 DEF Evict, TypeOK
  <2>2. v.pc = "evict" /\ v.pc \in RunPc
    BY <1>12 DEF Evict, RunPc
  <2>3. v.todo \in SUBSET Container
    BY <1>1 DEF SessionState
  <2>4. c \in Cid \ {v.cid} /\ c[1] = v.cid[1]
    BY <1>1, <2>2, <2>3, ContainerParts DEF WellFormed, CidsIn
  <2>5. HostsIn(T(c)) \in SUBSET Host
    BY <2>3, ContainerParts
  <2> HIDE DEF T
  <2>6. w(c) \in SessionState
    BY <1>1, <2>3, <2>4, <2>5 DEF SessionState, RunPc
  <2>7. /\ w(c).pc = "tearing" /\ w(c).cid = v.cid /\ w(c).place = v.place
        /\ w(c).todo = v.todo \ T(c) /\ w(c).victim = c /\ w(c).doomed = v.doomed
    BY <1>1 DEF SessionState
  <2> HIDE DEF w
  <2>8. WellFormed(w(c))
    BY <1>1, <2>2, <2>4, <2>7 DEF WellFormed
  <2>9. ses' \in [Session -> SessionState] /\ \A t \in Session : WellFormed(ses'[t])
    BY <2>1, <2>6, <2>8, SessionStep
  <2> QED
    BY <1>12, <2>9 DEF Evict, cache, TypeOK, SessionInv
<1>13. ASSUME StartContainers(s)
       PROVE  TypeOK' /\ SessionInv'
  <2>1. PICK l \in {"launched", "failed"} : ses' = [ses EXCEPT ![s].pc = l]
    BY <1>13 DEF StartContainers
  <2>2. v.pc \in RunPc \ {"pruning"} /\ l \in RunPc \ {"tearing", "evicted", "pruning"}
    BY <1>13 DEF StartContainers, RunPc
  <2>3. ses' \in [Session -> SessionState] /\ \A t \in Session : WellFormed(ses'[t])
    BY <1>5, <2>1, <2>2
  <2>4. running' \subseteq Container
    BY <1>2, <1>13, <2>2 DEF StartContainers, TypeOK
  <2> QED
    BY <1>13, <2>3, <2>4 DEF StartContainers, cache, TypeOK, SessionInv
<1>14. ASSUME Prune(s)
       PROVE  TypeOK' /\ SessionInv'
  <2>1. ses' \in [Session -> SessionState] /\ \A t \in Session : WellFormed(ses'[t])
    BY <1>14, IdleFits, SessionStep DEF Prune
  <2>2. v.doomed \in SUBSET Cid
    BY <1>1 DEF SessionState
  <2>3. CacheSound'
    BY <1>14, <2>2, CacheKeeps DEF Prune
  <2> QED
    BY <1>14, <2>1, <2>3 DEF Prune, CacheSound, Disturb, TypeOK, SessionInv
<1>17. ASSUME ListStale(s)
       PROVE  TypeOK' /\ SessionInv'
  <2> DEFINE P == v.seen \cup {v.cid}
             C == IF v.looked THEN prune_job_metadata(P) ELSE {}
             w == [v EXCEPT !.pc = "pruning", !.doomed = C]
  <2>1. C \subseteq Cid /\ C \cap P = {}
    BY PruneDrops
  <2>2. ses' = [ses EXCEPT ![s] = IF C = {} THEN Idle ELSE w]
    BY <1>17 DEF ListStale, TypeOK
  <2> HIDE DEF C
  <2>3. w \in SessionState
    BY <1>1, <2>1 DEF SessionState, RunPc
  <2>4. /\ w.pc = "pruning" /\ w.doomed = C /\ w.cid = v.cid /\ w.place = v.place
        /\ w.todo = v.todo /\ w.victim = v.victim /\ w.seen = v.seen
    BY <1>1 DEF SessionState
  <2>5. v.pc = "prune"
    BY <1>17 DEF ListStale
  <2> HIDE DEF w
  <2>6. WellFormed(w)
    BY <1>1, <2>1, <2>4, <2>5 DEF WellFormed, RunPc
  <2>7. ses' \in [Session -> SessionState] /\ \A t \in Session : WellFormed(ses'[t])
    BY <2>2, <2>3, <2>6, IdleFits, SessionStep
  <2> QED
    BY <1>17, <2>7 DEF ListStale, cache, TypeOK, SessionInv
<1>15. ASSUME EvictFails(s)
       PROVE  TypeOK' /\ SessionInv'
  <2>1. /\ v.pc \in RunPc \ {"pruning"} /\ ses' = [ses EXCEPT ![s].pc = "evict"]
        /\ "evict" \in RunPc \ {"tearing", "evicted", "pruning"}
    BY <1>15 DEF EvictFails, RunPc
  <2> QED
    BY <1>5, <1>15, <2>1 DEF EvictFails, cache, TypeOK, SessionInv
<1> QED
  BY <1>3, <1>4, <1>7, <1>8, <1>9, <1>10, <1>11, <1>12, <1>13, <1>14, <1>15, <1>16,
     <1>17 DEF RunStep

(* The same for the steps of stop and stop_all.                            *)
LEMMA StopStepKeeps ==
  ASSUME TypeOK, SessionInv, NEW s \in Session, StopStep(s)
  PROVE  TypeOK' /\ SessionInv'
<1> DEFINE v == ses[s]
<1>1. v \in SessionState /\ WellFormed(v)
  BY DEF TypeOK, SessionInv
<1> DEFINE Start(c, H) == [Idle EXCEPT !.pc = "teardown", !.victim = c, !.targets = H]
<1>2. ASSUME NEW c \in Cid, NEW H \in SUBSET Host, ses' = [ses EXCEPT ![s] = Start(c, H)]
      PROVE  ses' \in [Session -> SessionState] /\ \A t \in Session : WellFormed(ses'[t])
  <2>1. Start(c, H) \in SessionState /\ WellFormed(Start(c, H))
    BY DEF Idle, SessionState, StopPc, RunPc, WellFormed
  <2> QED
    BY <1>2, <2>1, SessionStep
<1>3. ASSUME NEW c \in Cid, NEW H \in SUBSET Host, StopById(s, c, H)
      PROVE  TypeOK' /\ SessionInv'
  BY <1>2, <1>3 DEF StopById, Disturb, cache, TypeOK, SessionInv
<1>4. ASSUME NEW i \in Intent, NEW H \in NamedHosts, StopByIntent(s, i, H)
      PROVE  TypeOK' /\ SessionInv'
  <2> DEFINE matches == discover_cluster_id_by_intent(i, H)
             c == CHOOSE c \in matches : TRUE
  <2>1. matches \subseteq Cid
    BY Discovered
  <2>2. matches # {}
    BY <1>4, FS_EmptySet DEF StopByIntent
  <2>3. c \in Cid
    BY <2>1, <2>2
  <2>4. H \in SUBSET Host
    BY NamedAreHosts
  <2>5. ses' = [ses EXCEPT ![s] = Start(c, H)]
    BY <1>4 DEF StopByIntent
  <2> HIDE DEF c, matches, Start
  <2> QED
    BY <1>2, <1>4, <2>3, <2>4, <2>5 DEF StopByIntent, Disturb, cache, TypeOK, SessionInv
<1>5. ASSUME NEW k \in Cluster, StopAll(s, k)
      PROVE  TypeOK' /\ SessionInv'
  <2> DEFINE found == query_status(HostsOf[k])
             w == [Idle EXCEPT !.pc = "sweep", !.todo = found]
  <2>1. found \in SUBSET Container
    BY DEF query_status, TypeOK
  <2> HIDE DEF found
  <2>2. w \in SessionState /\ WellFormed(w)
    BY <2>1 DEF Idle, SessionState, StopPc, RunPc, WellFormed
  <2>3. ses' = [ses EXCEPT ![s] = w]
    BY <1>5 DEF StopAll, found
  <2>4. ses' \in [Session -> SessionState] /\ \A t \in Session : WellFormed(ses'[t])
    BY <2>2, <2>3, SessionStep
  <2> QED
    BY <1>5, <2>4 DEF StopAll, Disturb, cache, TypeOK, SessionInv
<1>6. ASSUME Teardown(s)
      PROVE  TypeOK' /\ SessionInv'
  <2> DEFINE ok == v.targets \subseteq up
             l == IF v.pc = "tearing" THEN "evicted" ELSE "forget"
             w == [v EXCEPT !.ok = ok, !.pc = l]
  <2>1. ses' = [ses EXCEPT ![s] = w]
    BY <1>6 DEF Teardown, Confirmed, TypeOK
  <2>2. v.pc \in {"teardown", "tearing"}
    BY <1>6 DEF Teardown
  <2>3. w \in SessionState
    <3>1. l \in StopPc \cup RunPc /\ ok \in BOOLEAN
      BY DEF StopPc, RunPc
    <3> HIDE DEF l, ok
    <3> QED
      BY <1>1, <3>1 DEF SessionState
  <2>4. /\ w.pc = l /\ w.cid = v.cid /\ w.place = v.place /\ w.todo = v.todo
        /\ w.victim = v.victim /\ w.doomed = v.doomed
    BY <1>1 DEF SessionState
  <2>5. WellFormed(w)
    BY <1>1, <2>2, <2>4 DEF WellFormed, RunPc
  <2> HIDE DEF w
  <2>6. ses' \in [Session -> SessionState] /\ \A t \in Session : WellFormed(ses'[t])
    BY <2>1, <2>3, <2>5, SessionStep
  <2>7. running' \subseteq Container
    BY <1>6 DEF Teardown, TypeOK
  <2>8. disturbed' \in BOOLEAN /\ unconfirmed' \in BOOLEAN
    BY <1>6, Zenon DEF Teardown, Disturb, TypeOK
  <2> QED
    BY <1>6, <2>6, <2>7, <2>8 DEF Teardown, cache, TypeOK, SessionInv
<1>7. ASSUME Forget(s)
      PROVE  TypeOK' /\ SessionInv'
  <2>1. v.victim \in Cid
    BY <1>1, <1>7 DEF Forget, WellFormed
  <2>2. CacheSound'
    BY <1>7, <2>1, CacheKeeps DEF Forget
  <2>3. CASE v.pc = "forget"
    <3>1. ses' = [ses EXCEPT ![s] = Idle]
      BY <1>7, <2>3 DEF Forget, TypeOK
    <3> QED
      BY <1>7, <2>2, <3>1, IdleFits, SessionStep DEF Forget, CacheSound, TypeOK, SessionInv
  <2>4. CASE v.pc = "evicted"
    <3> DEFINE w == [v EXCEPT !.pc = "evict"]
    <3>1. ses' = [ses EXCEPT ![s] = w]
      BY <1>7, <2>4 DEF Forget, TypeOK
    <3>2. w \in SessionState /\ WellFormed(w)
      BY <1>1, <2>4, LaunchMovesOn DEF RunPc
    <3> HIDE DEF w
    <3> QED
      BY <1>7, <2>2, <3>1, <3>2, SessionStep DEF Forget, CacheSound, TypeOK, SessionInv
  <2> QED
    BY <1>7, <2>3, <2>4 DEF Forget
<1>8. ASSUME StopAllTeardown(s)
      PROVE  TypeOK' /\ SessionInv'
  <2> DEFINE w == [v EXCEPT !.pc = "swept", !.targets = HostsIn(v.todo) \ up]
  <2>1. ses' = [ses EXCEPT ![s] = w]
    BY <1>8 DEF StopAllTeardown, TypeOK
  <2>2. HostsIn(v.todo) \subseteq Host
    BY <1>1, ContainerParts DEF SessionState
  <2>3. w \in SessionState
    BY <1>1, <2>2 DEF SessionState, RunPc, StopPc
  <2>4. w.pc = "swept" /\ w.doomed = v.doomed /\ v.pc = "sweep"
    BY <1>1, <1>8 DEF StopAllTeardown, SessionState
  <2> HIDE DEF w
  <2>5. WellFormed(w)
    BY <1>1, <2>4 DEF WellFormed, RunPc
  <2> QED
    BY <1>8, <2>1, <2>3, <2>5, SessionStep DEF StopAllTeardown, cache, TypeOK, SessionInv
<1>9. ASSUME StopAllForget(s)
      PROVE  TypeOK' /\ SessionInv'
  <2>1. ses' \in [Session -> SessionState] /\ \A t \in Session : WellFormed(ses'[t])
    BY <1>9, IdleFits, SessionStep DEF StopAllForget
  <2>2. CidsIn(v.todo) \subseteq Cid
    BY <1>1, ContainerParts DEF SessionState
  <2>3. PICK C \in SUBSET Cid : remove_job_metadata(C)
    BY <1>9, <2>2 DEF StopAllForget
  <2>4. CacheSound'
    BY <2>3, CacheKeeps
  <2> QED
    BY <1>9, <2>1, <2>4 DEF StopAllForget, CacheSound, TypeOK, SessionInv
<1> QED
  BY <1>3, <1>4, <1>5, <1>6, <1>7, <1>8, <1>9 DEF StopStep

(* The same for the steps of logs.                                         *)
LEMMA LogsStepKeeps ==
  ASSUME TypeOK, SessionInv, NEW s \in Session, LogsStep(s)
  PROVE  TypeOK' /\ SessionInv'
<1> DEFINE v == ses[s]
           Start(c, C) == [Idle EXCEPT !.pc = "logs", !.victim = c, !.place = C]
<1>1. v \in SessionState /\ WellFormed(v)
  BY DEF TypeOK, SessionInv
<1>2. ASSUME NEW c \in Cid, NEW C \in SUBSET Container, ses' = [ses EXCEPT ![s] = Start(c, C)]
      PROVE  ses' \in [Session -> SessionState] /\ \A t \in Session : WellFormed(ses'[t])
  <2>1. Start(c, C) \in SessionState /\ WellFormed(Start(c, C))
    BY DEF Idle, SessionState, LogsPc, RunPc, WellFormed
  <2> QED
    BY <1>2, <2>1, SessionStep
<1>3. ASSUME NEW c \in Cid, LogsById(s, c)
      PROVE  TypeOK' /\ SessionInv'
  <2>1. PICK C \in {meta[c]} \cup UNION {log_sources(c, H) : H \in NamedHosts} :
            ses' = [ses EXCEPT ![s] = Start(c, C)]
    BY <1>3 DEF LogsById
  <2>2. C \in SUBSET Container
    <3>1. CASE C = meta[c]
      BY <3>1 DEF TypeOK
    <3>2. CASE \E H \in NamedHosts : C \in log_sources(c, H)
      BY <3>2, SourcesAreContainers
    <3> QED
      BY <2>1, <3>1, <3>2
  <2> HIDE DEF Start
  <2> QED
    BY <1>2, <1>3, <2>1, <2>2 DEF LogsById, Disturb, cache, TypeOK, SessionInv
<1>4. ASSUME NEW i \in Intent, NEW H \in NamedHosts, LogsByIntent(s, i, H)
      PROVE  TypeOK' /\ SessionInv'
  <2>1. PICK c \in discover_cluster_id_by_intent(i, H) :
            \E C \in log_sources(c, H) : ses' = [ses EXCEPT ![s] = Start(c, C)]
    BY <1>4 DEF LogsByIntent
  <2>2. c \in Cid
    BY Discovered
  <2>3. PICK C \in log_sources(c, H) : ses' = [ses EXCEPT ![s] = Start(c, C)]
    BY <2>1
  <2>4. C \in SUBSET Container
    BY <2>2, SourcesAreContainers
  <2> HIDE DEF Start
  <2> QED
    BY <1>2, <1>4, <2>2, <2>3, <2>4 DEF LogsByIntent, Disturb, cache, TypeOK, SessionInv
<1>5. ASSUME NEW l \in {"silent", "gone"}, ses' = [ses EXCEPT ![s].pc = l],
             v.pc \in {"logs", "silent"}
      PROVE  ses' \in [Session -> SessionState] /\ \A t \in Session : WellFormed(ses'[t])
  <2> DEFINE w == [v EXCEPT !.pc = l]
  <2>1. ses' = [ses EXCEPT ![s] = w]
    BY <1>5 DEF TypeOK
  <2>2. w \in SessionState
    BY <1>1 DEF SessionState, LogsPc
  <2>3. w.pc = l /\ w.victim = v.victim /\ w.doomed = v.doomed
    BY <1>1 DEF SessionState
  <2> HIDE DEF w
  <2>4. WellFormed(w)
    BY <1>1, <1>5, <2>3 DEF WellFormed, RunPc
  <2> QED
    BY <2>1, <2>2, <2>4, SessionStep
<1>6. ASSUME LogsLook(s) \/ LogsConfirm(s)
      PROVE  TypeOK' /\ SessionInv'
  BY <1>5, <1>6 DEF LogsLook, LogsConfirm, cache, TypeOK, SessionInv
<1>7. ASSUME LogsForget(s)
      PROVE  TypeOK' /\ SessionInv'
  <2>1. ses' \in [Session -> SessionState] /\ \A t \in Session : WellFormed(ses'[t])
    BY <1>7, IdleFits, SessionStep DEF LogsForget
  <2>2. v.victim \in Cid
    BY <1>1, <1>7 DEF LogsForget, WellFormed
  <2>3. CacheSound'
    BY <1>7, <2>2, CacheKeeps DEF LogsForget
  <2> QED
    BY <1>7, <2>1, <2>3 DEF LogsForget, Disturb, CacheSound, TypeOK, SessionInv
<1> QED
  BY <1>3, <1>4, <1>6, <1>7 DEF LogsStep

(* The same for an interrupt, the prune by hand and the environment.       *)
LEMMA OthersKeep ==
  ASSUME TypeOK, SessionInv,
         \/ \E s \in Session : Interrupt(s)
         \/ \E c \in Cid : Age(c)
         \/ PruneByHand
         \/ \E h \in Host : HostDown(h) \/ HostUp(h)
         \/ \E x \in running : ContainerDies(x)
         \/ UNCHANGED vars
  PROVE  TypeOK' /\ SessionInv'
<1>1. ASSUME NEW s \in Session, Interrupt(s)
      PROVE  TypeOK' /\ SessionInv'
  BY <1>1, IdleFits, SessionStep DEF Interrupt, Disturb, cache, TypeOK, SessionInv
<1>2. ASSUME PruneByHand
      PROVE  TypeOK' /\ SessionInv'
  <2>1. prune_job_metadata({}) \in SUBSET Cid
    BY PruneDrops
  <2>2. CacheSound'
    BY <1>2, <2>1, CacheKeeps DEF PruneByHand
  <2> QED
    BY <1>2, <2>2 DEF PruneByHand, CacheSound, TypeOK, SessionInv
<1>3. ASSUME \/ \E c \in Cid : Age(c)
             \/ \E h \in Host : HostDown(h) \/ HostUp(h)
             \/ \E x \in running : ContainerDies(x)
             \/ UNCHANGED vars
      PROVE  TypeOK' /\ SessionInv'
  BY <1>3 DEF Age, HostDown, HostUp, ContainerDies, vars, cache, TypeOK, SessionInv
<1> QED
  BY <1>1, <1>2, <1>3

(* Every variable keeps its type, and every session of a launch works with *)
(* its own id, names a teardown knows and victims of its own intent.       *)
THEOREM SessionsWellFormed == Spec => [](TypeOK /\ SessionInv)
<1>1. Init => TypeOK /\ SessionInv
  BY IdleFits, WellNamedNothing DEF Init, TypeOK, SessionInv
<1>2. TypeOK /\ SessionInv /\ [Next]_vars => TypeOK' /\ SessionInv'
  BY RunStepKeeps, StopStepKeeps, LogsStepKeeps, OthersKeep DEF Next
<1> QED
  BY <1>1, <1>2, PTL DEF Spec

(* Every variable keeps its type along every behaviour.                    *)
THEOREM TypeCorrect == Spec => []TypeOK
BY SessionsWellFormed, PTL

-----------------------------------------------------------------------------
(* The metadata of an undisturbed system.                                  *)

(* A session that launches or stops concerns the intents of its ids.       *)
LEMMA OwnConcerns ==
  ASSUME TypeOK, SessionInv, NEW s \in Session
  PROVE  /\ ses[s].pc \in RunPc => ses[s].cid \in Cid /\ ses[s].cid[1] \in Concerns(s)
         /\ ses[s].pc \in {"tearing", "evicted", "teardown", "forget", "logs", "silent", "gone"} =>
                ses[s].victim \in Cid /\ ses[s].victim[1] \in Concerns(s)
         /\ ses[s].pc \in {"sweep", "swept"} => Concerns(s) = Intent
BY DeploymentsAssumption DEF SessionInv, WellFormed, RunPc, Concerns

(* A step of another session keeps t calm if it starts nothing of an       *)
(* intent t works on and leaves the metadata of t's launch first in line.  *)
LEMMA StaysCalm ==
  ASSUME TypeOK, SessionInv, NEW t \in Session, Calm(t), ses'[t] = ses[t],
         running' \subseteq Container,
         \A x \in running' \ running : x.cid[1] \notin Concerns(t),
         ses[t].pc \in Filed => FirstInLine(ses[t])',
         ses[t].pc \in Launching => meta'[ses[t].cid] = meta[ses[t].cid]
  PROVE  Calm(t)'
<1>1. \A x \in running' : x.cid[1] \in Intent
  BY CidParts DEF Container
<1>2. ses[t].pc \in Writing => OfCid(running', ses[t].cid) \subseteq OfCid(running, ses[t].cid)
  BY OwnConcerns DEF OfCid, Writing, RunPc
<1>3. ses[t].pc \in {"evicted", "forget", "silent", "gone"} =>
          OfCid(running', ses[t].victim) \subseteq OfCid(running, ses[t].victim)
  BY OwnConcerns DEF OfCid
<1>4. ses[t].pc \in {"sweep", "swept"} => running' \subseteq running
  BY <1>1, OwnConcerns
<1> QED
  BY <1>2, <1>3, <1>4 DEF Calm, FirstInLine

(* Sessions stay apart when one of them takes up no new intent.            *)
LEMMA StaysApart ==
  ASSUME Apart, NEW s \in Session, \A t \in Session \ {s} : ses'[t] = ses[t],
         Concerns(s)' \subseteq Concerns(s)
  PROVE  Apart'
BY DEF Apart, Concerns

(* A session that begins to work on intents no other session works on.     *)
LEMMA BecomesApart ==
  ASSUME Apart, NEW s \in Session, \A t \in Session \ {s} : ses'[t] = ses[t],
         NEW I, ~Meddles(s, I), Concerns(s)' \subseteq I
  PROVE  Apart'
BY DEF Apart, Meddles, Concerns

(* The file of an intent a session works on is written by nobody else.     *)
LEMMA NotWritten ==
  ASSUME TypeOK, SessionInv, Apart, NEW s \in Session, ses[s].pc \notin Writing,
         NEW c \in Cid, c[1] \in Concerns(s)
  PROVE  ~BeingWritten(c)
BY OwnConcerns DEF BeingWritten, Apart, Writing, RunPc

(* What runs of a launch whose file is whole is what it places.            *)
LEMMA FileTells ==
  ASSUME TypeOK, SessionInv, AllCalm, NEW s \in Session, ses[s].pc \in Launching
  PROVE  OfCid(running, ses[s].cid) \subseteq ses[s].place
<1>1. ses[s].pc \in RunPc \ Writing
  BY DEF Launching, RunPc, Writing
<1>2. ~BeingWritten(ses[s].cid)
  BY <1>1, OwnConcerns, NotWritten DEF AllCalm
<1> QED
  BY <1>2 DEF AllCalm, Calm, Listed, OfCid

(* Nothing becomes unlisted when nothing starts, no file of what runs      *)
(* changes and no write ends.                                              *)
LEMMA StaysListed ==
  ASSUME Listed, running' \subseteq running,
         \A x \in running' : meta'[x.cid] = meta[x.cid],
         \A t \in Session : ses[t].pc \in Writing => ses'[t] = ses[t]
  PROVE  Listed'
BY DEF Listed, BeingWritten

(* Launches stay spared when no list of stale files grows and no launch    *)
(* takes up a file.                                                        *)
LEMMA StaysSpared ==
  ASSUME Spared,
         \A t \in Session : ses'[t].doomed \subseteq ses[t].doomed,
         \A t \in Session : ses'[t].pc \in Filed => ses[t].pc \in Filed /\ ses'[t].cid = ses[t].cid
  PROVE  Spared'
BY DEF Spared, Doomed

(* A session that has done is apart from all others.                       *)
LEMMA IdleApart ==
  ASSUME TypeOK, Apart, NEW s \in Session, ses' = [ses EXCEPT ![s] = Idle]
  PROVE  /\ \A t \in Session \ {s} : ses'[t] = ses[t]
         /\ ses'[s] = Idle
         /\ Apart' /\ Calm(s)'
<1>1. (\A t \in Session \ {s} : ses'[t] = ses[t]) /\ ses'[s] = Idle
  BY DEF TypeOK
<1>2. Concerns(s)' = {} /\ Calm(s)'
  BY <1>1 DEF Concerns, Calm, Idle, Launching, Writing, Filed
<1> QED
  BY <1>1, <1>2, StaysApart

(* A step that starts nothing, changes no file and takes up none.          *)
LEMMA MovesOnCalm ==
  ASSUME TypeOK, TypeOK', SessionInv, SessionInv', AllCalm, NEW s \in Session,
         \A t \in Session \ {s} : ses'[t] = ses[t],
         ses[s].pc \notin Writing, ses'[s].pc # "pruning",
         ses'[s].pc \in Filed => ses[s].pc \in Filed /\ ses'[s].cid = ses[s].cid,
         running' \subseteq running, UNCHANGED cache, Apart', Calm(s)'
  PROVE  AllCalm'
<1>1. Listed'
  BY StaysListed DEF AllCalm, cache
<1>2. ses'[s].doomed = {}
  BY DEF SessionInv, WellFormed
<1>3. Spared'
  BY <1>2, StaysSpared DEF AllCalm
<1>4. ASSUME NEW t \in Session \ {s}
      PROVE  Calm(t)'
  <2>1. ses[t].pc \in Filed => FirstInLine(ses[t])'
    BY DEF AllCalm, Calm, FirstInLine, cache
  <2> QED
    BY <2>1, StaysCalm DEF AllCalm, cache, TypeOK
<1> QED
  BY <1>1, <1>3, <1>4 DEF AllCalm

(* The launch s moves on to l.                                             *)
LEMMA LaunchStep ==
  ASSUME TypeOK, SessionInv, Apart, NEW s \in Session, ses[s].pc \in RunPc, NEW l \in RunPc,
         ses' = [ses EXCEPT ![s].pc = l]
  PROVE  /\ \A t \in Session \ {s} : ses'[t] = ses[t]
         /\ ses'[s].pc = l /\ ses'[s].cid = ses[s].cid /\ ses'[s].place = ses[s].place
         /\ ses'[s].victim = ses[s].victim /\ ses'[s].doomed = ses[s].doomed
         /\ Concerns(s)' = Concerns(s)
         /\ Apart'
<1>1. /\ \A t \in Session \ {s} : ses'[t] = ses[t]
      /\ ses'[s].pc = l /\ ses'[s].cid = ses[s].cid /\ ses'[s].place = ses[s].place
      /\ ses'[s].victim = ses[s].victim /\ ses'[s].doomed = ses[s].doomed
  BY DEF TypeOK, SessionState
<1>2. Concerns(s)' = Concerns(s)
  BY <1>1 DEF Concerns, RunPc
<1> QED
  BY <1>1, <1>2, StaysApart

(* A save touches one file and puts it first in the order of its intent.   *)
LEMMA SaveSpares ==
  ASSUME TypeOK, NEW c \in Cid, open_private_write(c)
  PROVE  /\ \A d \in Cid \ {c} : meta'[d] = meta[d]
         /\ c \in files' \ old' /\ files \subseteq files' /\ old' \subseteq old
         /\ \A d \in Cid : <<d, c>> \notin newer'
         /\ \A d, e \in Cid : <<d, e>> \in newer' => d = c \/ <<d, e>> \in newer
BY DEF open_private_write, TypeOK

(* A launch truncates its file and has it in hand until it is written.     *)
LEMMA TruncateCalm ==
  ASSUME TypeOK, TypeOK', SessionInv, SessionInv', AllCalm, NEW s \in Session,
         ses[s].pc \in RunPc \ Writing, NEW l \in Writing, ses' = [ses EXCEPT ![s].pc = l],
         open_private_write(ses[s].cid), running' = running,
         OfCid(running, ses[s].cid) \subseteq ses[s].place, ~Doomed(ses[s].cid)
  PROVE  AllCalm'
<1> DEFINE c == ses[s].cid
<1>1. c \in Cid /\ c[1] \in Concerns(s)
  BY OwnConcerns
<1>2. /\ \A t \in Session \ {s} : ses'[t] = ses[t]
      /\ ses'[s].pc = l /\ ses'[s].cid = c /\ ses'[s].place = ses[s].place
      /\ ses'[s].doomed = ses[s].doomed
      /\ Apart'
  BY LaunchStep DEF AllCalm, Writing, RunPc
<1>3. /\ \A d \in Cid \ {c} : meta'[d] = meta[d]
      /\ c \in files' \ old' /\ files \subseteq files' /\ old' \subseteq old
      /\ \A d \in Cid : <<d, c>> \notin newer'
      /\ \A d, e \in Cid : <<d, e>> \in newer' => d = c \/ <<d, e>> \in newer
  BY <1>1, SaveSpares
<1>4. Listed'
  <2>1. \A d \in Cid : d = c \/ BeingWritten(d) => BeingWritten(d)'
    BY <1>2 DEF BeingWritten
  <2> QED
    BY <1>3, <2>1 DEF AllCalm, Listed, TypeOK, Container
<1>5. Spared'
  BY <1>2 DEF AllCalm, Spared, Doomed
<1>6. Calm(s)'
  BY <1>1, <1>2, <1>3 DEF Calm, FirstInLine, Launching, Writing
<1>7. ASSUME NEW t \in Session \ {s}
      PROVE  Calm(t)'
  <2>1. ses[t].pc \in Filed => ses[t].cid \in Cid /\ c[1] # ses[t].cid[1]
    BY <1>1, OwnConcerns DEF AllCalm, Apart, Filed, Launching, Writing, RunPc
  <2>2. ses[t].pc \in Filed => FirstInLine(ses[t])'
    BY <1>2, <1>3, <2>1 DEF AllCalm, Calm, FirstInLine
  <2>3. ses[t].pc \in Launching => meta'[ses[t].cid] = meta[ses[t].cid]
    BY <1>3, <2>1 DEF Filed
  <2> QED
    BY <1>2, <2>2, <2>3, StaysCalm DEF AllCalm, TypeOK
<1> QED
  BY <1>2, <1>4, <1>5, <1>6, <1>7 DEF AllCalm

(* A removal leaves alone what it does not name, in the file and the order. *)
LEMMA RemovalSpares ==
  ASSUME NEW C, remove_job_metadata(C)
  PROVE  /\ \A c \in Cid \ C : meta'[c] = meta[c]
         /\ files' = files \ C
         /\ newer' \subseteq newer
         /\ old' \subseteq old
BY DEF remove_job_metadata

(* A call unlinks files of jobs none of which runs or is being launched,   *)
(* and ends, or goes on with its evictions.                                *)
LEMMA RemovalCalm ==
  ASSUME TypeOK, TypeOK', SessionInv, SessionInv', AllCalm, NEW s \in Session,
         NEW C \in SUBSET Cid, remove_job_metadata(C), running' = running,
         \A x \in running : x.cid \notin C,
         \A t \in Session : ses[t].pc \in Filed => ses[t].cid \in Cid \ C,
         ses[s].pc \notin Writing,
         \/ ses' = [ses EXCEPT ![s] = Idle]
         \/ ses[s].pc = "evicted" /\ ses' = [ses EXCEPT ![s].pc = "evict"]
  PROVE  AllCalm'
<1>1. /\ \A c \in Cid \ C : meta'[c] = meta[c]
      /\ files' = files \ C
      /\ newer' \subseteq newer
      /\ old' \subseteq old
  BY RemovalSpares
<1>2. ASSUME NEW t \in Session, ses[t].pc \in Filed
      PROVE  /\ ses[t].cid \in files' \ old'
             /\ \A d \in Cid : d[1] = ses[t].cid[1] => <<d, ses[t].cid>> \notin newer'
             /\ meta'[ses[t].cid] = meta[ses[t].cid]
  BY <1>1, <1>2 DEF AllCalm, Calm, FirstInLine
<1>3. /\ \A t \in Session \ {s} : ses'[t] = ses[t]
      /\ Apart' /\ Calm(s)'
      /\ ses'[s].doomed = {}
      /\ ses'[s].pc \in Filed => ses[s].pc \in Filed /\ ses'[s].cid = ses[s].cid
  <2>1. CASE ses' = [ses EXCEPT ![s] = Idle]
    <3>1. /\ \A t \in Session \ {s} : ses'[t] = ses[t]
          /\ ses'[s] = Idle /\ Apart' /\ Calm(s)'
      BY <2>1, IdleApart DEF AllCalm
    <3> QED
      BY <3>1 DEF Idle, Filed, Launching, Writing
  <2>2. CASE ses[s].pc = "evicted" /\ ses' = [ses EXCEPT ![s].pc = "evict"]
    <3>1. /\ \A t \in Session \ {s} : ses'[t] = ses[t]
          /\ ses'[s].pc = "evict" /\ ses'[s].cid = ses[s].cid /\ ses'[s].place = ses[s].place
          /\ Apart'
      BY <2>2, LaunchStep DEF AllCalm, RunPc
    <3>2. ses[s].pc \in Filed \cap Launching /\ ses'[s].pc \notin Writing
      BY <2>2, <3>1 DEF Filed, Launching, Writing
    <3>3. Calm(s)'
      BY <1>2, <3>1, <3>2 DEF AllCalm, Calm, FirstInLine
    <3> QED
      BY <3>1, <3>2, <3>3 DEF SessionInv, WellFormed
  <2> QED
    BY <2>1, <2>2
<1>4. Listed'
  BY <1>1, <1>3, StaysListed DEF AllCalm, TypeOK, Container
<1>5. Spared'
  BY <1>3, StaysSpared DEF AllCalm
<1>6. ASSUME NEW t \in Session \ {s}
      PROVE  Calm(t)'
  <2>1. ses[t].pc \in Filed => FirstInLine(ses[t])'
    BY <1>2, <1>3 DEF FirstInLine
  <2>2. ses[t].pc \in Launching => meta'[ses[t].cid] = meta[ses[t].cid]
    BY <1>2 DEF Filed
  <2> QED
    BY <1>3, <2>1, <2>2, StaysCalm DEF AllCalm, TypeOK
<1> QED
  BY <1>3, <1>4, <1>5, <1>6 DEF AllCalm

(* A launch's steps keep an undisturbed system's metadata right.           *)
LEMMA RunStepCalm ==
  ASSUME TypeOK, SessionInv, TypeOK', SessionInv', AllCalm,
         NEW s \in Session, RunStep(s), ~disturbed, ~disturbed'
  PROVE  AllCalm'
<1> DEFINE v == ses[s]
<1>1. v \in SessionState /\ running' \subseteq Container
  BY DEF TypeOK
<1>2. v.pc \in RunPc => v.cid \in Cid /\ v.place \in SUBSET Container
  BY <1>1 DEF SessionInv, WellFormed, SessionState
(* A step of the launch that only moves on.                                *)
<1>3. ASSUME NEW l \in {"staged", "evict", "prune"}, v.pc \in RunPc \ Writing,
             ses' = [ses EXCEPT ![s].pc = l], UNCHANGED running, UNCHANGED cache,
             l = "prune" \/ v.pc \in Launching
      PROVE  AllCalm'
  <2>1. /\ \A t \in Session \ {s} : ses'[t] = ses[t]
        /\ ses'[s].pc = l /\ ses'[s].cid = v.cid /\ ses'[s].place = v.place
        /\ Apart'
    BY <1>3, LaunchStep DEF AllCalm, RunPc
  <2>2. Calm(s)'
    BY <1>3, <2>1 DEF AllCalm, Calm, FirstInLine, Filed, Launching, Writing, cache
  <2> QED
    BY <1>3, <2>1, <2>2, MovesOnCalm DEF Filed, Launching, Writing
<1>4. ASSUME NEW c \in Cid, NEW k \in Cluster, Plan(s, c, k)
      PROVE  AllCalm'
  <2>1. /\ \A t \in Session \ {s} : ses'[t] = ses[t]
        /\ ses'[s].pc = "planned" /\ ses'[s].cid = c /\ ses'[s].victim = NoCid
    BY <1>4 DEF Plan, Idle, TypeOK
  <2>2. Concerns(s)' \subseteq {c[1]} /\ Calm(s)'
    BY <2>1 DEF Concerns, Calm, Launching, Filed, Writing
  <2>3. ~Meddles(s, {c[1]}) /\ v.pc \notin Writing /\ UNCHANGED running /\ UNCHANGED cache
    BY <1>4 DEF Plan, Disturb, Writing
  <2>4. Apart'
    BY <2>1, <2>2, <2>3, BecomesApart DEF AllCalm
  <2> QED
    BY <2>1, <2>2, <2>3, <2>4, MovesOnCalm DEF Filed, Launching, Writing
<1>5. ASSUME Ensure(s)
      PROVE  AllCalm'
  <2>1. /\ \A t \in Session \ {s} : ses'[t] = ses[t]
        /\ ses'[s] = Idle /\ Apart' /\ Calm(s)'
    BY <1>5, IdleApart DEF Ensure, AllCalm
  <2>2. v.pc \notin Writing /\ UNCHANGED running /\ UNCHANGED cache
    BY <1>5 DEF Ensure, Writing
  <2> QED
    BY <2>1, <2>2, MovesOnCalm DEF Idle, Filed, Launching, Writing
(* A launch that has its file in hand may truncate it again.               *)
<1>6. ASSUME v.pc \in Launching
      PROVE  /\ v.pc \in RunPc \ Writing
             /\ OfCid(running, v.cid) \subseteq v.place
             /\ ~Doomed(v.cid)
  BY <1>6, FileTells DEF AllCalm, Spared, Filed, Launching, RunPc, Writing
<1>7. ASSUME Save(s)
      PROVE  AllCalm'
  <2>1. /\ open_private_write(v.cid) /\ ses' = [ses EXCEPT ![s].pc = "save1"]
        /\ OfCid(running, v.cid) \subseteq v.place /\ ~Doomed(v.cid)
        /\ v.pc = "planned" /\ running' = running
    BY <1>7 DEF Save, Disturb
  <2>2. v.pc \in RunPc \ Writing /\ "save1" \in Writing
    BY <2>1 DEF RunPc, Writing
  <2> QED
    BY <2>1, <2>2, TruncateCalm
<1>8. ASSUME Distribute(s)
      PROVE  AllCalm'
  <2>1. v.pc = "saved" /\ v.pc \in Launching /\ running' = running
    BY <1>8 DEF Distribute, Launching
  <2>2. CASE open_private_write(v.cid) /\ ses' = [ses EXCEPT ![s].pc = "save2"]
    BY <1>6, <2>1, <2>2, TruncateCalm DEF Writing
  <2>3. CASE UNCHANGED cache /\ ses' = [ses EXCEPT ![s].pc = "staged"]
    BY <1>3, <1>6, <2>1, <2>3 DEF RunPc, Writing
  <2> QED
    BY <1>8, <2>2, <2>3 DEF Distribute
<1>9. ASSUME CollectRuntimeInfo(s)
      PROVE  AllCalm'
  <2>1. v.pc \in {"launched", "failed"} /\ running' = running
    BY <1>9 DEF CollectRuntimeInfo
  <2>2. CASE /\ v.pc = "launched" /\ open_private_write(v.cid)
             /\ ses' = [ses EXCEPT ![s].pc = "save3"]
    BY <1>6, <2>1, <2>2, TruncateCalm DEF Launching, Writing
  <2>3. CASE UNCHANGED cache /\ ses' = [ses EXCEPT ![s].pc = "prune"]
    BY <1>3, <2>1, <2>3 DEF RunPc, Writing, Filed, Launching
  <2> QED
    BY <1>9, <2>2, <2>3 DEF CollectRuntimeInfo
(* The write makes the file whole again.                                   *)
<1>10. ASSUME Write(s)
       PROVE  AllCalm'
  <2> DEFINE l == AfterWrite[v.pc]
             c == v.cid
  <2>1. v.pc \in Writing /\ v.pc \in RunPc /\ v.pc \in Filed
    BY <1>10 DEF Write, Writing, RunPc, Filed
  <2>2. l \in {"saved", "staged", "prune"} /\ ses' = [ses EXCEPT ![s].pc = l]
    <3>1. l \in {"saved", "staged", "prune"}
      BY <2>1 DEF Writing, AfterWrite
    <3> QED
      BY <1>10, <3>1 DEF Write
  <2> HIDE DEF l
  <2>3. l \in RunPc /\ c \in Cid /\ c[1] \in Concerns(s)
    BY <2>1, <2>2, OwnConcerns DEF RunPc
  <2>4. /\ \A t \in Session \ {s} : ses'[t] = ses[t]
        /\ ses'[s].pc = l /\ ses'[s].cid = c /\ ses'[s].place = v.place
        /\ ses'[s].doomed = v.doomed
        /\ Apart'
    BY <2>1, <2>2, <2>3, LaunchStep DEF AllCalm
  <2>5. c \in files /\ OfCid(running, c) \subseteq v.place
    BY <2>1 DEF AllCalm, Calm, FirstInLine
  <2>6. meta' = [meta EXCEPT ![c] = v.place]
    BY <1>10, <2>5 DEF Write
  <2>7. UNCHANGED <<running, files, newer, old>>
    BY <1>10 DEF Write
  <2>8. \A d \in Cid : meta'[d] = IF d = c THEN v.place ELSE meta[d]
    BY <2>6 DEF TypeOK
  <2>9. Listed'
    <3>1. \A d \in Cid \ {c} : BeingWritten(d) => BeingWritten(d)'
      BY <2>4 DEF BeingWritten
    <3>2. \A x \in running : x.cid = c => x \in v.place
      BY <2>5 DEF OfCid
    <3> QED
      BY <2>7, <2>8, <3>1, <3>2 DEF AllCalm, Listed, TypeOK, Container
  <2>10. Spared'
    BY <2>1, <2>4, StaysSpared DEF AllCalm
  <2>11. Calm(s)'
    BY <2>1, <2>2, <2>3, <2>4, <2>7, <2>8
    DEF AllCalm, Calm, FirstInLine, Filed, Launching, Writing
  <2>12. ASSUME NEW t \in Session \ {s}
         PROVE  Calm(t)'
    <3>1. ses[t].pc \in Filed => FirstInLine(ses[t])'
      BY <2>4, <2>7 DEF AllCalm, Calm, FirstInLine
    <3>2. ses[t].pc \in Launching => meta'[ses[t].cid] = meta[ses[t].cid]
      BY <2>3, <2>8, OwnConcerns DEF AllCalm, Apart, Launching, RunPc
    <3> QED
      BY <1>1, <2>4, <2>7, <3>1, <3>2, StaysCalm DEF AllCalm
  <2> QED
    BY <2>4, <2>9, <2>10, <2>11, <2>12 DEF AllCalm
<1>11. ASSUME Sweep(s)
       PROVE  AllCalm'
  <2>1. /\ \A t \in Session \ {s} : ses'[t] = ses[t]
        /\ ses'[s].pc = "evict" /\ ses'[s].cid = v.cid /\ ses'[s].place = v.place
        /\ ses'[s].victim = v.victim
    BY <1>1, <1>11 DEF Sweep, TypeOK, SessionState
  <2>2. v.pc = "staged" /\ UNCHANGED running /\ UNCHANGED cache
    BY <1>11 DEF Sweep
  <2>3. Concerns(s)' = Concerns(s) /\ Apart'
    BY <2>1, <2>2, StaysApart DEF AllCalm, Concerns
  <2>4. Calm(s)'
    BY <2>1, <2>2 DEF AllCalm, Calm, FirstInLine, Filed, Launching, Writing, cache
  <2> QED
    BY <2>1, <2>2, <2>3, <2>4, MovesOnCalm DEF Filed, Launching, Writing
<1>12. ASSUME SweepFails(s)
       PROVE  AllCalm'
  <2>1. /\ v.pc = "staged" /\ ses' = [ses EXCEPT ![s].pc = "evict"]
        /\ UNCHANGED running /\ UNCHANGED cache
    BY <1>12 DEF SweepFails
  <2> QED
    BY <1>3, <2>1 DEF RunPc, Writing, Launching
<1>13. ASSUME Evict(s)
       PROVE  AllCalm'
  <2>1. PICK c \in CidsIn(v.todo) :
            /\ \A t \in Session \ {s} : ses'[t] = ses[t]
            /\ ses'[s].pc = "tearing" /\ ses'[s].cid = v.cid /\ ses'[s].place = v.place
            /\ ses'[s].victim = c
    BY <1>1, <1>13 DEF Evict, TypeOK, SessionState
  <2>2. v.pc = "evict" /\ v.pc \in RunPc /\ UNCHANGED running /\ UNCHANGED cache
    BY <1>13 DEF Evict, RunPc
  <2>3. c[1] = v.cid[1] /\ v.cid[1] \in Concerns(s)
    BY <2>2, OwnConcerns DEF SessionInv, WellFormed, CidsIn
  <2>4. Concerns(s)' \subseteq Concerns(s) /\ Apart'
    BY <2>1, <2>2, <2>3, StaysApart DEF AllCalm, Concerns
  <2>5. Calm(s)'
    BY <2>1, <2>2 DEF AllCalm, Calm, FirstInLine, Filed, Launching, Writing, cache
  <2> QED
    BY <2>1, <2>2, <2>4, <2>5, MovesOnCalm DEF Filed, Launching, Writing
<1>14. ASSUME StartContainers(s)
       PROVE  AllCalm'
  <2>1. v.pc = "evict" /\ v.pc \in RunPc /\ v.pc \in Launching /\ v.cid \in Cid
    BY <1>2, <1>14 DEF StartContainers, RunPc, Launching
  <2>2. PICK l \in {"launched", "failed"} : ses' = [ses EXCEPT ![s].pc = l]
    BY <1>14 DEF StartContainers
  <2>3. l \in RunPc
    BY DEF RunPc
  <2>4. running' \ running \subseteq v.place /\ UNCHANGED cache
    BY <1>14 DEF StartContainers
  <2>5. /\ meta[v.cid] = v.place
        /\ \A x \in v.place : x.cid = v.cid
    BY <2>1 DEF AllCalm, Calm, SessionInv, WellFormed
  <2>6. /\ ses'[s].pc = l /\ ses'[s].cid = v.cid /\ ses'[s].place = v.place
        /\ ses'[s].doomed = v.doomed
        /\ Apart'
        /\ \A t \in Session \ {s} : ses'[t] = ses[t]
    BY <2>1, <2>2, <2>3, LaunchStep DEF AllCalm
  <2>7. Listed'
    <3>1. \A d : BeingWritten(d) => BeingWritten(d)'
      BY <2>1, <2>6 DEF BeingWritten, Writing
    <3> QED
      BY <2>4, <2>5, <3>1 DEF AllCalm, Listed, cache
  <2>8. Spared'
    BY <2>1, <2>6, StaysSpared DEF AllCalm, Filed, Launching
  <2>9. Calm(s)'
    BY <2>1, <2>4, <2>5, <2>6
    DEF AllCalm, Calm, FirstInLine, Filed, Launching, Writing, cache
  <2>10. ASSUME NEW t \in Session \ {s}
         PROVE  Calm(t)'
    <3>1. \A x \in running' \ running : x.cid[1] \notin Concerns(t)
      BY <2>1, <2>4, <2>5, OwnConcerns DEF AllCalm, Apart
    <3>2. ses[t].pc \in Filed => FirstInLine(ses[t])'
      BY <2>4, <2>6 DEF AllCalm, Calm, FirstInLine, cache
    <3> QED
      BY <1>1, <2>4, <2>6, <3>1, <3>2, StaysCalm DEF AllCalm, cache
  <2> QED
    BY <2>6, <2>7, <2>8, <2>9, <2>10 DEF AllCalm
(* What is first in line of its intent and young is not stale.             *)
<1>15. ASSUME ListStale(s)
       PROVE  AllCalm'
  <2> DEFINE P == v.seen \cup {v.cid}
             C == IF v.looked THEN prune_job_metadata(P) ELSE {}
             w == IF C = {} THEN Idle ELSE [v EXCEPT !.pc = "pruning", !.doomed = C]
  <2>1. v.pc = "prune" /\ UNCHANGED running /\ UNCHANGED cache
    BY <1>15 DEF ListStale
  <2>2. ses' = [ses EXCEPT ![s] = w]
    BY <1>15 DEF ListStale, TypeOK
  <2>3. (\A t \in Session \ {s} : ses'[t] = ses[t]) /\ ses'[s] = w
    BY <2>2 DEF TypeOK
  <2>4. ASSUME NEW t \in Session \ {s}, ses[t].pc \in Filed
        PROVE  ses[t].cid \notin C
    <3> DEFINE c == ses[t].cid
               D == {d \in files : d[1] = c[1] /\ <<d, c>> \in newer}
    <3>1. c \notin old /\ D = {}
      BY <2>4 DEF AllCalm, Calm, FirstInLine, TypeOK
    <3> HIDE DEF D
    <3>2. ~(Cardinality(D) >= KeepPerIntent)
      <4>1. Cardinality(D) = 0
        BY <3>1, FS_EmptySet
      <4> QED
        BY <4>1, DeploymentsAssumption
    <3> QED
      BY <3>1, <3>2 DEF prune_job_metadata, D
  <2> HIDE DEF C
  <2>5. /\ w.pc \in {"idle", "pruning"} /\ w.doomed \subseteq C
        /\ w.pc = "pruning" => w.cid = v.cid /\ w.victim = v.victim
        /\ w.pc = "idle" => w.cid = NoCid /\ w.victim = NoCid
    BY <1>1 DEF Idle, SessionState
  <2> HIDE DEF w
  <2>6. Apart' /\ Calm(s)'
    <3>1. Concerns(s)' \subseteq Concerns(s)
      BY <2>1, <2>3, <2>5 DEF Concerns
    <3>2. Calm(s)'
      BY <2>3, <2>5 DEF Calm, Filed, Launching, Writing
    <3> QED
      BY <2>3, <3>1, <3>2, StaysApart DEF AllCalm
  <2>7. Listed'
    BY <2>1, <2>3, StaysListed DEF AllCalm, Writing, cache
  <2>8. Spared'
    <3> SUFFICES ASSUME NEW t \in Session, ses'[t].pc \in Filed, NEW u \in Session,
                        ses'[t].cid \in ses'[u].doomed
                 PROVE  FALSE
      BY DEF Spared, Doomed
    <3>1. t # s /\ ses'[t] = ses[t]
      BY <2>3, <2>5 DEF Filed, Launching, Writing
    <3>2. CASE u = s
      BY <2>3, <2>4, <2>5, <3>1, <3>2
    <3>3. CASE u # s
      BY <2>3, <3>1, <3>3 DEF AllCalm, Spared, Doomed
    <3> QED
      BY <3>2, <3>3
  <2>9. ASSUME NEW t \in Session \ {s}
        PROVE  Calm(t)'
    <3>1. ses[t].pc \in Filed => FirstInLine(ses[t])'
      BY <2>1, <2>3 DEF AllCalm, Calm, FirstInLine, cache
    <3> QED
      BY <1>1, <2>1, <2>3, <3>1, StaysCalm DEF AllCalm, cache
  <2> QED
    BY <2>6, <2>7, <2>8, <2>9 DEF AllCalm
<1>16. ASSUME Prune(s)
       PROVE  AllCalm'
  <2>1. /\ v.pc = "pruning" /\ remove_job_metadata(v.doomed) /\ running' = running
        /\ ses' = [ses EXCEPT ![s] = Idle]
        /\ CidsIn(running) \subseteq v.seen \cup {v.cid}
    BY <1>16 DEF Prune, Disturb
  <2>2. v.doomed \in SUBSET Cid /\ v.doomed \cap (v.seen \cup {v.cid}) = {}
    BY <1>1, <2>1 DEF SessionInv, WellFormed, SessionState
  <2>3. \A x \in running : x.cid \notin v.doomed
    BY <2>1, <2>2 DEF CidsIn
  <2>4. ASSUME NEW t \in Session, ses[t].pc \in Filed
        PROVE  ses[t].cid \in Cid \ v.doomed
    BY <2>4, OwnConcerns DEF AllCalm, Spared, Doomed, Filed, Launching, Writing, RunPc
  <2> QED
    BY <2>1, <2>2, <2>3, <2>4, RemovalCalm DEF Writing
<1>17. ASSUME EvictFails(s)
       PROVE  AllCalm'
  <2>1. /\ v.pc = "tearing" /\ ses' = [ses EXCEPT ![s].pc = "evict"]
        /\ UNCHANGED running /\ UNCHANGED cache
    BY <1>17 DEF EvictFails
  <2> QED
    BY <1>3, <2>1 DEF RunPc, Writing, Launching
<1> QED
  BY <1>4, <1>5, <1>7, <1>8, <1>9, <1>10, <1>11, <1>12, <1>13, <1>14, <1>15, <1>16,
     <1>17 DEF RunStep

(* A stop's steps keep an undisturbed system's metadata right.             *)
LEMMA StopStepCalm ==
  ASSUME TypeOK, SessionInv, TypeOK', SessionInv', AllCalm,
         NEW s \in Session, StopStep(s), ~disturbed, ~disturbed'
  PROVE  AllCalm'
<1> DEFINE v == ses[s]
<1>1. v \in SessionState
  BY DEF TypeOK
<1>2. ASSUME \A t \in Session \ {s} : ses'[t] = ses[t], v.pc \notin Writing,
             ses'[s].pc \in StopPc, running' \subseteq running, UNCHANGED cache,
             Calm(s)', Apart'
      PROVE  AllCalm'
  BY <1>2, MovesOnCalm DEF StopPc, Filed, Launching, Writing
<1>3. ASSUME NEW c \in Cid, NEW H \in SUBSET Host, ~Meddles(s, {c[1]}), v.pc = "idle",
             ses' = [ses EXCEPT ![s] =
                        [Idle EXCEPT !.pc = "teardown", !.victim = c, !.targets = H]],
             UNCHANGED running, UNCHANGED cache
      PROVE  AllCalm'
  <2>1. /\ \A t \in Session \ {s} : ses'[t] = ses[t]
        /\ ses'[s].pc = "teardown" /\ ses'[s].cid = NoCid /\ ses'[s].victim = c
    BY <1>3 DEF Idle, TypeOK
  <2>2. Concerns(s)' \subseteq {c[1]} /\ Calm(s)'
    BY <2>1 DEF Concerns, Calm, Launching, Filed, Writing
  <2>3. Apart'
    BY <1>3, <2>1, <2>2, BecomesApart DEF AllCalm
  <2> QED
    BY <1>2, <1>3, <2>1, <2>2, <2>3 DEF StopPc, Writing
<1>4. ASSUME NEW c \in Cid, NEW H \in SUBSET Host, StopById(s, c, H)
      PROVE  AllCalm'
  BY <1>3, <1>4 DEF StopById, Disturb
<1>5. ASSUME NEW i \in Intent, NEW H \in NamedHosts, StopByIntent(s, i, H)
      PROVE  AllCalm'
  <2> DEFINE matches == discover_cluster_id_by_intent(i, H)
  <2>1. matches \subseteq Cid /\ \A c \in matches : c[1] = i
    BY Discovered
  <2>2. matches # {}
    <3>1. Cardinality(matches) = 1
      BY <1>5 DEF StopByIntent
    <3> HIDE DEF matches
    <3> QED
      BY <3>1, FS_EmptySet
  <2>3. PICK c \in matches :
            ses' = [ses EXCEPT ![s] =
                       [Idle EXCEPT !.pc = "teardown", !.victim = c, !.targets = H]]
    BY <1>5, <2>2 DEF StopByIntent
  <2>4. c \in Cid /\ c[1] = i /\ H \in SUBSET Host
    BY <2>1, NamedAreHosts
  <2>5. ~Meddles(s, {c[1]}) /\ v.pc = "idle" /\ UNCHANGED running /\ UNCHANGED cache
    BY <1>5, <2>4 DEF StopByIntent, Disturb
  <2> QED
    BY <1>3, <2>3, <2>4, <2>5
<1>6. ASSUME NEW k \in Cluster, StopAll(s, k)
      PROVE  AllCalm'
  <2>1. /\ \A t \in Session \ {s} : ses'[t] = ses[t]
        /\ ses'[s].pc = "sweep" /\ ses'[s].todo = query_status(HostsOf[k])
    BY <1>6 DEF StopAll, Idle, TypeOK
  <2>2. ~Meddles(s, Intent) /\ ~BlindSweep(HostsOf[k]) /\ v.pc = "idle"
        /\ UNCHANGED running /\ UNCHANGED cache
    BY <1>6 DEF StopAll, Disturb
  <2>3. Concerns(s)' \subseteq Intent
    BY <2>1 DEF Concerns
  <2>4. Calm(s)'
    BY <2>1, <2>2 DEF BlindSweep, Calm, Launching, Filed, Writing
  <2>5. Apart'
    BY <2>1, <2>2, <2>3, BecomesApart DEF AllCalm
  <2> QED
    BY <1>2, <2>1, <2>2, <2>4, <2>5 DEF StopPc, Writing
<1>7. ASSUME Teardown(s)
      PROVE  AllCalm'
  <2> DEFINE c == v.victim
             H == v.targets
  <2>1. v.pc \in {"teardown", "tearing"} /\ v.pc \notin Writing
    BY <1>7 DEF Teardown, Writing
  <2>2. /\ \A t \in Session \ {s} : ses'[t] = ses[t]
        /\ ses'[s].pc \in {"evicted", "forget"} /\ ses'[s].cid = v.cid
        /\ ses'[s].pc = "evicted" => v.pc = "tearing"
        /\ ses'[s].place = v.place /\ ses'[s].victim = c
        /\ ses'[s].ok = (H \subseteq up)
    BY <1>1, <1>7 DEF Teardown, Confirmed, TypeOK, SessionState
  <2>3. Concerns(s)' = Concerns(s) /\ Apart'
    BY <2>1, <2>2, StaysApart DEF AllCalm, Concerns
  <2>4. running' \subseteq running /\ UNCHANGED cache
    BY <1>7 DEF Teardown
  <2>5. H \subseteq Host /\ c \in Cid
    BY <1>1, <2>1, OwnConcerns DEF SessionState
  (* On confirmation nothing of the victim is left: its hosts are all      *)
  (* among the targets, so all of its names have been enumerated.          *)
  <2>6. ASSUME H \subseteq up
        PROVE  OfCid(running', c) = {}
    <3>1. /\ HostsIn(meta[c]) \subseteq H
          /\ OfCid(running, c) \subseteq meta[c]
      BY <1>7 DEF Teardown, Disturb, ShortStop
    <3>2. WellNamed(meta[c])
      BY <2>5 DEF SessionInv
    <3>3. HostsIn(meta[c]) \subseteq Host
      BY <2>5, <3>1
    <3>4. enumerate_containers(Cardinality(HostsIn(meta[c])))
              \subseteq enumerate_containers(Cardinality(H))
      BY <2>5, <3>1, <3>3, NamesGrow
    <3>5. ASSUME NEW x \in running, x.cid = c
          PROVE  x.host \in H \cap up /\ x.role \in enumerate_containers(Cardinality(H))
      BY <2>6, <3>1, <3>2, <3>4, <3>5 DEF OfCid, HostsIn, WellNamed
    <3>6. running' = {x \in running :
                         ~(x.cid = c /\ x.host \in H \cap up
                             /\ x.role \in enumerate_containers(Cardinality(H)))}
      BY <1>7 DEF Teardown
    <3> QED
      BY <3>5, <3>6 DEF OfCid
  <2>7. ses'[s].pc = "evicted" => v.pc \in Launching /\ v.pc \in Filed
    BY <2>2 DEF Launching, Filed
  <2>8. Calm(s)'
    BY <2>2, <2>4, <2>6, <2>7
    DEF AllCalm, Calm, FirstInLine, Launching, Filed, Writing, cache
  <2> QED
    BY <2>1, <2>2, <2>3, <2>4, <2>7, <2>8, MovesOnCalm DEF Filed, Launching, Writing
<1>8. ASSUME Forget(s)
      PROVE  AllCalm'
  <2> DEFINE C == IF v.ok THEN {v.victim} ELSE {}
  <2>1. v.pc \in {"forget", "evicted"} /\ remove_job_metadata(C) /\ running' = running
    BY <1>8 DEF Forget
  <2>2. v.victim \in Cid /\ v.victim[1] \in Concerns(s)
    BY <2>1, OwnConcerns
  <2>3. \A x \in running : x.cid \notin C
    BY <2>1 DEF AllCalm, Calm, OfCid
  <2>4. ASSUME NEW t \in Session, ses[t].pc \in Filed
        PROVE  ses[t].cid \in Cid \ C
    <3>1. ses[t].pc \in RunPc /\ ses[t].pc # "forget"
      BY <2>4 DEF Filed, Launching, Writing, RunPc
    <3>2. ses[t].cid \in Cid /\ ses[t].cid[1] \in Concerns(t)
      BY <3>1, OwnConcerns
    <3>3. CASE t # s
      BY <2>2, <3>2, <3>3 DEF AllCalm, Apart
    <3>4. CASE t = s
      BY <2>1, <3>1, <3>2, <3>4 DEF SessionInv, WellFormed
    <3> QED
      BY <3>3, <3>4
  <2>5. C \in SUBSET Cid
    BY <2>2
  <2> HIDE DEF C
  <2>6. \/ ses' = [ses EXCEPT ![s] = Idle]
        \/ v.pc = "evicted" /\ ses' = [ses EXCEPT ![s].pc = "evict"]
    BY <1>8 DEF Forget, TypeOK
  <2> QED
    BY <2>1, <2>3, <2>4, <2>5, <2>6, RemovalCalm DEF Writing
<1>9. ASSUME StopAllTeardown(s)
       PROVE  AllCalm'
  <2>1. /\ \A t \in Session \ {s} : ses'[t] = ses[t]
        /\ ses'[s].pc = "swept" /\ ses'[s].todo = v.todo
        /\ ses'[s].targets = HostsIn(v.todo) \ up
    BY <1>1, <1>9 DEF StopAllTeardown, TypeOK, SessionState
  <2>2. /\ v.pc = "sweep" /\ running' = running \ {x \in v.todo : x.host \in up}
        /\ UNCHANGED cache
    BY <1>9 DEF StopAllTeardown
  <2>3. \A x \in running' : x \in v.todo /\ x.host \in HostsIn(v.todo) \ up
    BY <2>2 DEF AllCalm, Calm, HostsIn
  <2>4. Calm(s)'
    BY <2>1, <2>3 DEF Calm, Launching, Filed, Writing
  <2>5. Apart'
    BY <2>1, <2>2, StaysApart DEF AllCalm, Concerns
  <2> QED
    BY <1>2, <2>1, <2>2, <2>4, <2>5 DEF StopPc, Writing
<1>10. ASSUME StopAllForget(s)
       PROVE  AllCalm'
  <2> DEFINE kept == {c \in CidsIn(v.todo) : HostsIn(OfCid(v.todo, c)) \cap v.targets # {}}
             C == CidsIn(v.todo) \ kept
  <2>1. /\ v.pc = "swept" /\ remove_job_metadata(C) /\ running' = running
        /\ ses' = [ses EXCEPT ![s] = Idle]
    BY <1>10 DEF StopAllForget
  <2>2. \A x \in running : x.cid \notin C
    BY <2>1 DEF AllCalm, Calm, CidsIn, HostsIn, OfCid
  <2>3. ASSUME NEW t \in Session, ses[t].pc \in Filed
        PROVE  FALSE
    <3>1. ses[t].pc \in RunPc /\ ses[t].pc # "swept"
      BY <2>3 DEF Filed, Launching, Writing, RunPc
    <3>2. ses[t].cid \in Cid /\ ses[t].cid[1] \in Concerns(t)
      BY <3>1, OwnConcerns
    <3>3. ses[t].cid[1] \in Concerns(s) /\ t # s
      BY <2>1, <3>1, <3>2, CidParts, OwnConcerns
    <3> QED
      BY <3>2, <3>3 DEF AllCalm, Apart
  <2>4. C \in SUBSET Cid
    BY <1>1, ContainerParts DEF SessionState
  <2> HIDE DEF C
  <2> QED
    BY <2>1, <2>2, <2>3, <2>4, RemovalCalm DEF Writing
<1> QED
  BY <1>4, <1>5, <1>6, <1>7, <1>8, <1>9, <1>10 DEF StopStep

(* The steps of logs keep an undisturbed system's metadata right: what     *)
(* runs of the deployment would be one of the sources it found silent.     *)
LEMMA LogsStepCalm ==
  ASSUME TypeOK, SessionInv, TypeOK', SessionInv', AllCalm,
         NEW s \in Session, LogsStep(s), ~disturbed, ~disturbed'
  PROVE  AllCalm'
<1> DEFINE v == ses[s]
<1>1. v \in SessionState
  BY DEF TypeOK
<1>2. ASSUME NEW c \in Cid, NEW C, ~Meddles(s, {c[1]}), v.pc = "idle",
             ses' = [ses EXCEPT ![s] =
                        [Idle EXCEPT !.pc = "logs", !.victim = c, !.place = C]],
             UNCHANGED running, UNCHANGED cache
      PROVE  AllCalm'
  <2>1. /\ \A t \in Session \ {s} : ses'[t] = ses[t]
        /\ ses'[s].pc = "logs" /\ ses'[s].cid = NoCid /\ ses'[s].victim = c
    BY <1>2 DEF Idle, TypeOK
  <2>2. Concerns(s)' \subseteq {c[1]} /\ Calm(s)'
    BY <2>1 DEF Concerns, Calm, Launching, Filed, Writing
  <2>3. Apart'
    BY <1>2, <2>1, <2>2, BecomesApart DEF AllCalm
  <2> QED
    BY <1>2, <2>1, <2>2, <2>3, MovesOnCalm DEF Filed, Launching, Writing
<1>3. ASSUME NEW c \in Cid, LogsById(s, c)
      PROVE  AllCalm'
  <2>1. PICK C \in {meta[c]} \cup UNION {log_sources(c, H) : H \in NamedHosts} :
            ses' = [ses EXCEPT ![s] =
                       [Idle EXCEPT !.pc = "logs", !.victim = c, !.place = C]]
    BY <1>3 DEF LogsById
  <2>2. ~Meddles(s, {c[1]}) /\ v.pc = "idle" /\ UNCHANGED running /\ UNCHANGED cache
    BY <1>3 DEF LogsById, Disturb
  <2> QED
    BY <1>2, <2>1, <2>2
<1>4. ASSUME NEW i \in Intent, NEW H \in NamedHosts, LogsByIntent(s, i, H)
      PROVE  AllCalm'
  <2>1. PICK c \in discover_cluster_id_by_intent(i, H) : \E C \in log_sources(c, H) :
            ses' = [ses EXCEPT ![s] =
                       [Idle EXCEPT !.pc = "logs", !.victim = c, !.place = C]]
    BY <1>4 DEF LogsByIntent
  <2>2. c \in Cid /\ c[1] = i
    BY Discovered
  <2>3. ~Meddles(s, {c[1]}) /\ v.pc = "idle" /\ UNCHANGED running /\ UNCHANGED cache
    BY <1>4, <2>2 DEF LogsByIntent, Disturb
  <2> QED
    BY <1>2, <2>1, <2>2, <2>3
<1>5. ASSUME LogsLook(s) \/ LogsConfirm(s)
      PROVE  AllCalm'
  <2>1. /\ \A t \in Session \ {s} : ses'[t] = ses[t]
        /\ ses'[s].pc \in {"silent", "gone"} /\ ses'[s].cid = v.cid
        /\ ses'[s].place = v.place /\ ses'[s].victim = v.victim
        /\ v.pc \in {"logs", "silent"}
        /\ UNCHANGED running /\ UNCHANGED cache
    BY <1>1, <1>5 DEF LogsLook, LogsConfirm, TypeOK, SessionState
  <2>2. OfCid(running, v.victim) \cap v.place = {}
    BY <1>5 DEF LogsLook, LogsConfirm, AllCalm, Calm, OfCid
  <2>3. Apart'
    BY <2>1, StaysApart DEF AllCalm, Concerns
  <2>4. Calm(s)'
    BY <2>1, <2>2 DEF Calm, Launching, Filed, Writing
  <2> QED
    BY <2>1, <2>3, <2>4, MovesOnCalm DEF Filed, Launching, Writing
<1>6. ASSUME LogsForget(s)
      PROVE  AllCalm'
  <2> DEFINE c == v.victim
  <2>1. /\ v.pc = "gone" /\ remove_job_metadata({c}) /\ running' = running
        /\ ses' = [ses EXCEPT ![s] = Idle]
        /\ meta[c] \subseteq v.place
    BY <1>6 DEF LogsForget, Disturb
  <2>2. c \in Cid /\ c[1] \in Concerns(s)
    BY <2>1, OwnConcerns
  <2>3. ASSUME NEW x \in running
        PROVE  x.cid \notin {c}
    <3>1. ~BeingWritten(c)
      BY <2>1, <2>2, NotWritten DEF AllCalm, Writing
    <3>2. OfCid(running, c) \cap v.place = {}
      BY <2>1 DEF AllCalm, Calm
    <3> QED
      BY <2>1, <3>1, <3>2 DEF AllCalm, Listed, OfCid
  <2>4. ASSUME NEW t \in Session, ses[t].pc \in Filed
        PROVE  ses[t].cid \in Cid \ {c}
    <3>1. ses[t].pc \in RunPc /\ t # s
      BY <2>1, <2>4 DEF Filed, Launching, Writing, RunPc
    <3> QED
      BY <2>2, <3>1, OwnConcerns DEF AllCalm, Apart
  <2> QED
    BY <2>1, <2>2, <2>3, <2>4, RemovalCalm DEF Writing
<1> QED
  BY <1>3, <1>4, <1>5, <1>6 DEF LogsStep

(* An interrupt, the prune by hand and the environment keep an undisturbed *)
(* system's metadata right.                                                *)
LEMMA OthersCalm ==
  ASSUME TypeOK, SessionInv, TypeOK', SessionInv', AllCalm,
         \/ \E s \in Session : Interrupt(s)
         \/ \E c \in Cid : Age(c)
         \/ PruneByHand
         \/ \E h \in Host : HostDown(h) \/ HostUp(h)
         \/ \E x \in running : ContainerDies(x)
         \/ UNCHANGED vars,
         ~disturbed, ~disturbed'
  PROVE  AllCalm'
<1>1. running' \subseteq Container
  BY DEF TypeOK
<1>2. ASSUME UNCHANGED <<ses, files, meta, newer>>, running' \subseteq running,
             \A t \in Session : ses[t].pc \in Filed => ses[t].cid \notin old'
      PROVE  AllCalm'
  <2>1. \A t \in Session : ses[t].pc \in Filed => FirstInLine(ses[t])'
    BY <1>2 DEF AllCalm, Calm, FirstInLine
  <2>2. \A t \in Session : Calm(t)'
    BY <1>1, <1>2, <2>1, StaysCalm DEF AllCalm
  <2>3. Listed'
    BY <1>2, StaysListed DEF AllCalm
  <2> QED
    BY <1>2, <2>2, <2>3 DEF AllCalm, Apart, Concerns, Spared, Doomed
<1>3. ASSUME NEW s \in Session, Interrupt(s)
      PROVE  AllCalm'
  <2>1. /\ \A t \in Session \ {s} : ses'[t] = ses[t]
        /\ ses'[s] = Idle /\ Apart' /\ Calm(s)'
    BY <1>3, IdleApart DEF Interrupt, AllCalm
  <2>2. UNCHANGED running /\ UNCHANGED cache
    BY <1>3 DEF Interrupt
  <2>3. CASE ses[s].pc \notin Writing
    BY <2>1, <2>2, <2>3, MovesOnCalm DEF Idle, Filed, Launching, Writing
  <2>4. CASE ses[s].pc \in Writing
    <3>1. OfCid(running, ses[s].cid) = {}
      BY <1>3, <2>4 DEF Interrupt, Disturb
    <3>2. \A x \in running : BeingWritten(x.cid) => BeingWritten(x.cid)'
      BY <2>1, <3>1 DEF BeingWritten, OfCid
    <3>3. Listed'
      BY <2>2, <3>2 DEF AllCalm, Listed, cache
    <3>4. Spared'
      BY <2>1, StaysSpared DEF AllCalm, Idle, Filed, Launching, Writing
    <3>5. ASSUME NEW t \in Session \ {s}
          PROVE  Calm(t)'
      <4>1. ses[t].pc \in Filed => FirstInLine(ses[t])'
        BY <2>1, <2>2 DEF AllCalm, Calm, FirstInLine, cache
      <4> QED
        BY <1>1, <2>1, <2>2, <4>1, StaysCalm DEF AllCalm, cache
    <3> QED
      BY <2>1, <3>3, <3>4, <3>5 DEF AllCalm
  <2> QED
    BY <2>3, <2>4
<1>4. ASSUME NEW c \in Cid, Age(c)
      PROVE  AllCalm'
  <2>1. \A t \in Session : ses[t].pc \in Filed => ses[t].cid \notin old'
    BY <1>4 DEF Age, AllCalm, Calm, FirstInLine
  <2> QED
    BY <1>2, <1>4, <2>1 DEF Age
<1>5. ASSUME \/ \E h \in Host : HostDown(h) \/ HostUp(h)
             \/ \E x \in running : ContainerDies(x)
             \/ UNCHANGED vars
      PROVE  AllCalm'
  <2>1. UNCHANGED <<ses, files, meta, newer, old>> /\ running' \subseteq running
    BY <1>5 DEF HostDown, HostUp, ContainerDies, vars, cache
  <2>2. \A t \in Session : ses[t].pc \in Filed => ses[t].cid \notin old'
    BY <2>1 DEF AllCalm, Calm, FirstInLine
  <2> QED
    BY <1>2, <2>1, <2>2
<1>6. ~PruneByHand
  BY DEF PruneByHand
<1> QED
  BY <1>3, <1>4, <1>5, <1>6

(* disturbed is never reset. *)
LEMMA DisturbedStays ==
  ASSUME [Next]_vars, disturbed
  PROVE  disturbed'
<1>1. ASSUME NEW s \in Session, RunStep(s)
      PROVE  disturbed'
  BY <1>1 DEF RunStep, Disturb, Plan, Ensure, Save, Distribute, Write, Sweep, SweepFails, Evict,
     EvictFails, StartContainers, CollectRuntimeInfo, ListStale, Prune
<1>2. ASSUME NEW s \in Session, StopStep(s)
      PROVE  disturbed'
  BY <1>2 DEF StopStep, Disturb, StopById, StopByIntent, StopAll, Teardown, Forget,
     StopAllTeardown, StopAllForget
<1>3. ASSUME NEW s \in Session, LogsStep(s)
      PROVE  disturbed'
  BY <1>3 DEF LogsStep, Disturb, LogsById, LogsByIntent, LogsLook, LogsConfirm, LogsForget
<1> QED
  BY <1>1, <1>2, <1>3
  DEF Next, Disturb, Interrupt, Age, PruneByHand, HostDown, HostUp, ContainerDies, vars

(* The inductive strengthening: while nothing has disturbed it, the        *)
(* metadata lists what runs or is just being written for it, concurrent    *)
(* calls keep to different intents, no prune is about to unlink a launch's *)
(* file, and each call's metadata is as its next step needs it.            *)
THEOREM CalmHolds == Spec => []CalmInv
<1>1. Init => CalmInv
  <2>1. ASSUME Init, NEW s \in Session
        PROVE  ses[s].pc = "idle" /\ Concerns(s) = {}
    BY <2>1 DEF Init, Concerns, Idle
  <2> QED
    BY <2>1 DEF Init, CalmInv, AllCalm, Listed, Apart, Spared, Calm, Filed, Launching, Writing
<1>2. (TypeOK /\ SessionInv) /\ (TypeOK /\ SessionInv)' /\ CalmInv /\ [Next]_vars => CalmInv'
  <2> SUFFICES ASSUME TypeOK, SessionInv, TypeOK', SessionInv', CalmInv, [Next]_vars, ~disturbed'
               PROVE  AllCalm'
    BY DEF CalmInv
  <2>1. ~disturbed /\ AllCalm
    BY DisturbedStays DEF CalmInv
  <2> QED
    BY <2>1, RunStepCalm, StopStepCalm, LogsStepCalm, OthersCalm DEF Next
<1> QED
  BY <1>1, <1>2, SessionsWellFormed, PTL DEF Spec

(* The job metadata lists every container that runs, or is just being      *)
(* written for it, through outages, deaths, failed, partial and            *)
(* interrupted calls of any number of sessions, until something of         *)
(* Disturb's list has happened.                                            *)
THEOREM MetadataListsLiveHolds == Spec => []MetadataListsLive
<1>1. CalmInv => MetadataListsLive
  BY DEF CalmInv, AllCalm, MetadataListsLive
<1> QED
  BY <1>1, CalmHolds, PTL

(* A step of a session changes no other session's record.                  *)
LEMMA OneSessionActs ==
  ASSUME TypeOK, NEW s \in Session, NEW t \in Session \ {s},
         RunStep(t) \/ StopStep(t) \/ LogsStep(t) \/ Interrupt(t)
  PROVE  ses'[s] = ses[s]
<1>1. CASE RunStep(t)
  BY <1>1 DEF RunStep, Plan, Ensure, Save, Distribute, Write, Sweep, SweepFails, Evict, EvictFails,
     StartContainers, CollectRuntimeInfo, ListStale, Prune, TypeOK
<1>2. CASE StopStep(t)
  BY <1>2 DEF StopStep, StopById, StopByIntent, StopAll, Teardown, Forget, StopAllTeardown,
     StopAllForget, TypeOK
<1>3. CASE LogsStep(t)
  BY <1>3 DEF LogsStep, LogsById, LogsByIntent, LogsLook, LogsConfirm, LogsForget, TypeOK
<1>4. CASE Interrupt(t)
  BY <1>4 DEF Interrupt, TypeOK
<1> QED
  BY <1>1, <1>2, <1>3, <1>4

(* unconfirmed is never reset. *)
LEMMA UnconfirmedStays ==
  ASSUME [Next]_vars, unconfirmed
  PROVE  unconfirmed'
<1>1. ASSUME NEW s \in Session, RunStep(s)
      PROVE  unconfirmed'
  BY <1>1 DEF RunStep, Plan, Ensure, Save, Distribute, Write, Sweep, SweepFails, Evict, EvictFails,
     StartContainers, CollectRuntimeInfo, ListStale, Prune
<1>2. ASSUME NEW s \in Session, StopStep(s)
      PROVE  unconfirmed'
  BY <1>2 DEF StopStep, StopById, StopByIntent, StopAll, Teardown, Forget, StopAllTeardown,
     StopAllForget
<1>3. ASSUME NEW s \in Session, LogsStep(s)
      PROVE  unconfirmed'
  BY <1>3 DEF LogsStep, LogsById, LogsByIntent, LogsLook, LogsConfirm, LogsForget
<1> QED
  BY <1>1, <1>2, <1>3
  DEF Next, Interrupt, Age, PruneByHand, HostDown, HostUp, ContainerDies, vars

(* Fewer containers leave fewer to replace.                                *)
LEMMA StaysCovered ==
  ASSUME NEW t \in Session, Covered(t), ses'[t] = ses[t], running' \subseteq running
  PROVE  Covered(t)'
BY DEF Covered, Evicting

(* Only a start adds containers.                                           *)
LEMMA StartsAdd ==
  ASSUME [Next]_vars, \A s \in Session : ~StartContainers(s)
  PROVE  running' \subseteq running
<1>1. ASSUME NEW s \in Session, RunStep(s)
      PROVE  running' \subseteq running
  BY <1>1 DEF RunStep, Plan, Ensure, Save, Distribute, Write, Sweep, SweepFails, Evict, EvictFails,
     CollectRuntimeInfo, ListStale, Prune
<1>2. ASSUME NEW s \in Session, StopStep(s)
      PROVE  running' \subseteq running
  BY <1>2 DEF StopStep, StopById, StopByIntent, StopAll, Teardown, Forget, StopAllTeardown,
     StopAllForget
<1>3. ASSUME NEW s \in Session, LogsStep(s)
      PROVE  running' \subseteq running
  BY <1>3 DEF LogsStep, LogsById, LogsByIntent, LogsLook, LogsConfirm, LogsForget
<1> QED
  BY <1>1, <1>2, <1>3
  DEF Next, Interrupt, Age, PruneByHand, HostDown, HostUp, ContainerDies, vars

(* The acting session's list stays complete when it starts nothing.        *)
LEMMA ActorCovered ==
  ASSUME TypeOK, SessionInv, NEW s \in Session, Covered(s), Calm(s)',
         RunStep(s) \/ StopStep(s) \/ LogsStep(s) \/ Interrupt(s), ~StartContainers(s),
         running' \subseteq running, ~disturbed', ~unconfirmed'
  PROVE  Covered(s)'
<1> DEFINE v == ses[s]
<1>1. v \in SessionState
  BY DEF TypeOK
<1>2. CASE Sweep(s)
  <2> DEFINE snapshot == query_status(v.cand)
  <2>1. ses'[s].todo = Superseded(s, snapshot) /\ ses'[s].cid = v.cid /\ ses'[s].place = v.place
    BY <1>1, <1>2 DEF Sweep, TypeOK, SessionState
  <2>2. running' = running /\ running \subseteq snapshot
    BY <1>2 DEF Sweep, Disturb, BlindSweep
  <2> HIDE DEF snapshot
  <2>3. ASSUME NEW y \in running, y.cid # v.cid, y.cid[1] = v.cid[1], y.host \in HostsIn(v.place)
        PROVE  y \in Superseded(s, snapshot)
    BY <2>2, <2>3 DEF Superseded, HostsIn, OfCid
  <2> QED
    BY <2>1, <2>2, <2>3 DEF Covered
<1>3. CASE Evict(s)
  <2>1. PICK c \in CidsIn(v.todo) :
            /\ ses'[s].pc = "tearing" /\ ses'[s].victim = c /\ ses'[s].cid = v.cid
            /\ ses'[s].place = v.place /\ ses'[s].todo = v.todo \ OfCid(v.todo, c)
    BY <1>1, <1>3 DEF Evict, TypeOK, SessionState
  <2>2. v.pc = "evict" /\ running' = running
    BY <1>3 DEF Evict
  <2> QED
    BY <2>1, <2>2 DEF Covered, Evicting, OfCid
<1>4. CASE Teardown(s) /\ v.pc = "tearing"
  <2>1. /\ ses'[s].pc = "evicted" /\ ses'[s].victim = v.victim /\ ses'[s].cid = v.cid
        /\ ses'[s].place = v.place /\ ses'[s].todo = v.todo
        /\ ses'[s].ok = Confirmed(v.targets)
    BY <1>1, <1>4 DEF Teardown, TypeOK, SessionState
  <2>2. ses'[s].ok
    BY <1>4, <2>1 DEF Teardown
  <2>3. \A y \in running' : y.cid # v.victim
    BY <2>1, <2>2 DEF Calm, OfCid
  <2> QED
    BY <1>4, <2>1, <2>3 DEF Covered, Evicting
<1>5. CASE Forget(s) /\ v.pc = "evicted"
  <2>1. /\ ses'[s].pc = "evict" /\ ses'[s].cid = v.cid
        /\ ses'[s].place = v.place /\ ses'[s].todo = v.todo
    BY <1>1, <1>5 DEF Forget, TypeOK, SessionState
  <2> QED
    BY <1>5, <2>1 DEF Covered, Evicting
<1>6. CASE ses'[s].pc \notin Evicting
  BY <1>6 DEF Covered
<1>7. ASSUME RunStep(s), ~Sweep(s), ~Evict(s)
      PROVE  ses'[s].pc \notin Evicting
  <2>1. ~SweepFails(s) /\ ~EvictFails(s)
    BY DEF SweepFails, EvictFails
  <2>2. ASSUME NEW c \in Cid, NEW k \in Cluster, Plan(s, c, k)
        PROVE  ses'[s].pc = "planned"
    BY <2>2 DEF Plan, Idle, TypeOK
  <2>3. Ensure(s) \/ Prune(s) => ses'[s].pc = "idle"
    BY DEF Ensure, Prune, Idle, TypeOK
  <2>6. ListStale(s) => ses'[s].pc \in {"idle", "pruning"}
    <3>1. ASSUME NEW C
          PROVE  (IF C = {} THEN Idle ELSE [v EXCEPT !.pc = "pruning", !.doomed = C]).pc
                     \in {"idle", "pruning"}
      BY <1>1 DEF Idle, SessionState
    <3>2. ASSUME ListStale(s)
          PROVE  \E C : ses'[s] = IF C = {} THEN Idle
                                 ELSE [v EXCEPT !.pc = "pruning", !.doomed = C]
      BY <3>2 DEF ListStale, TypeOK
    <3> QED
      BY <3>1, <3>2
  <2>4. Save(s) \/ Distribute(s) \/ CollectRuntimeInfo(s)
            => ses'[s].pc \in Writing \cup {"saved", "staged", "prune"}
    BY <1>1 DEF Save, Distribute, CollectRuntimeInfo, Writing, TypeOK, SessionState
  <2>5. Write(s) => ses'[s].pc \in {"saved", "staged", "prune"}
    BY <1>1 DEF Write, AfterWrite, Writing, TypeOK, SessionState
  <2> QED
    BY <1>7, <2>1, <2>2, <2>3, <2>4, <2>5, <2>6 DEF RunStep, Evicting, Writing
<1>8. ASSUME StopStep(s), ~(Teardown(s) /\ v.pc = "tearing"), ~(Forget(s) /\ v.pc = "evicted")
      PROVE  ses'[s].pc \notin Evicting
  <2>1. ASSUME NEW c \in Cid, NEW H \in SUBSET Host, StopById(s, c, H)
        PROVE  ses'[s].pc = "teardown"
    BY <2>1 DEF StopById, Idle, TypeOK
  <2>2. ASSUME NEW i \in Intent, NEW H \in NamedHosts, StopByIntent(s, i, H)
        PROVE  ses'[s].pc = "teardown"
    BY <2>2 DEF StopByIntent, Idle, TypeOK
  <2>3. ASSUME NEW k \in Cluster, StopAll(s, k)
        PROVE  ses'[s].pc = "sweep"
    BY <2>3 DEF StopAll, Idle, TypeOK
  <2>4. Teardown(s) => ses'[s].pc = "forget"
    BY <1>1, <1>8 DEF Teardown, TypeOK, SessionState
  <2>5. Forget(s) \/ StopAllForget(s) => ses'[s].pc = "idle"
    BY <1>8 DEF Forget, StopAllForget, Idle, TypeOK
  <2>6. StopAllTeardown(s) => ses'[s].pc = "swept"
    BY <1>1 DEF StopAllTeardown, TypeOK, SessionState
  <2> QED
    BY <1>8, <2>1, <2>2, <2>3, <2>4, <2>5, <2>6 DEF StopStep, Evicting
<1>9. ASSUME LogsStep(s)
      PROVE  ses'[s].pc \notin Evicting
  <2>1. ASSUME NEW c \in Cid, LogsById(s, c)
        PROVE  ses'[s].pc = "logs"
    BY <2>1 DEF LogsById, Idle, TypeOK
  <2>2. ASSUME NEW i \in Intent, NEW H \in NamedHosts, LogsByIntent(s, i, H)
        PROVE  ses'[s].pc = "logs"
    BY <2>2 DEF LogsByIntent, Idle, TypeOK
  <2>3. LogsLook(s) \/ LogsConfirm(s) => ses'[s].pc \in {"silent", "gone"}
    BY <1>1 DEF LogsLook, LogsConfirm, TypeOK, SessionState
  <2>4. LogsForget(s) => ses'[s].pc = "idle"
    BY DEF LogsForget, Idle, TypeOK
  <2> QED
    BY <1>9, <2>1, <2>2, <2>3, <2>4 DEF LogsStep, Evicting
<1>10. ASSUME Interrupt(s)
       PROVE  ses'[s].pc \notin Evicting
  BY <1>10 DEF Interrupt, Idle, Evicting, TypeOK
<1> QED
  BY <1>2, <1>3, <1>4, <1>5, <1>6, <1>7, <1>8, <1>9, <1>10

(* A start puts its containers where no other deployment of the intent is  *)
(* left, and other launches, which are of other intents, see none of them. *)
LEMMA StartCovered ==
  ASSUME TypeOK, SessionInv, Apart, Alone, \A t \in Session : Covered(t),
         NEW s \in Session, StartContainers(s)
  PROVE  Alone' /\ \A t \in Session : Covered(t)'
<1> DEFINE v == ses[s]
<1>1. v \in SessionState /\ v.pc = "evict" /\ v.todo = {}
  BY DEF StartContainers, TypeOK
<1>2. v.cid \in Cid /\ v.cid[1] \in Concerns(s) /\ \A x \in v.place : x.cid = v.cid
  BY <1>1, OwnConcerns DEF SessionInv, WellFormed, RunPc
<1>3. running' \subseteq running \cup v.place
  BY DEF StartContainers
<1>4. ASSUME NEW y \in running, NEW x \in v.place, x.cid[1] = y.cid[1], x.host = y.host
      PROVE  y.cid = v.cid
  BY <1>1, <1>2, <1>4 DEF Covered, Evicting, HostsIn
<1>5. Alone'
  <2> SUFFICES ASSUME NEW x \in running', NEW y \in running', x.cid[1] = y.cid[1], x.host = y.host
               PROVE  x.cid = y.cid
    BY DEF Alone
  <2> QED
    BY <1>2, <1>3, <1>4 DEF Alone
<1>6. ASSUME NEW t \in Session \ {s}
      PROVE  Covered(t)'
  <2>1. ses'[t] = ses[t]
    BY DEF StartContainers, TypeOK
  <2>2. CASE ses[t].pc \in Evicting
    <3>1. ses[t].cid[1] \in Concerns(t)
      BY <2>2, OwnConcerns DEF Evicting, RunPc
    <3>2. ses[t].cid[1] # v.cid[1]
      BY <1>2, <3>1 DEF Apart
    <3> QED
      BY <1>2, <1>3, <2>1, <3>2 DEF Covered
  <2> QED
    BY <2>1, <2>2 DEF Covered
<1>7. Covered(s)'
  <2>1. ses'[s].pc \in {"launched", "failed"}
    BY <1>1 DEF StartContainers, TypeOK, SessionState
  <2> QED
    BY <2>1 DEF Covered, Evicting
<1> QED
  BY <1>5, <1>6, <1>7

(* The inductive strengthening: a launch of an undisturbed system, none of *)
(* whose evictions was skipped or unconfirmed, keeps on its list every     *)
(* deployment it replaces until that deployment is gone.                   *)
THEOREM ReplacementHolds == Spec => []ReplacementInv
<1>1. Init => ReplacementInv
  BY DEF Init, ReplacementInv, Alone, Covered, Evicting, Idle
<1>2. /\ TypeOK /\ SessionInv /\ CalmInv /\ CalmInv' /\ ReplacementInv /\ [Next]_vars
      => ReplacementInv'
  <2> SUFFICES ASSUME TypeOK, SessionInv, CalmInv, CalmInv', ReplacementInv, [Next]_vars,
                      ~disturbed', ~unconfirmed'
               PROVE  Alone' /\ \A t \in Session : Covered(t)'
    BY DEF ReplacementInv
  <2>1. ~disturbed /\ ~unconfirmed
    BY DisturbedStays, UnconfirmedStays
  <2>2. Alone /\ \A t \in Session : Covered(t)
    BY <2>1 DEF ReplacementInv
  <2>3. Apart /\ \A t \in Session : Calm(t)'
    BY <2>1 DEF CalmInv, AllCalm
  <2>4. CASE \E s \in Session : StartContainers(s)
    BY <2>2, <2>3, <2>4, StartCovered
  <2>5. CASE \A s \in Session : ~StartContainers(s)
    <3>1. running' \subseteq running
      BY <2>5, StartsAdd
    <3>2. ASSUME NEW t \in Session
          PROVE  Covered(t)'
      <4>1. CASE RunStep(t) \/ StopStep(t) \/ LogsStep(t) \/ Interrupt(t)
        BY <2>1, <2>2, <2>3, <2>5, <3>1, <4>1, ActorCovered
      <4>2. CASE ses'[t] = ses[t]
        BY <2>2, <3>1, <4>2, StaysCovered
      <4>3. RunStep(t) \/ StopStep(t) \/ LogsStep(t) \/ Interrupt(t) \/ ses'[t] = ses[t]
        BY OneSessionActs
        DEF Next, Age, PruneByHand, HostDown, HostUp, ContainerDies, vars
      <4> QED
        BY <4>1, <4>2, <4>3
    <3>3. Alone'
      BY <2>2, <3>1 DEF Alone
    <3> QED
      BY <3>2, <3>3
  <2> QED
    BY <2>4, <2>5
<1> QED
  BY <1>1, <1>2, SessionsWellFormed, CalmHolds, PTL DEF Spec

(* A replacing launch leaves no second deployment of its intent on a host  *)
(* (issue #223): for any number of sessions and hosts, until an eviction   *)
(* is skipped or unconfirmed or something of Disturb's list has happened.  *)
THEOREM OneDeploymentPerHostHolds == Spec => []OneDeploymentPerHost
<1>1. ReplacementInv => OneDeploymentPerHost
  BY DEF ReplacementInv, OneDeploymentPerHost
<1> QED
  BY <1>1, ReplacementHolds, PTL

(* "Foreign workloads are never touched": a launch removes containers of   *)
(* its own intent only, whatever the other sessions do meanwhile and       *)
(* whatever has gone wrong before.                                         *)
THEOREM ForeignUntouchedHolds == Spec => ForeignUntouched
<1> DEFINE Touches == \A s \in Session, x \in running :
               ses[s].pc \in RunPc /\ ses'[s] # ses[s] /\ x \notin running'
                   => x.cid[1] = ses[s].cid[1]
<1>1. (TypeOK /\ SessionInv) /\ [Next]_vars => [Touches]_vars
  <2> SUFFICES ASSUME TypeOK, SessionInv, Next, NEW s \in Session, NEW x \in running,
                      ses[s].pc \in RunPc, ses'[s] # ses[s], x \notin running'
               PROVE  x.cid[1] = ses[s].cid[1]
    OBVIOUS
  <2>1. RunStep(s) \/ StopStep(s) \/ LogsStep(s) \/ Interrupt(s)
    BY OneSessionActs
    DEF Next, Age, PruneByHand, HostDown, HostUp, ContainerDies
  <2>2. StartContainers(s) \/ Teardown(s)
    BY <2>1 DEF RunStep, Plan, Ensure, Save, Distribute, Write, Sweep, SweepFails, Evict,
       EvictFails, CollectRuntimeInfo, ListStale, Prune, StopStep, StopById, StopByIntent, StopAll,
       Forget, StopAllTeardown, StopAllForget, LogsStep, LogsById, LogsByIntent, LogsLook,
       LogsConfirm, LogsForget, Interrupt, RunPc
  <2>3. CASE StartContainers(s)
    BY <2>3 DEF StartContainers, SessionInv, WellFormed
  <2>4. CASE Teardown(s)
    BY <2>4 DEF Teardown, SessionInv, WellFormed, RunPc
  <2> QED
    BY <2>2, <2>3, <2>4
<1> QED
  BY <1>1, SessionsWellFormed, PTL DEF Spec, ForeignUntouched
=============================================================================
