-------------------------- MODULE ProxyEngineProofs --------------------------
(***************************************************************************)
(* Theorems about the inference proxy's state file, for every set of       *)
(* commands, daemons, gateway processes and models.                        *)
(***************************************************************************)
EXTENDS ProxyEngine, TLAPS

Life == {"starting", "up", "exiting", "zombie", "gone"}

Process == [life : Life, serves : SUBSET Model, parent : Daemon \cup {NoDaemon}]

Places == {"out", "start", "attach", "grace", "waiting", "sleep", "apply", "exiting", "regrace"}

Locals ==
    [pc : Places, want : SUBSET Model, old : Proxy \cup {NoProxy},
     ad : Daemon \cup {NoDaemon}, new : Proxy \cup {NoProxy}]

(* The locals an actor has where it is. *)
HasLocals(r) ==
    /\ r \in Locals
    /\ r.new # NoProxy <=> r.pc \in {"attach", "grace", "waiting", "regrace"}
    /\ r.old # NoProxy <=> r.pc = "exiting"

(* The parts of TypeOK, by name. *)
LEMMA Typing ==
  TypeOK <=>
    /\ state \in StateFile \cup {NoState}
    /\ config \subseteq Model /\ healthy \subseteq Model
    /\ proxy \in [Proxy -> Process]
    /\ act \in [Actor -> Locals]
    /\ \A a \in Actor : HasLocals(act[a])
    /\ told \subseteq Daemon
    /\ stopped \in BOOLEAN /\ bypassed \in BOOLEAN /\ disturbed \in BOOLEAN
BY DEF TypeOK, Process, Life, Locals, Places, HasLocals

(* What happens to the processes keeps their types, and brings none to     *)
(* life but the one that is spawned.                                       *)
LEMMA Processes ==
  ASSUME proxy \in [Proxy -> Process]
  PROVE  /\ Gone \in Process
         /\ \A d \in Daemon \cup {NoDaemon} : Spawned(d) \in Process
         /\ \A p \in Proxy : Terminated(p) \in [Proxy -> Process] /\ Dead(p) \in [Proxy -> Process]
         /\ \A a : Reaped(a) \in [Proxy -> Process] /\ Orphaned(a) \in [Proxy -> Process]
<1>1. Gone \in Process
  BY DEF Gone, Process, Life
<1>2. \A d \in Daemon \cup {NoDaemon} : Spawned(d) \in Process /\ Zombie(d) \in Process
  BY DEF Spawned, Zombie, Gone, Process, Life
<1>3. \A p \in Proxy : Terminated(p) \in [Proxy -> Process]
  BY DEF Terminated, Process, Life
<1>4. \A p \in Proxy : Dead(p) \in [Proxy -> Process]
  BY <1>1, <1>2 DEF Dead, Process
<1>5. \A a : Reaped(a) \in [Proxy -> Process]
  BY <1>1 DEF Reaped
<1>6. \A a : Orphaned(a) \in [Proxy -> Process]
  BY <1>5 DEF Orphaned, Process
<1> QED
  BY <1>1, <1>2, <1>3, <1>4, <1>5, <1>6

(* The locals of one who is idle or begins something. *)
LEMMA Beginnings ==
  /\ HasLocals(Idle)
  /\ \A pc \in {"out", "start", "sleep", "apply"}, want \in SUBSET Model :
        HasLocals([Idle EXCEPT !.pc = pc, !.want = want])
  /\ HasLocals([Idle EXCEPT !.pc = "sleep"])
  /\ \A a : HasLocals(Returned(a))
BY ProxyAssumption DEF HasLocals, Idle, Locals, Places, Returned

(* A pid that is free is that of a process. *)
LEMMA FreeOnes ==
  /\ FreeProxy # {} => AnyOf(FreeProxy) \in FreeProxy
  /\ FreeDaemon # {} => AnyOf(FreeDaemon) \in FreeDaemon
  /\ FreeProxy \subseteq Proxy /\ FreeDaemon \subseteq Daemon
BY DEF AnyOf, FreeProxy, FreeDaemon

(* The state file, config, processes and actors keep their types.          *)
THEOREM TypeCorrect == Spec => []TypeOK
<1>1. Init => TypeOK
  <2>1. Gone \in Process
    BY DEF Gone, Process, Life
  <2> QED
    BY <2>1, Beginnings, Typing DEF Init, HasLocals
<1>2. TypeOK /\ [Next]_vars => TypeOK'
  <2> SUFFICES ASSUME TypeOK, [Next]_vars
               PROVE  TypeOK'
    OBVIOUS
  <2> DEFINE Typed ==
         /\ state' \in StateFile \cup {NoState}
         /\ config' \subseteq Model /\ healthy' \subseteq Model
         /\ proxy' \in [Proxy -> Process]
         /\ act' \in [Actor -> Locals]
         /\ \A a \in Actor : HasLocals(act'[a])
         /\ told' \subseteq Daemon
         /\ stopped' \in BOOLEAN /\ bypassed' \in BOOLEAN /\ disturbed' \in BOOLEAN
  <2> SUFFICES Typed
    BY DEF TypeOK, Process, Life, Locals, Places, HasLocals
  <2>0. /\ state \in StateFile \cup {NoState}
        /\ config \subseteq Model /\ healthy \subseteq Model
        /\ proxy \in [Proxy -> Process]
        /\ act \in [Actor -> Locals]
        /\ \A a \in Actor : HasLocals(act[a])
        /\ told \subseteq Daemon
        /\ stopped \in BOOLEAN /\ bypassed \in BOOLEAN /\ disturbed \in BOOLEAN
    BY Typing
  <2>00. \A r : HasLocals(r) => r \in Locals
    BY DEF HasLocals
  <2>01. is_running => state.pid \in Proxy /\ state.ad \in Daemon \cup {NoDaemon}
    BY <2>0 DEF is_running, StateFile
  <2>02. StopRecorded => state' \in StateFile \cup {NoState} /\ (state # NoState => told' \subseteq Daemon)
    BY <2>0 DEF StopRecorded, StateFile
  <2>03. \A a : Disturb(a) => disturbed' \in BOOLEAN
    BY <2>0 DEF Disturb
  <2>04. \A a \in Actor : \A r : HasLocals(r) /\ act' = [act EXCEPT ![a] = r] =>
            act' \in [Actor -> Locals] /\ \A b \in Actor : HasLocals(act'[b])
    BY <2>0, <2>00
  <2>05. Session \subseteq Actor /\ Daemon \subseteq Actor
    BY DEF Actor
  <2>1. CASE UNCHANGED vars
    BY <2>0, <2>1 DEF vars
  <2>2. ASSUME NEW s \in Session, Start(s) \/ Sync(s)
        PROVE  Typed
    BY <2>0, <2>04, <2>05, <2>2, Beginnings DEF Start, Sync
  <2>3. ASSUME NEW s \in Session, Stop(s)
        PROVE  Typed
    BY <2>0, <2>01, <2>02, <2>03, <2>3, Processes DEF Stop, is_running
  <2>4. ASSUME NEW s \in Session, StartRefused(s)
        PROVE  Typed
    <3>1. config' \subseteq Model
      BY <2>0, <2>05, <2>4 DEF StartRefused, Locals
    <3> QED
      BY <2>0, <2>03, <2>04, <2>05, <2>4, <3>1, Beginnings DEF StartRefused
  <2>5. ASSUME NEW s \in Session, NEW foreground \in BOOLEAN, Launch(s, foreground)
        PROVE  Typed
    <3> DEFINE p == AnyOf(FreeProxy)
    <3>1. p \in Proxy /\ s \in Actor
      BY <2>05, <2>5, FreeOnes DEF Launch
    <3>2. config' \subseteq Model
      BY <2>0, <3>1, <2>5 DEF Launch, Locals
    <3>3. state' \in StateFile \cup {NoState} /\ told' \subseteq Daemon
      BY <2>0, <2>01, <2>02, <2>5 DEF Launch, is_running
    <3>4. proxy' \in [Proxy -> Process]
      BY <2>0, <2>01, <2>5, <3>1, Processes DEF Launch
    <3>5. act' = [act EXCEPT ![s] = [act[s] EXCEPT !.pc = IF foreground THEN "attach" ELSE "grace",
                                                  !.new = p, !.want = {}]]
      BY <2>0, <2>5, <3>1 DEF Launch
    <3>6. p # NoProxy
      BY <3>1, ProxyAssumption
    <3>7. HasLocals([act[s] EXCEPT !.pc = IF foreground THEN "attach" ELSE "grace",
                                   !.new = p, !.want = {}])
      BY <2>0, <2>5, <3>1, <3>6 DEF Launch, HasLocals, Locals, Places
    <3> QED
      BY <2>0, <2>03, <2>04, <2>5, <3>1, <3>2, <3>3, <3>4, <3>5, <3>7 DEF Launch
  <2>6. ASSUME NEW s \in Session, StartFails(s)
        PROVE  Typed
    BY <2>0, <2>04, <2>05, <2>6, Beginnings DEF StartFails
  <2>7. ASSUME NEW s \in Session, Record(s)
        PROVE  Typed
    <3> DEFINE d == AnyOf(FreeDaemon)
               after == IF act[s].pc = "attach" THEN [act[s] EXCEPT !.pc = "waiting"] ELSE Idle
    <3>1. act[s].new \in Proxy
      BY <2>0, <2>05, <2>7 DEF Record, HasLocals, Locals
    <3>2. HasLocals(after)
      <4>1. CASE act[s].pc = "attach"
        <5>1. HasLocals([act[s] EXCEPT !.pc = "waiting"])
          BY <2>0, <2>05, <4>1 DEF HasLocals, Locals, Places
        <5> QED
          BY <4>1, <5>1
      <4>2. CASE act[s].pc # "attach"
        BY <4>2, Beginnings
      <4> QED
        BY <4>1, <4>2
    <3>3. state' \in StateFile \cup {NoState}
      BY <2>7, <3>1, FreeOnes DEF Record, StateFile
    <3>4. act' \in [Actor -> Locals] /\ \A b \in Actor : HasLocals(act'[b])
      <4>1. CASE act' = [act EXCEPT ![s] = after]
        BY <2>04, <2>05, <3>2, <4>1
      <4>2. CASE FreeDaemon # {} /\ act' = [act EXCEPT ![s] = after, ![d] = [Idle EXCEPT !.pc = "sleep"]]
        BY <2>0, <2>00, <2>05, <3>2, <4>2, FreeOnes, Beginnings
      <4> QED
        BY <2>7, <4>1, <4>2 DEF Record
    <3> QED
      BY <2>0, <2>03, <2>7, <3>3, <3>4 DEF Record
  <2>8. ASSUME NEW s \in Session, ForegroundEnds(s)
        PROVE  Typed
    <3>1. act[s].new \in Proxy
      BY <2>0, <2>05, <2>8 DEF ForegroundEnds, HasLocals, Locals
    <3>2. state' \in StateFile \cup {NoState} /\ told' \subseteq Daemon
      BY <2>0, <2>02, <2>8 DEF ForegroundEnds
    <3>3. disturbed' \in BOOLEAN
      BY <2>8 DEF ForegroundEnds
    <3> QED
      BY <2>0, <2>04, <2>05, <2>8, <3>1, <3>2, <3>3, Processes, Beginnings DEF ForegroundEnds
  <2>9. ASSUME NEW d \in Daemon, Wake(d) \/ Leave(d)
        PROVE  Typed
    BY <2>0, <2>04, <2>05, <2>9, Processes, Beginnings DEF Wake, Leave
  <2>10. ASSUME NEW a \in Actor, Apply(a)
         PROVE  Typed
    <3>1. config' \subseteq Model
      BY <2>0, <2>10 DEF Apply, Locals
    <3>2. disturbed' \in BOOLEAN
      BY <2>0, <2>03, <2>10 DEF Apply
    <3>3. proxy' \in [Proxy -> Process] /\ bypassed' \in BOOLEAN
      <4>1. CASE is_running /\ proxy' = Terminated(state.pid) /\ bypassed' = FALSE
        BY <2>0, <2>01, <4>1, Processes
      <4>2. CASE UNCHANGED <<proxy, bypassed>>
        BY <2>0, <4>2
      <4> QED
        BY <2>10, <4>1, <4>2 DEF Apply
    <3>4. act' \in [Actor -> Locals] /\ \A b \in Actor : HasLocals(act'[b])
      <4>1. CASE act' = [act EXCEPT ![a] = Returned(a)]
        BY <2>04, <4>1, Beginnings
      <4>2. CASE is_running /\ act' = [act EXCEPT ![a].pc = "exiting", ![a].old = state.pid,
                                                 ![a].ad = state.ad, ![a].want = {}]
        <5>1. act' = [act EXCEPT ![a] = [act[a] EXCEPT !.pc = "exiting", !.old = state.pid,
                                                      !.ad = state.ad, !.want = {}]]
          BY <2>0, <4>2
        <5>2. HasLocals([act[a] EXCEPT !.pc = "exiting", !.old = state.pid,
                                       !.ad = state.ad, !.want = {}])
          BY <2>0, <2>01, <2>10, <4>2, ProxyAssumption DEF Apply, HasLocals, Locals, Places
        <5> QED
          BY <2>04, <5>1, <5>2
      <4> QED
        BY <2>10, <4>1, <4>2 DEF Apply
    <3> QED
      BY <2>0, <2>10, <3>1, <3>2, <3>3, <3>4 DEF Apply
  <2>11. ASSUME NEW a \in Actor, Respawn(a)
         PROVE  Typed
    <3> DEFINE p == AnyOf(FreeProxy)
    <3>1. p \in Proxy /\ p # NoProxy
      BY <2>11, FreeOnes, ProxyAssumption DEF Respawn
    <3>2. proxy' \in [Proxy -> Process]
      BY <2>0, <2>11, <3>1, Processes DEF Respawn
    <3>3. act' = [act EXCEPT ![a] = [act[a] EXCEPT !.pc = "regrace", !.old = NoProxy, !.new = p]]
      BY <2>0, <2>11 DEF Respawn
    <3>4. HasLocals([act[a] EXCEPT !.pc = "regrace", !.old = NoProxy, !.new = p])
      BY <2>0, <3>1 DEF HasLocals, Locals, Places
    <3> QED
      BY <2>0, <2>04, <2>11, <3>2, <3>3, <3>4 DEF Respawn
  <2>12. ASSUME NEW a \in Actor, Restarted(a)
         PROVE  Typed
    <3>1. act[a].new \in Proxy /\ act[a].ad \in Daemon \cup {NoDaemon}
      BY <2>0, <2>12 DEF Restarted, HasLocals, Locals
    <3>2. state' \in StateFile \cup {NoState}
      BY <2>12, <3>1 DEF Restarted, StateFile
    <3>3. proxy' \in [Proxy -> Process]
      BY <2>0, <2>12, <3>1, Processes DEF Restarted
    <3> QED
      BY <2>0, <2>03, <2>04, <2>12, <3>2, <3>3, Beginnings DEF Restarted
  <2>13. ASSUME NEW a \in Actor, Interrupt(a)
         PROVE  Typed
    BY <2>0, <2>04, <2>13, Processes, Beginnings DEF Interrupt
  <2>14. ASSUME NEW p \in Proxy, Boot(p) \/ Exit(p) \/ Die(p)
         PROVE  Typed
    <3>1. [proxy EXCEPT ![p].life = "up", ![p].serves = config] \in [Proxy -> Process]
      BY <2>0 DEF Process, Life
    <3>2. proxy' \in [Proxy -> Process]
      BY <2>0, <2>14, <3>1, Processes DEF Boot, Exit, Die
    <3> QED
      BY <2>0, <2>14, <3>2 DEF Boot, Exit, Die
  <2>15. CASE Change
    BY <2>0, <2>15 DEF Change
  <2> QED
    BY <2>1, <2>2, <2>3, <2>4, <2>5, <2>6, <2>7, <2>8, <2>9, <2>10, <2>11, <2>12, <2>13, <2>14, <2>15
    DEF Next, Command, SessionStep, Proceed
<1> QED
  BY <1>1, <1>2, PTL DEF Spec
-----------------------------------------------------------------------------
Alive(r) == r.life \in {"starting", "up"}

(* No signal, death or reaping brings a process to life, and a proxy that  *)
(* was told to exit is no longer live.                                     *)
LEMMA Lives ==
  ASSUME TypeOK
  PROVE  /\ \A q, p \in Proxy : Alive(Terminated(q)[p]) => Alive(proxy[p]) /\ p # q
         /\ \A q, p \in Proxy : Alive(Dead(q)[p]) => Alive(proxy[p])
         /\ \A a \in Actor, p \in Proxy : Alive(Reaped(a)[p]) => Alive(proxy[p])
         /\ \A a \in Actor, p \in Proxy : Alive(Orphaned(a)[p]) => Alive(proxy[p])
<1>1. proxy \in [Proxy -> Process]
  BY Typing
<1>2. ~Alive(Gone) /\ \A d : ~Alive(Zombie(d))
  BY DEF Alive, Gone, Zombie
<1>3. \A q, p \in Proxy : Alive(Terminated(q)[p]) => Alive(proxy[p]) /\ p # q
  BY <1>1 DEF Terminated, Alive, Process
<1>4. \A q, p \in Proxy : Alive(Dead(q)[p]) => Alive(proxy[p])
  BY <1>1, <1>2 DEF Dead
<1>5. \A a, p : p \in Proxy /\ Alive(Reaped(a)[p]) => Alive(proxy[p])
  BY <1>1, <1>2 DEF Reaped
<1>6. \A a, p : p \in Proxy /\ Alive(Orphaned(a)[p]) => Alive(proxy[p])
  <2> SUFFICES ASSUME NEW a, NEW p \in Proxy, Alive(Orphaned(a)[p])
               PROVE  Alive(proxy[p])
    OBVIOUS
  <2>1. CASE proxy[p].parent = a
    <3>1. Reaped(a)[p] \in Process
      BY <1>1, Processes
    <3>2. Orphaned(a)[p].life = Reaped(a)[p].life
      BY <2>1, <3>1 DEF Orphaned, Process
    <3> QED
      BY <1>5, <3>2 DEF Alive
  <2>2. CASE proxy[p].parent # a
    BY <2>2 DEF Orphaned
  <2> QED
    BY <2>1, <2>2
<1> QED
  BY <1>3, <1>4, <1>5, <1>6

(* The proxy of the state file. *)
Recorded(p) == state # NoState /\ state.pid = p

(* The strengthening of LiveIsRecorded and StoppedStaysStopped: while      *)
(* nothing disturbs, one actor at most replaces the proxy, and the proxy   *)
(* of the state file is not live while it does.                            *)
RecordInv ==
    /\ \A p \in Proxy : Live(p) => Recorded(p) \/ \E a \in Actor : Busy(a) /\ act[a].new = p
    /\ \A a, b \in Actor : Busy(a) /\ Busy(b) => a = b
    /\ \A a \in Actor, p \in Proxy : Busy(a) /\ Recorded(p) => ~Live(p)
    /\ stopped => /\ state = NoState
                  /\ \A p \in Proxy : ~Live(p)
                  /\ \A a \in Actor : ~Busy(a)

Undisturbed == ~disturbed => RecordInv

(* Every step keeps the invariant. *)
LEMMA RecordStep == TypeOK /\ Undisturbed /\ [Next]_vars => Undisturbed'
<1> SUFFICES ASSUME TypeOK, Undisturbed, [Next]_vars, ~disturbed'
             PROVE  RecordInv'
  BY DEF Undisturbed
<1>0. /\ state \in StateFile \cup {NoState}
      /\ proxy \in [Proxy -> Process]
      /\ act \in [Actor -> Locals]
      /\ \A a \in Actor : HasLocals(act[a])
      /\ stopped \in BOOLEAN /\ disturbed \in BOOLEAN
  BY Typing
<1>00. Session \subseteq Actor /\ Daemon \subseteq Actor
  BY DEF Actor
<1>01. \A p : Live(p) = Alive(proxy[p])
  BY DEF Live, Alive
<1>02. \A a \in Actor : Disturb(a) => ~disturbed /\ \A b \in Actor : Busy(b) => b = a
  BY <1>0 DEF Disturb
<1>03. is_running => state # NoState /\ state.pid \in Proxy
  BY <1>0 DEF is_running, StateFile
<1>04. ASSUME ~disturbed, state' = state, stopped' = stopped,
              \A p \in Proxy : Live(p)' => Live(p),
              \A a \in Actor : (Busy(a)' <=> Busy(a)) /\ (Busy(a) => act'[a].new = act[a].new)
       PROVE  RecordInv'
  BY <1>04 DEF Undisturbed, RecordInv, Recorded
<1>1. CASE UNCHANGED vars
  BY <1>1 DEF vars, Undisturbed, RecordInv, Live, Busy, Recorded
<1>2. ASSUME NEW s \in Session, Start(s) \/ Sync(s) \/ StartFails(s)
      PROVE  RecordInv'
  <2>1. CASE Start(s) \/ Sync(s)
    <3>1. \A b \in Actor : (Busy(b)' <=> Busy(b)) /\ (Busy(b) => act'[b].new = act[b].new)
      BY <1>0, <1>00, <2>1 DEF Start, Sync, Idle, Busy
    <3>2. ~disturbed /\ UNCHANGED <<state, stopped>> /\ \A p \in Proxy : Live(p)' => Live(p)
      BY <2>1 DEF Start, Sync, Live
    <3> QED
      BY <1>04, <3>1, <3>2
  <2>2. CASE StartFails(s)
    <3>1. ~disturbed /\ UNCHANGED <<state, proxy, stopped>>
      BY <2>2 DEF StartFails
    <3>2. \A q \in Proxy : Live(q) => q # act[s].new
      BY <2>2 DEF StartFails, Live, Gone
    <3>3. \A b \in Actor : (Busy(b)' <=> Busy(b) /\ b # s) /\ (b # s => act'[b] = act[b])
      BY <1>0, <1>00, <2>2 DEF StartFails, Idle, Busy
    <3> QED
      BY <3>1, <3>2, <3>3 DEF Undisturbed, RecordInv, Live, Recorded
  <2> QED
    BY <1>2, <2>1, <2>2
<1>3. ASSUME NEW s \in Session, Stop(s)
      PROVE  RecordInv'
  <2>1. ~disturbed /\ \A b \in Actor : ~Busy(b)
    BY <1>00, <1>02, <1>3 DEF Stop, Busy
  <2>2. \A p \in Proxy : ~Live(p)'
    <3>1. \A p \in Proxy : Live(p) => p = state.pid
      BY <2>1 DEF Undisturbed, RecordInv, Recorded
    <3>2. \A p \in Proxy : Live(p)' => Live(p) /\ p # state.pid
      BY <1>01, <1>03, <1>3, Lives DEF Stop, Live, Alive
    <3> QED
      BY <3>1, <3>2
  <2>3. state' = NoState /\ \A b \in Actor : ~Busy(b)'
    BY <1>3, <2>1 DEF Stop, StopRecorded, Busy
  <2> QED
    BY <2>2, <2>3 DEF RecordInv, Recorded
<1>4. ASSUME NEW s \in Session, StartRefused(s)
      PROVE  RecordInv'
  BY <1>0, <1>00, <1>02, <1>4 DEF StartRefused, Idle, Undisturbed, RecordInv, Live, Busy, Recorded
<1>5. ASSUME NEW s \in Session, NEW foreground \in BOOLEAN, Launch(s, foreground)
      PROVE  RecordInv'
  <2> DEFINE p == AnyOf(FreeProxy)
  <2>1. ~disturbed /\ \A b \in Actor : ~Busy(b)
    BY <1>00, <1>02, <1>5 DEF Launch, Busy
  <2>2. p \in Proxy /\ (state # NoState => state.pid # p)
    BY <1>5, FreeOnes DEF Launch, FreeProxy
  <2>3. \A q \in Proxy : Live(q)' => q = p
    <3>1. \A q \in Proxy : Live(q) => is_running /\ q = state.pid
      BY <2>1 DEF Undisturbed, RecordInv, Recorded, is_running, Live, Gone
    <3>2. CASE is_running
      <4>1. proxy' = [Terminated(state.pid) EXCEPT ![p] = Spawned(NoDaemon)]
        BY <1>5, <3>2 DEF Launch
      <4>2. \A q \in Proxy : q # p => proxy'[q] = Terminated(state.pid)[q]
        BY <1>0, <1>03, <3>2, <4>1, Processes
      <4> QED
        BY <1>01, <1>03, <3>1, <3>2, <4>2, Lives DEF Live, Alive
    <3>3. CASE ~is_running
      BY <1>0, <1>5, <3>1, <3>3 DEF Launch, Live
    <3> QED
      BY <3>2, <3>3
  <2>4. act'[s].new = p /\ \A b \in Actor : Busy(b)' <=> b = s
    BY <1>0, <1>00, <1>5, <2>1 DEF Launch, Busy
  <2>5. \A q \in Proxy : Recorded(q)' => q # p
    BY <1>5, <2>2 DEF Launch, StopRecorded, Recorded
  <2>6. ~stopped'
    BY <1>5 DEF Launch
  <2> QED
    BY <1>00, <2>3, <2>4, <2>5, <2>6 DEF RecordInv
<1>6. ASSUME NEW s \in Session, Record(s)
      PROVE  RecordInv'
  <2>1. ~disturbed /\ Busy(s) /\ \A b \in Actor : Busy(b) => b = s
    BY <1>00, <1>02, <1>6 DEF Record, Busy
  <2>2. \A q \in Proxy : Live(q)' => q = act[s].new
    BY <1>00, <1>6, <2>1 DEF Record, Undisturbed, RecordInv, Live
  <2>3. state' # NoState /\ state'.pid = act[s].new
    <3>1. act[s].new \in Proxy
      BY <1>0, <1>00, <2>1, <1>6 DEF Record, HasLocals, Locals
    <3>2. \A d \in Daemon \cup {NoDaemon} : [pid |-> act[s].new, ad |-> d] # NoState
      BY <3>1, ProxyAssumption
    <3> QED
      BY <1>6, <3>2, FreeOnes DEF Record
  <2>4. \A b \in Actor : ~Busy(b)'
    <3>1. \A b \in Actor \ {s} : act'[b] = act[b] \/ act'[b].pc = "sleep"
      BY <1>0, <1>00, <1>6 DEF Record, Idle
    <3>2. act'[s].pc \in {"waiting", "out", "sleep"}
      BY <1>0, <1>00, <1>6 DEF Record, Idle, Locals
    <3> QED
      BY <2>1, <3>1, <3>2 DEF Busy
  <2>5. ~stopped'
    BY <1>00, <1>6, <2>1 DEF Record, Undisturbed, RecordInv
  <2> QED
    BY <2>2, <2>3, <2>4, <2>5 DEF RecordInv, Recorded
<1>7. ASSUME NEW s \in Session, ForegroundEnds(s)
      PROVE  RecordInv'
  <2>1. /\ ~disturbed /\ \A b \in Actor : ~Busy(b)
        /\ state # NoState => state.pid = act[s].new
    BY <1>7 DEF ForegroundEnds
  <2>2. act[s].new \in Proxy
    BY <1>0, <1>00, <1>7 DEF ForegroundEnds, HasLocals, Locals
  <2>3. \A q \in Proxy : ~Live(q)'
    BY <1>7, <2>1, <2>2, Lives
    DEF ForegroundEnds, Undisturbed, RecordInv, Recorded, Live, Alive
  <2>4. state' = NoState /\ \A b \in Actor : ~Busy(b)'
    BY <1>0, <1>00, <1>7, <2>1 DEF ForegroundEnds, StopRecorded, Busy, Idle
  <2> QED
    BY <2>3, <2>4 DEF RecordInv, Recorded
<1>8. ASSUME NEW d \in Daemon, Wake(d) \/ Leave(d)
      PROVE  RecordInv'
  <2>1. \A p \in Proxy : Live(p)' => Live(p)
    <3>1. CASE proxy' = proxy
      BY <3>1 DEF Live
    <3>2. CASE proxy' = Orphaned(d)
      BY <1>00, <3>2, Lives DEF Live, Alive
    <3> QED
      BY <1>8, <3>1, <3>2 DEF Wake, Leave
  <2>2. \A b \in Actor : (Busy(b)' <=> Busy(b)) /\ (Busy(b) => act'[b].new = act[b].new)
    <3>1. act[d].pc = "sleep" /\ \E r : act' = [act EXCEPT ![d] = r] /\ r.pc \in {"apply", "out"}
      <4>1. CASE Wake(d)
        <5>1. [Idle EXCEPT !.pc = "apply", !.want = healthy].pc = "apply"
          BY DEF Idle
        <5> QED
          BY <4>1, <5>1 DEF Wake
      <4>2. CASE Leave(d)
        <5>1. Idle.pc = "out"
          BY DEF Idle
        <5> QED
          BY <4>2, <5>1 DEF Leave
      <4> QED
        BY <1>8, <4>1, <4>2
    <3> QED
      BY <1>0, <1>00, <3>1 DEF Busy
  <2> QED
    <3>1. ~disturbed /\ state' = state /\ stopped' = stopped
      BY <1>8 DEF Wake, Leave
    <3> QED
      BY <1>04, <2>1, <2>2, <3>1
<1>9. ASSUME NEW a \in Actor, Apply(a)
      PROVE  RecordInv'
  <2>1. CASE config' # config /\ is_running
    <3>1. ~disturbed /\ \A b \in Actor : ~Busy(b)
      BY <1>02, <1>9, <2>1 DEF Apply, Busy
    <3>2. proxy' = Terminated(state.pid) /\ state' = state /\ stopped' = stopped
      BY <1>9, <2>1 DEF Apply
    <3>3. \A q \in Proxy : ~Live(q)'
      BY <1>03, <2>1, <3>1, <3>2, Lives DEF Undisturbed, RecordInv, Recorded, Live, Alive
    <3>4. \A b \in Actor : Busy(b)' => b = a
      BY <1>0, <1>9, <2>1, <3>1 DEF Apply, Busy
    <3>5. ~stopped'
      BY <1>03, <2>1, <3>1, <3>2 DEF Undisturbed, RecordInv
    <3> QED
      BY <3>3, <3>4, <3>5 DEF RecordInv
  <2>2. CASE ~(config' # config /\ is_running)
    <3>1. ~disturbed /\ UNCHANGED <<proxy, state, stopped>> /\ act' = [act EXCEPT ![a] = Returned(a)]
      BY <1>02, <1>9, <2>2 DEF Apply
    <3>2. \A b \in Actor : (Busy(b)' <=> Busy(b)) /\ (Busy(b) => act'[b].new = act[b].new)
      BY <1>0, <1>9, <3>1 DEF Apply, Busy, Returned, Idle
    <3>3. \A q \in Proxy : Live(q)' => Live(q)
      BY <3>1 DEF Live
    <3> QED
      BY <1>04, <3>1, <3>2, <3>3
  <2> QED
    BY <2>1, <2>2
<1>10. ASSUME NEW a \in Actor, Respawn(a)
       PROVE  RecordInv'
  <2> DEFINE p == AnyOf(FreeProxy)
  <2>1. ~disturbed /\ Busy(a) /\ (\A b \in Actor : Busy(b) => b = a) /\ act[a].new = NoProxy
    BY <1>0, <1>10 DEF Respawn, Busy, Undisturbed, RecordInv, HasLocals
  <2>2. p \in Proxy /\ (state # NoState => state.pid # p)
    BY <1>10, FreeOnes DEF Respawn, FreeProxy
  <2>3. \A q \in Proxy : ~Live(q)
    BY <2>1, ProxyAssumption DEF Undisturbed, RecordInv
  <2>4. \A q \in Proxy : Live(q)' => q = p
    <3>1. \A q \in Proxy : q # p => proxy'[q] = Reaped(a)[q]
      BY <1>0, <1>10, <2>2, Processes DEF Respawn
    <3> QED
      BY <1>01, <2>3, <3>1, Lives DEF Live, Alive
  <2>5. act'[a].new = p /\ \A b \in Actor : Busy(b)' <=> b = a
    BY <1>0, <1>10, <2>1 DEF Respawn, Busy
  <2>6. UNCHANGED <<state, stopped>> /\ ~stopped
    BY <1>10, <2>1 DEF Respawn, Undisturbed, RecordInv
  <2> QED
    BY <2>2, <2>4, <2>5, <2>6 DEF RecordInv, Recorded
<1>11. ASSUME NEW a \in Actor, Restarted(a)
       PROVE  RecordInv'
  <2>1. ~disturbed /\ Busy(a) /\ \A b \in Actor : Busy(b) => b = a
    BY <1>02, <1>11 DEF Restarted, Busy
  <2>2. act[a].new \in Proxy /\ act[a].ad \in Daemon \cup {NoDaemon}
    BY <1>0, <1>11 DEF Restarted, HasLocals, Locals
  <2>3. \A q \in Proxy : Live(q) => q = act[a].new
    BY <2>1 DEF Undisturbed, RecordInv
  <2>4. \A q \in Proxy : Live(q)' => Recorded(q)'
    <3>1. CASE proxy[act[a].new].life \in {"starting", "up", "exiting"}
      <4>1. state' = [pid |-> act[a].new, ad |-> act[a].ad] /\ proxy' = proxy
        BY <1>0, <1>11, <2>2, <3>1 DEF Restarted
      <4>2. state' # NoState /\ state'.pid = act[a].new
        BY <2>2, <4>1, ProxyAssumption
      <4> QED
        BY <2>3, <4>1, <4>2 DEF Recorded, Live
    <3>2. CASE proxy[act[a].new].life \notin {"starting", "up", "exiting"}
      BY <1>0, <1>11, <2>2, <2>3, <3>2 DEF Restarted, Live, Gone
    <3> QED
      BY <3>1, <3>2
  <2>5. \A b \in Actor : ~Busy(b)'
    BY <1>0, <1>11, <2>1 DEF Restarted, Busy, Returned, Idle
  <2>6. ~stopped'
    BY <1>11, <2>1 DEF Restarted, Undisturbed, RecordInv
  <2> QED
    BY <2>4, <2>5, <2>6 DEF RecordInv
<1>12. ASSUME NEW a \in Actor, Interrupt(a)
       PROVE  RecordInv'
  <2>1. ~disturbed /\ ~Busy(a) /\ UNCHANGED <<state, stopped>>
    BY <1>12 DEF Interrupt
  <2>2. \A p \in Proxy : Live(p)' => Live(p)
    BY <1>12, Lives DEF Interrupt, Live, Alive
  <2>3. \A b \in Actor : (Busy(b)' <=> Busy(b)) /\ (Busy(b) => act'[b].new = act[b].new)
    BY <1>0, <1>12, <2>1 DEF Interrupt, Idle, Busy
  <2> QED
    BY <1>04, <2>1, <2>2, <2>3
<1>13. ASSUME NEW q \in Proxy, Boot(q) \/ Exit(q) \/ Die(q)
       PROVE  RecordInv'
  BY <1>0, <1>00, <1>01, <1>13, Lives
  DEF Boot, Exit, Die, Undisturbed, RecordInv, Live, Alive, Busy, Recorded
<1>14. CASE Change
  BY <1>14 DEF Change, Undisturbed, RecordInv, Live, Busy, Recorded
<1> QED
  BY <1>1, <1>2, <1>3, <1>4, <1>5, <1>6, <1>7, <1>8, <1>9, <1>10, <1>11, <1>12, <1>13, <1>14
  DEF Next, Command, SessionStep, Proceed

(* The invariant holds along every behaviour. *)
LEMMA RecordHolds == Spec => [](TypeOK /\ Undisturbed)
<1>1. Init => Undisturbed
  BY DEF Init, Undisturbed, RecordInv, Live, Busy, Recorded, Idle, Gone
<1> QED
  BY <1>1, RecordStep, TypeCorrect, PTL DEF Spec

(* Undisturbed, every live proxy can be found again.                       *)
THEOREM LiveRecorded == Spec => []LiveIsRecorded
<1>1. Undisturbed => LiveIsRecorded
  BY DEF Undisturbed, RecordInv, LiveIsRecorded, Recorded
<1> QED
  BY <1>1, RecordHolds, PTL

(* Undisturbed, a stop is final.                                           *)
THEOREM StopIsFinal == Spec => []StoppedStaysStopped
<1>1. Undisturbed => StoppedStaysStopped
  BY DEF Undisturbed, RecordInv, StoppedStaysStopped
<1> QED
  BY <1>1, RecordHolds, PTL
=============================================================================
