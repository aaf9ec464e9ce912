----------------------------- MODULE ProxyEngine -----------------------------
(***************************************************************************)
(* The inference proxy: proxy start, stop and sync (api/proxy/_ops.py,     *)
(* proxy/engine.py) and the autodiscover daemon (proxy/autodiscover.py),   *)
(* separate processes that share a state file, a config file and signals.  *)
(*                                                                         *)
(* What a process does between two waits (a discovery sweep, the exit of a *)
(* proxy, the grace a new one is given) is one step.  A process id that    *)
(* nothing refers to any more is used again for the next process.          *)
(***************************************************************************)
EXTENDS FiniteSets

CONSTANTS
    Session,   \* invocations of the proxy commands
    Daemon,    \* autodiscover processes
    Proxy,     \* gateway processes
    Model,     \* models that may be served somewhere
    NoState, NoDaemon, NoProxy

ASSUME ProxyAssumption ==
    /\ Session \cap Daemon = {}
    /\ NoDaemon \notin Daemon
    /\ NoProxy \notin Proxy
    /\ NoState \notin [pid : Proxy, ad : Daemon \cup {NoDaemon}]

Actor == Session \cup Daemon

AnyOf(S) == CHOOSE x \in S : TRUE

VARIABLES
    state,      \* state.yaml: pids of the proxy and its daemon, or NoState
    config,     \* the models of the gateway config file
    healthy,    \* the models some healthy endpoint serves
    proxy,      \* each proxy: its life, the models of the config it read,
                \* and the daemon whose child it is
    act,        \* what each session and daemon is doing
    told,       \* daemons that were sent SIGTERM
    stopped,    \* history: a stop, and no start since
    bypassed,   \* history: a refused start rewrote the config
    disturbed   \* history: see Disturb, ForegroundEnds and Interrupt

vars == <<state, config, healthy, proxy, act, told, stopped, bypassed, disturbed>>

StateFile == [pid : Proxy, ad : Daemon \cup {NoDaemon}]

Gone == [life |-> "gone", serves |-> {}, parent |-> NoDaemon]

Idle == [pc |-> "out", want |-> {}, old |-> NoProxy, ad |-> NoDaemon, new |-> NoProxy]

TypeOK ==
    /\ state \in StateFile \cup {NoState}
    /\ config \subseteq Model
    /\ healthy \subseteq Model
    /\ proxy \in [Proxy -> [life : {"starting", "up", "exiting", "zombie", "gone"},
                           serves : SUBSET Model, parent : Daemon \cup {NoDaemon}]]
    /\ act \in [Actor ->
           [pc : {"out", "start", "attach", "grace", "waiting", "sleep", "apply", "exiting", "regrace"},
            want : SUBSET Model, old : Proxy \cup {NoProxy},
            ad : Daemon \cup {NoDaemon}, new : Proxy \cup {NoProxy}]]
    /\ \A a \in Actor :
          /\ act[a].new # NoProxy <=> act[a].pc \in {"attach", "grace", "waiting", "regrace"}
          /\ act[a].old # NoProxy <=> act[a].pc = "exiting"
    /\ told \subseteq Daemon
    /\ stopped \in BOOLEAN /\ bypassed \in BOOLEAN /\ disturbed \in BOOLEAN

Init ==
    /\ state = NoState
    /\ config = {}
    /\ healthy = {}
    /\ proxy = [p \in Proxy |-> Gone]
    /\ act = [a \in Actor |-> Idle]
    /\ told = {}
    /\ stopped = FALSE /\ bypassed = FALSE /\ disturbed = FALSE

-----------------------------------------------------------------------------
(* os.kill(pid, 0) succeeds on a zombie as well. *)
is_running == state # NoState /\ proxy[state.pid] # Gone

(* SIGTERM to a proxy. *)
Terminated(p) ==
    [proxy EXCEPT ![p] =
        IF @.life \in {"starting", "up"} THEN [@ EXCEPT !.life = "exiting", !.serves = {}] ELSE @]

(* A child of a daemon stays a zombie when it dies until the daemon spawns *)
(* the next one; the children of a process that ends are init's.           *)
Zombie(d) == [Gone EXCEPT !.life = "zombie", !.parent = d]

Dead(p) ==
    [proxy EXCEPT ![p] = IF @.parent = NoDaemon THEN Gone ELSE Zombie(proxy[p].parent)]

Reaped(a) ==
    [p \in Proxy |-> IF proxy[p] = Zombie(a) THEN Gone ELSE proxy[p]]

Orphaned(a) ==
    [p \in Proxy |->
        IF proxy[p].parent = a THEN [Reaped(a)[p] EXCEPT !.parent = NoDaemon] ELSE proxy[p]]

Spawned(d) == [Gone EXCEPT !.life = "starting", !.parent = d]

FreeProxy ==
    {p \in Proxy :
        /\ proxy[p] = Gone
        /\ state = NoState \/ state.pid # p
        /\ \A a \in Actor : p \notin {act[a].old, act[a].new}}

FreeDaemon ==
    {d \in Daemon :
        /\ act[d].pc = "out"
        /\ state = NoState \/ state.ad # d
        /\ \A a \in Actor : act[a].ad # d}

(* a replaces the proxy: it waits for the old one or gives the new one its *)
(* grace.  Whoever changes a file or signals a process meanwhile disturbs, *)
(* as does the end of one who replaces, and a foreground start that ends   *)
(* when its proxy has been replaced.                                       *)
Busy(a) == act[a].pc \in {"attach", "grace", "exiting", "regrace"}

Disturb(a) == disturbed' = (disturbed \/ \E b \in Actor \ {a} : Busy(b))

-----------------------------------------------------------------------------
(* start: a discovery sweep first. *)
Start(s) ==
    /\ act[s].pc = "out"
    /\ act' = [act EXCEPT ![s] = [Idle EXCEPT !.pc = "start", !.want = healthy]]
    /\ UNCHANGED <<state, config, healthy, proxy, told, stopped, bypassed, disturbed>>

(* The config is written before anything is looked at; a proxy that runs   *)
(* refuses the start.                                                      *)
StartRefused(s) ==
    /\ act[s].pc = "start"
    /\ is_running
    /\ config' = act[s].want
    /\ act' = [act EXCEPT ![s] = Idle]
    /\ bypassed' = (bypassed \/ config' # config)
    /\ Disturb(s)
    /\ UNCHANGED <<state, healthy, proxy, told, stopped>>

(* engine.stop: SIGTERM to the daemon and the proxy of the state file,     *)
(* which is removed at once.  A daemon that has ended gets no signal.      *)
StopRecorded ==
    /\ told' = told \cup {d \in {state.ad} \ {NoDaemon} : act[d].pc # "out"}
    /\ state' = NoState

(* Without a proxy, or with --restart after stopping it, a new one is      *)
(* spawned.  _stop_and_wait does not wait: the state file it polls is gone. *)
Launch(s, foreground) ==
    LET p == AnyOf(FreeProxy) IN
    /\ act[s].pc = "start"
    /\ FreeProxy # {}
    /\ config' = act[s].want
    /\ \/ /\ is_running
          /\ StopRecorded
          /\ proxy' = [Terminated(state.pid) EXCEPT ![p] = Spawned(NoDaemon)]
       \/ /\ ~is_running
          /\ proxy' = [proxy EXCEPT ![p] = Spawned(NoDaemon)]
          /\ UNCHANGED <<state, told>>
    /\ act' = [act EXCEPT ![s].pc = IF foreground THEN "attach" ELSE "grace", ![s].new = p,
                          ![s].want = {}]
    /\ stopped' = FALSE /\ bypassed' = FALSE
    /\ Disturb(s)
    /\ UNCHANGED healthy

(* The grace is over.  A background start records nothing of a proxy that  *)
(* died in it.                                                             *)
StartFails(s) ==
    /\ act[s].pc = "grace"
    /\ proxy[act[s].new] = Gone
    /\ act' = [act EXCEPT ![s] = Idle]
    /\ UNCHANGED <<state, config, healthy, proxy, told, stopped, bypassed, disturbed>>

(* Otherwise the proxy is recorded and, with auto_discover, its daemon is  *)
(* spawned and recorded as well.                                           *)
Record(s) ==
    LET d == AnyOf(FreeDaemon)
        after == IF act[s].pc = "attach" THEN [act[s] EXCEPT !.pc = "waiting"] ELSE Idle
    IN
    /\ act[s].pc = "attach" \/ (act[s].pc = "grace" /\ proxy[act[s].new] # Gone)
    /\ \/ /\ FreeDaemon # {}
          /\ state' = [pid |-> act[s].new, ad |-> d]
          /\ act' = [act EXCEPT ![s] = after, ![d] = [Idle EXCEPT !.pc = "sleep"]]
       \/ /\ state' = [pid |-> act[s].new, ad |-> NoDaemon]
          /\ act' = [act EXCEPT ![s] = after]
    /\ Disturb(s)
    /\ UNCHANGED <<config, healthy, proxy, told, stopped, bypassed>>

(* A foreground start ends with its proxy or with Ctrl-C: it stops the     *)
(* daemon of the state file, whichever that is by now, and removes it.     *)
ForegroundEnds(s) ==
    /\ act[s].pc = "waiting"
    /\ proxy' = Terminated(act[s].new)
    /\ \/ state # NoState /\ StopRecorded
       \/ state = NoState /\ UNCHANGED <<state, told>>
    /\ act' = [act EXCEPT ![s] = Idle]
    /\ disturbed' =
           (\/ disturbed
            \/ \E b \in Actor : Busy(b)
            \/ state # NoState /\ state.pid # act[s].new)
    /\ UNCHANGED <<config, healthy, stopped, bypassed>>

Stop(s) ==
    /\ act[s].pc = "out"
    /\ is_running
    /\ StopRecorded
    /\ proxy' = Terminated(state.pid)
    /\ stopped' = TRUE
    /\ Disturb(s)
    /\ UNCHANGED <<config, healthy, act, bypassed>>

-----------------------------------------------------------------------------
(* sync: a discovery sweep and apply_desired_state. *)
Sync(s) ==
    /\ act[s].pc = "out"
    /\ act' = [act EXCEPT ![s] = [Idle EXCEPT !.pc = "apply", !.want = healthy]]
    /\ UNCHANGED <<state, config, healthy, proxy, told, stopped, bypassed, disturbed>>

(* The daemon's sweep, every interval until it is told to end. *)
Wake(d) ==
    /\ act[d].pc = "sleep"
    /\ d \notin told
    /\ act' = [act EXCEPT ![d] = [Idle EXCEPT !.pc = "apply", !.want = healthy]]
    /\ UNCHANGED <<state, config, healthy, proxy, told, stopped, bypassed, disturbed>>

(* Mutant: a daemon that waits for its SIGTERM. *)
LeaveWhenTold(d) ==
    /\ act[d].pc = "sleep"
    /\ d \in told
    /\ act' = [act EXCEPT ![d] = Idle]
    /\ proxy' = Orphaned(d)
    /\ told' = told \ {d}
    /\ UNCHANGED <<state, config, healthy, stopped, bypassed, disturbed>>

(* It ends when told, or after PROXY_GONE_TOLERANCE seconds without a      *)
(* proxy, which no replacement takes.                                      *)
Leave(d) ==
    /\ act[d].pc = "sleep"
    /\ d \in told \/ (~is_running /\ \A a \in Actor : ~Busy(a))
    /\ act' = [act EXCEPT ![d] = Idle]
    /\ proxy' = Orphaned(d)
    /\ told' = told \ {d}
    /\ UNCHANGED <<state, config, healthy, stopped, bypassed, disturbed>>

(* Whoever applied a model list returns to its loop or ends. *)
Returned(a) == IF a \in Daemon THEN [Idle EXCEPT !.pc = "sleep"] ELSE Idle

(* Mutant: the new list waits for somebody to restart the proxy. *)
ApplyLater(a) ==
    /\ act[a].pc = "apply"
    /\ config' = act[a].want
    /\ act' = [act EXCEPT ![a] = Returned(a)]
    /\ \/ config' # config /\ Disturb(a)
       \/ config' = config /\ UNCHANGED disturbed
    /\ UNCHANGED <<state, healthy, proxy, told, stopped, bypassed>>

(* Mutant: a change starts the proxy even where none runs. *)
ApplyAndStart(a) ==
    /\ act[a].pc = "apply"
    /\ config' = act[a].want
    /\ config' # config
    /\ \/ /\ is_running
          /\ proxy' = Terminated(state.pid)
          /\ act' = [act EXCEPT ![a].pc = "exiting", ![a].old = state.pid, ![a].ad = state.ad]
       \/ /\ ~is_running
          /\ FreeProxy # {}
          /\ act' = [act EXCEPT ![a].pc = "exiting", ![a].old = AnyOf(FreeProxy)]
          /\ UNCHANGED proxy
    /\ Disturb(a)
    /\ UNCHANGED <<state, healthy, told, stopped, bypassed>>

(* apply_desired_state: nothing to do, or the config is rewritten and a    *)
(* running proxy is told to exit.                                          *)
Apply(a) ==
    /\ act[a].pc = "apply"
    /\ config' = act[a].want
    /\ \/ /\ config' # config
          /\ is_running
          /\ proxy' = Terminated(state.pid)
          /\ act' = [act EXCEPT ![a].pc = "exiting", ![a].old = state.pid, ![a].ad = state.ad,
                                ![a].want = {}]
          /\ bypassed' = FALSE
       \/ /\ config' = config \/ ~is_running
          /\ act' = [act EXCEPT ![a] = Returned(a)]
          /\ UNCHANGED <<proxy, bypassed>>
    /\ \/ config' # config /\ Disturb(a)
       \/ config' = config /\ UNCHANGED disturbed
    /\ UNCHANGED <<state, healthy, told, stopped>>

(* Mutant: the replacement is taken for a child of whoever asked for it. *)
RespawnOwn(a) ==
    LET p == AnyOf(FreeProxy) IN
    /\ act[a].pc = "exiting"
    /\ proxy[act[a].old].life \in {"zombie", "gone"}
    /\ FreeProxy # {}
    /\ proxy' = [Reaped(a) EXCEPT ![p] = Spawned(a)]
    /\ act' = [act EXCEPT ![a].pc = "regrace", ![a].old = NoProxy, ![a].new = p]
    /\ UNCHANGED <<state, config, healthy, told, stopped, bypassed, disturbed>>

(* _restart_proxy: the old proxy has exited, by itself or by SIGKILL. *)
Respawn(a) ==
    LET p == AnyOf(FreeProxy) IN
    /\ act[a].pc = "exiting"
    /\ proxy[act[a].old].life \in {"zombie", "gone"}
    /\ FreeProxy # {}
    /\ proxy' = [Reaped(a) EXCEPT ![p] = Spawned(IF a \in Daemon THEN a ELSE NoDaemon)]
    /\ act' = [act EXCEPT ![a].pc = "regrace", ![a].old = NoProxy, ![a].new = p]
    /\ UNCHANGED <<state, config, healthy, told, stopped, bypassed, disturbed>>

(* Mutant: the new pid is not saved. *)
RestartedUnsaved(a) ==
    /\ act[a].pc = "regrace"
    /\ act' = [act EXCEPT ![a] = Returned(a)]
    /\ Disturb(a)
    /\ UNCHANGED <<state, config, healthy, proxy, told, stopped, bypassed>>

(* The new proxy survived its grace and is recorded beside the daemon the  *)
(* old one had, or it did not and the state file is removed.               *)
Restarted(a) ==
    LET p == act[a].new
        lives == proxy[p].life \in {"starting", "up", "exiting"}
    IN
    /\ act[a].pc = "regrace"
    /\ state' = IF lives THEN [pid |-> p, ad |-> act[a].ad] ELSE NoState
    /\ proxy' = [proxy EXCEPT ![p] = IF lives THEN @ ELSE Gone]
    /\ act' = [act EXCEPT ![a] = Returned(a)]
    /\ Disturb(a)
    /\ UNCHANGED <<config, healthy, told, stopped, bypassed>>

-----------------------------------------------------------------------------
(* The gateway reads its config and binds the port.  It dies if another    *)
(* one holds the port, and one that exits may still do so.                 *)
Boot(p) ==
    LET others == {proxy[q].life : q \in Proxy \ {p}} IN
    /\ proxy[p].life = "starting"
    /\ \/ /\ "up" \notin others
          /\ proxy' = [proxy EXCEPT ![p].life = "up", ![p].serves = config]
       \/ /\ others \cap {"up", "exiting"} # {}
          /\ proxy' = Dead(p)
    /\ UNCHANGED <<state, config, healthy, act, told, stopped, bypassed, disturbed>>

Exit(p) ==
    /\ proxy[p].life = "exiting"
    /\ proxy' = Dead(p)
    /\ UNCHANGED <<state, config, healthy, act, told, stopped, bypassed, disturbed>>

Die(p) ==
    /\ proxy[p].life \in {"starting", "up"}
    /\ proxy' = Dead(p)
    /\ UNCHANGED <<state, config, healthy, act, told, stopped, bypassed, disturbed>>

(* Ctrl-C of a command that waits, or the end of any process by SIGKILL. *)
Interrupt(a) ==
    /\ act[a].pc # "out"
    /\ act' = [act EXCEPT ![a] = Idle]
    /\ proxy' = Orphaned(a)
    /\ told' = told \ {a}
    /\ disturbed' = (disturbed \/ Busy(a))
    /\ UNCHANGED <<state, config, healthy, stopped, bypassed>>

(* Inference servers come and go. *)
Change ==
    /\ healthy' \in SUBSET Model \ {healthy}
    /\ UNCHANGED <<state, config, proxy, act, told, stopped, bypassed, disturbed>>

Command(s) == Start(s) \/ Stop(s) \/ Sync(s)

Proceed(a) == Apply(a) \/ Respawn(a) \/ Restarted(a)

SessionStep(s) ==
    \/ StartRefused(s) \/ (\E foreground \in BOOLEAN : Launch(s, foreground))
    \/ StartFails(s) \/ Record(s)

Next ==
    \/ \E s \in Session : Command(s) \/ SessionStep(s) \/ ForegroundEnds(s)
    \/ \E d \in Daemon : Wake(d) \/ Leave(d)
    \/ \E a \in Actor : Proceed(a) \/ Interrupt(a)
    \/ \E p \in Proxy : Boot(p) \/ Exit(p) \/ Die(p)
    \/ Change

Spec == Init /\ [][Next]_vars

(* Every process runs on, wakes at its interval and loses a proxy it waits *)
(* for to SIGKILL at the latest; a foreground start whose proxy is gone    *)
(* notices.  A daemon counts the seconds without a proxy across its        *)
(* sweeps, so that they do not keep it from leaving.                       *)
Fairness ==
    /\ \A s \in Session :
        WF_vars(SessionStep(s)) /\ WF_vars(ForegroundEnds(s) /\ proxy[act[s].new] = Gone)
    /\ \A d \in Daemon : WF_vars(Wake(d)) /\ SF_vars(Leave(d))
    /\ \A a \in Actor : WF_vars(Proceed(a))
    /\ \A p \in Proxy : WF_vars(Boot(p)) /\ WF_vars(Exit(p))

-----------------------------------------------------------------------------
Live(p) == proxy[p].life \in {"starting", "up"}

(* While nobody interferes with a replacement, every proxy that lives can  *)
(* be found again: it is the one of the state file, or the one somebody is *)
(* about to record.                                                        *)
LiveIsRecorded ==
    ~disturbed =>
        \A p \in Proxy : Live(p) =>
            \/ state # NoState /\ state.pid = p
            \/ \E a \in Actor : Busy(a) /\ act[a].new = p

(* "Stop the running proxy and its auto-discover daemon": nothing brings   *)
(* a proxy back after a stop that came between replacements, not the       *)
(* daemon's last sweep nor a sync that was under way.                      *)
StoppedStaysStopped ==
    ~disturbed /\ stopped => state = NoState /\ \A p \in Proxy : ~Live(p)

(* A daemon does not outlive the state file, whatever happened. *)
DaemonsEnd == <>[](state = NoState) => <>[](\A d \in Daemon : act[d].pc = "out")

(* "Reconciles the proxy's model list": while a daemon follows the         *)
(* recorded proxy, it serves in the end what is healthy.                   *)
Followed(d) ==
    /\ ~disturbed /\ ~bypassed
    /\ state # NoState /\ proxy[state.pid].life # "zombie"
    /\ act[d].pc # "out" /\ d \notin told

CatchesUp ==
    \A d \in Daemon :
        <>[]Followed(d) =>
            <>[](state # NoState /\ proxy[state.pid].life = "up" /\ proxy[state.pid].serves = healthy)
=============================================================================
