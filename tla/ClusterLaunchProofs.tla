------------------------ MODULE ClusterLaunchProofs ------------------------
(***************************************************************************)
(* Theorems about the start of multi-node deployments, for any number of   *)
(* launches, hosts, ports, attempts and faults.                            *)
(***************************************************************************)
EXTENDS ClusterLaunch, WellFoundedInduction, TLAPS

-----------------------------------------------------------------------------
(* The head is a rank, and the others are the workers. *)
LEMMA Ranks == 0 \in Rank /\ Worker \subseteq Rank /\ Rank \ {0} = Worker
BY LaunchAssumption DEF Rank, Worker

(* First is the least of the ports it is given. *)
LEMMA FirstIsIn ==
  ASSUME NEW P \in SUBSET Port, P # {}
  PROVE  First(P) \in P
<1> DEFINE Less == {pair \in Nat \X Nat : pair[1] < pair[2]}
<1>1. IsWellFoundedOn(Less, Nat)
  BY NatLessThanWellFounded DEF OpToRel
<1>2. P \subseteq Nat
  BY LaunchAssumption
<1>3. PICK p \in P : \A q \in P : <<q, p>> \notin Less
  BY <1>1, <1>2, WFMin
<1>4. \A q \in P : p <= q
  <2> SUFFICES ASSUME NEW q \in P
               PROVE  p <= q
    OBVIOUS
  <2>1. p \in Nat /\ q \in Nat
    BY <1>2
  <2>2. q < p => <<q, p>> \in Less
    BY <2>1
  <2> QED
    BY <1>3, <2>1, <2>2
<1> QED
  BY <1>4 DEF First

(* What SetBoxes does to the containers and to who listens. *)
LEMMA SetBoxesEffect ==
  ASSUME TypeOK, NEW l \in Launch, NEW ranks \in SUBSET Rank, NEW state \in Boxes,
         SetBoxes(l, ranks, state)
  PROVE  /\ box' \in [Launch -> [Rank -> Boxes]]
         /\ \A k \in Launch \ {l} : box'[k] = box[k]
         /\ \A r \in Rank : box'[l][r] = IF r \in ranks THEN state ELSE box[l][r]
         /\ listener' \in [Port -> Launch \cup {Free, Other}]
         /\ \A p \in Port : listener'[p] = listener[p]
               \/ (listener[p] = l /\ listener'[p] = Free /\ 0 \in ranks /\ ~Binding(l, state))
         /\ 0 \in ranks /\ ~Binding(l, state) => \A p \in Port : listener'[p] # l
<1>1. box' \in [Launch -> [Rank -> Boxes]]
  BY DEF SetBoxes, TypeOK
<1>2. /\ \A k \in Launch \ {l} : box'[k] = box[k]
      /\ \A r \in Rank : box'[l][r] = IF r \in ranks THEN state ELSE box[l][r]
  BY DEF SetBoxes, TypeOK
<1>3. listener' \in [Port -> Launch \cup {Free, Other}]
  BY DEF SetBoxes, TypeOK
<1>4. \A p \in Port : listener'[p] = IF listener[p] = l /\ 0 \in ranks /\ ~Binding(l, state)
                                     THEN Free ELSE listener[p]
  BY DEF SetBoxes
<1>5. Free # l
  BY LaunchAssumption
<1> QED
  BY <1>1, <1>2, <1>3, <1>4, <1>5

(* What SetBoxes does to one container. *)
LEMMA OneBox ==
  ASSUME TypeOK, NEW l \in Launch, NEW r \in Rank, NEW state \in Boxes,
         SetBoxes(l, {r}, state)
  PROVE  /\ box'[l][r] = state
         /\ \A q \in Rank \ {r} : box'[l][q] = box[l][q]
<1>1. \A q \in Rank : box'[l][q] = IF q \in {r} THEN state ELSE box[l][q]
  BY DEF SetBoxes, TypeOK
<1> QED
  BY <1>1

(* The states a step gives a container. *)
LEMMA States ==
  /\ {"none", "up", "serving", "lost", "stray"} \subseteq Boxes
  /\ \A l \in Launch : Gone(l) \in Boxes /\ Gone(l) \notin Live
BY DEF Boxes, Live, Gone

(* Where a step leads and where a failure of it does.                      *)
LEMMA Ways ==
  ASSUME NEW l \in Launch
  PROVE  /\ pc[l] = "run" => Following(l) = IF l \in Ray THEN "wait" ELSE "hooks"
         /\ pc[l] = "hooks" => Following(l) = "exec"
         /\ pc[l] = "exec" => Following(l) = IF l \in Ray THEN "ok" ELSE "wait"
         /\ pc[l] = "wait" => Following(l) = "workers"
         /\ pc[l] = "workers" => Following(l) = IF l \in Ray THEN "hooks" ELSE "ok"
         /\ pc[l] = "run" => OnFailure(l) = IF l \in Ray THEN "cleanHead" ELSE "failed"
         /\ pc[l] = "hooks" => OnFailure(l) = "failed"
         /\ pc[l] = "exec" => OnFailure(l) = "cleanAll"
         /\ pc[l] = "wait" => OnFailure(l) = IF l \in Ray THEN "cleanHead" ELSE "cleanAll"
         /\ pc[l] = "workers" => OnFailure(l) = "cleanAll"
<1>1. /\ pc[l] = "run" => Following(l) = IF l \in Ray THEN "wait" ELSE "hooks"
      /\ pc[l] = "hooks" => Following(l) = "exec"
      /\ pc[l] = "exec" => Following(l) = IF l \in Ray THEN "ok" ELSE "wait"
      /\ pc[l] = "wait" => Following(l) = "workers"
      /\ pc[l] = "workers" => Following(l) = IF l \in Ray THEN "hooks" ELSE "ok"
  BY DEF Following
<1>2. /\ pc[l] = "run" => OnFailure(l) = IF l \in Ray THEN "cleanHead" ELSE "failed"
      /\ pc[l] = "hooks" => OnFailure(l) = "failed"
      /\ pc[l] = "exec" => OnFailure(l) = "cleanAll"
      /\ pc[l] = "wait" => OnFailure(l) = IF l \in Ray THEN "cleanHead" ELSE "cleanAll"
      /\ pc[l] = "workers" => OnFailure(l) = "cleanAll"
  BY DEF OnFailure
<1> QED
  BY <1>1, <1>2

LEMMA FaultCounts ==
  ASSUME TypeOK, Fault \/ UNCHANGED faults
  PROVE  faults' \in 0 .. MaxFaults
BY LaunchAssumption DEF Fault, TypeOK

(* A launch that goes on or changes one of its fields leaves the others    *)
(* alone.                                                                  *)
LEMMA GotoEffect ==
  ASSUME TypeOK, NEW l \in Launch, NEW place \in Places, Goto(l, place)
  PROVE  /\ pc' \in [Launch -> Places]
         /\ pc'[l] = place /\ \A k \in Launch \ {l} : pc'[k] = pc[k]
BY DEF Goto, TypeOK

(* The calls of a phase that is carried out on a host.                     *)
LEMMA RunCarriedEffect ==
  ASSUME TypeOK, NEW l \in Launch, NEW r \in Rank, RunCarried(l, r)
  PROVE  /\ box' \in [Launch -> [Rank -> Boxes]]
         /\ listener' \in [Port -> Launch \cup {Free, Other}]
         /\ fallen' \in [Launch -> SUBSET Rank]
         /\ faults' \in 0 .. MaxFaults
         /\ \A k \in Launch \ {l} : box'[k] = box[k] /\ fallen'[k] = fallen[k]
<1>1. PICK state \in {"up", "none"} : SetBoxes(l, {r}, state)
  BY DEF RunCarried
<1>2. /\ fallen' \in [Launch -> SUBSET Rank]
      /\ \A k \in Launch \ {l} : fallen'[k] = fallen[k]
      /\ faults' \in 0 .. MaxFaults
  <2>1. faults' \in 0 .. MaxFaults
    BY FaultCounts DEF RunCarried
  <2>2. fallen \in [Launch -> SUBSET Rank]
    BY DEF TypeOK
  <2>3. fallen' = [fallen EXCEPT ![l] = @ \ {r}] \/ UNCHANGED fallen
    BY DEF RunCarried
  <2> QED
    BY <2>1, <2>2, <2>3
<1>3. state \in Boxes /\ {r} \in SUBSET Rank
  BY States
<1>4. /\ box' \in [Launch -> [Rank -> Boxes]]
      /\ listener' \in [Port -> Launch \cup {Free, Other}]
      /\ \A k \in Launch \ {l} : box'[k] = box[k]
  BY <1>1, <1>3, SetBoxesEffect
<1> QED
  BY <1>2, <1>4

LEMMA ExecCarriedEffect ==
  ASSUME TypeOK, NEW l \in Launch, NEW r \in Rank, ExecCarried(l, r)
  PROVE  /\ box' \in [Launch -> [Rank -> Boxes]]
         /\ listener' \in [Port -> Launch \cup {Free, Other}]
         /\ \A k \in Launch \ {l} : box'[k] = box[k]
         /\ \A q \in Rank : box'[l][q] = box[l][q] \/ (box[l][q] = "up" /\ box'[l][q] = "serving")
<1>1. CASE box[l][r] = "up" /\ SetBoxes(l, {r}, "serving")
  <2>1. PICK state \in {"serving"} : SetBoxes(l, {r}, state)
    BY <1>1
  <2>2. state \in Boxes /\ {r} \in SUBSET Rank
    BY States
  <2>3. /\ box' \in [Launch -> [Rank -> Boxes]]
        /\ listener' \in [Port -> Launch \cup {Free, Other}]
        /\ \A k \in Launch \ {l} : box'[k] = box[k]
        /\ \A q \in Rank : box'[l][q] = IF q \in {r} THEN state ELSE box[l][q]
    BY <2>1, <2>2, SetBoxesEffect
  <2> QED
    BY <1>1, <2>1, <2>3
<1>2. CASE UNCHANGED <<box, listener>>
  BY <1>2 DEF TypeOK
<1> QED
  BY <1>1, <1>2 DEF ExecCarried

-----------------------------------------------------------------------------
(* Each step of a launch keeps the types.                                  *)
LEMMA StepTypes ==
  ASSUME TypeOK, NEW l \in Launch, Ported(l), Step(l)
  PROVE  TypeOK'
<1> USE DEF TypeOK
<1>0. /\ "port" \in Places /\ "failed" \in Places /\ "run" \in Places /\ "workers" \in Places
      /\ Cleaning \subseteq Places /\ Ended \subseteq Places /\ {"hooks", "exec", "wait"} \subseteq Places
  BY DEF Places, Cleaning, Ended
<1>1. ASSUME pc[l] \in {"run", "hooks", "exec", "wait", "workers"}
      PROVE  Following(l) \in Places /\ OnFailure(l) \in Places
  <2>1. "cleanHead" \in Places /\ "cleanAll" \in Places /\ "ok" \in Places
    BY DEF Places, Cleaning, Ended
  <2> QED
    BY <1>0, <1>1, <2>1, Ways
<1>2. CASE CleanupExisting(l)
  <2>1. PICK missed \in SUBSET Rank : SetBoxes(l, Rank \ missed, "none")
    BY <1>2 DEF CleanupExisting
  <2>2. /\ box' \in [Launch -> [Rank -> Boxes]]
        /\ listener' \in [Port -> Launch \cup {Free, Other}]
    BY <2>1, States, SetBoxesEffect
  <2>3. faults' \in 0 .. MaxFaults
    BY <1>2, FaultCounts DEF CleanupExisting
  <2>4. pc' \in [Launch -> Places]
    BY <1>0, <1>2, GotoEffect DEF CleanupExisting
  <2> QED
    BY <1>2, <2>2, <2>3, <2>4 DEF CleanupExisting
<1>3. CASE detect_head_ip_fails(l)
  <2>1. faults' \in 0 .. MaxFaults /\ pc' \in [Launch -> Places]
    BY <1>0, <1>3, FaultCounts, GotoEffect DEF detect_head_ip_fails
  <2> QED
    BY <1>3, <2>1 DEF detect_head_ip_fails
<1>4. CASE find_port(l)
  <2>1. faults' \in 0 .. MaxFaults /\ pc' \in [Launch -> Places]
    BY <1>0, <1>4, FaultCounts, GotoEffect DEF find_port
  <2>2. todo' \in [Launch -> SUBSET Rank]
    BY <1>4, Ranks DEF find_port
  <2>3. port' \in [Launch -> Port \cup {0}] /\ raced' \in [Launch -> BOOLEAN]
    BY <1>4 DEF find_port
  <2> QED
    BY <1>4, <2>1, <2>2, <2>3 DEF find_port
<1>5. ASSUME NEW r \in Rank, Answer(l, r)
      PROVE  TypeOK'
  <2>1. todo' \in [Launch -> SUBSET Rank]
    BY <1>5 DEF Answer
  <2>2. CASE RunCarried(l, r)
    BY <1>5, <2>1, <2>2, RunCarriedEffect DEF Answer
  <2>3. CASE ExecCarried(l, r) /\ UNCHANGED <<fallen, faults>>
    BY <1>5, <2>1, <2>3, ExecCarriedEffect DEF Answer
  <2> QED
    BY <1>5, <2>2, <2>3 DEF Answer
<1>6. ASSUME NEW r \in Rank, CallFails(l, r)
      PROVE  TypeOK'
  <2>1. /\ todo' \in [Launch -> SUBSET Rank] /\ bad' \in [Launch -> BOOLEAN]
        /\ lateRun' \in [Launch -> SUBSET Rank] /\ lateExec' \in [Launch -> SUBSET Rank]
    BY <1>6 DEF CallFails
  <2>2. faults' \in 0 .. MaxFaults
    BY <1>6, FaultCounts DEF CallFails
  <2> QED
    BY <1>6, <2>1, <2>2 DEF CallFails
<1>7. CASE PhaseEnds(l)
  <2>1. pc' \in [Launch -> Places]
    BY <1>1, <1>7, GotoEffect DEF PhaseEnds
  <2> QED
    BY <1>7, <2>1 DEF PhaseEnds
<1>8. CASE run_pre_serve_hooks(l)
  <2>1. pc' \in [Launch -> Places] /\ faults' \in 0 .. MaxFaults
    BY <1>1, <1>8, GotoEffect, FaultCounts DEF run_pre_serve_hooks
  <2> QED
    BY <1>8, <2>1 DEF run_pre_serve_hooks
<1>9. CASE ExecHead(l)
  <2>1. pc' \in [Launch -> Places] /\ faults' \in 0 .. MaxFaults
    BY <1>1, <1>9, GotoEffect, FaultCounts DEF ExecHead
  <2>2. /\ box' \in [Launch -> [Rank -> Boxes]]
        /\ listener' \in [Port -> Launch \cup {Free, Other}]
    BY <1>9, Ranks, ExecCarriedEffect DEF ExecHead
  <2>3. lateExec' \in [Launch -> SUBSET Rank]
    <3>1. lateExec' \in {lateExec, [lateExec EXCEPT ![l] = @ \cup {0}]}
      BY <1>9 DEF ExecHead
    <3>2. lateExec \in [Launch -> SUBSET Rank] /\ lateExec[l] \cup {0} \in SUBSET Rank
      BY Ranks
    <3> QED
      BY <3>1, <3>2
  <2> QED
    BY <1>9, <2>1, <2>2, <2>3 DEF ExecHead
<1>10. CASE wait_for_port(l)
  <2>1. pc' \in [Launch -> Places] /\ faults' \in 0 .. MaxFaults
    BY <1>1, <1>10, GotoEffect, FaultCounts DEF wait_for_port
  <2>2. port[l] \in Port /\ tries[l] \in 0 .. Tries /\ tries[l] < Tries
    BY <1>10 DEF wait_for_port, Ported, Working, Cleaning, Ended
  <2>3. tries' \in [Launch -> 0 .. Tries]
    <3>1. tries' \in {tries, [tries EXCEPT ![l] = @ + 1]}
      BY <1>10 DEF wait_for_port
    <3>2. tries \in [Launch -> 0 .. Tries] /\ tries[l] + 1 \in 0 .. Tries
      BY <2>2, LaunchAssumption
    <3> QED
      BY <3>1, <3>2
  <2>4. joined' \in [Launch -> Launch \cup {Free, Other}] /\ todo' \in [Launch -> SUBSET Rank]
    BY <1>10, <2>2, Ranks DEF wait_for_port
  <2> QED
    BY <1>10, <2>1, <2>3, <2>4 DEF wait_for_port
<1>11. CASE cleanup_after_failure(l)
  <2>1. pc' \in [Launch -> Places] /\ faults' \in 0 .. MaxFaults
    BY <1>0, <1>11, GotoEffect, FaultCounts DEF cleanup_after_failure
  <2>2. /\ box' \in [Launch -> [Rank -> Boxes]]
        /\ listener' \in [Port -> Launch \cup {Free, Other}]
        /\ cleaned' \in [Launch -> BOOLEAN]
    <3>1. CASE l \in noRm
      BY <1>11, <3>1 DEF cleanup_after_failure
    <3>2. CASE l \notin noRm
      <4>1. PICK missed \in SUBSET Targets(l) :
                /\ SetBoxes(l, Targets(l) \ missed, "none")
                /\ cleaned' = [cleaned EXCEPT ![l] = missed = {}]
        BY <1>11, <3>2 DEF cleanup_after_failure
      <4>2. Targets(l) \in SUBSET Rank
        BY Ranks DEF Targets
      <4> QED
        BY <4>1, <4>2, States, SetBoxesEffect
    <3> QED
      BY <3>1, <3>2
  <2> QED
    BY <1>11, <2>1, <2>2 DEF cleanup_after_failure
<1>12. CASE Interrupt(l)
  <2>1. pc' \in [Launch -> Places] /\ faults' \in 0 .. MaxFaults
    BY <1>0, <1>12, GotoEffect, FaultCounts DEF Interrupt
  <2>2. lateRun' \in [Launch -> SUBSET Rank] /\ todo' \in [Launch -> SUBSET Rank]
    BY <1>12 DEF Interrupt
  <2>3. lateExec' \in [Launch -> SUBSET Rank]
    <3> DEFINE more == CASE pc[l] = "exec" -> {0}
                         [] pc[l] = "workers" /\ l \notin Ray -> todo[l]
                         [] OTHER -> {}
    <3>1. more \in SUBSET Rank
      BY Ranks
    <3>2. lateExec' = [lateExec EXCEPT ![l] = @ \cup more]
      BY <1>12 DEF Interrupt
    <3> HIDE DEF more
    <3> QED
      BY <3>1, <3>2
  <2> QED
    BY <1>12, <2>1, <2>2, <2>3 DEF Interrupt
<1>13. CASE Bind(l)
  <2>1. port[l] \in Port
    BY <1>13 DEF Bind
  <2>2. /\ box' \in [Launch -> [Rank -> Boxes]]
        /\ listener' \in [Port -> Launch \cup {Free, Other}]
        /\ fallen' \in [Launch -> SUBSET Rank]
    <3>1. CASE listener[port[l]] = Free
      BY <1>13, <2>1, <3>1 DEF Bind
    <3>2. CASE listener[port[l]] # Free
      <4>1. PICK state \in {Gone(l), "lost"} : SetBoxes(l, {0}, state)
        BY <1>13, <3>2 DEF Bind
      <4>2. state \in Boxes /\ {0} \in SUBSET Rank
        BY Ranks, States
      <4>3. fallen' \in [Launch -> SUBSET Rank]
        <5>1. fallen' \in {fallen, [fallen EXCEPT ![l] = @ \cup {0}]}
          BY <1>13, <3>2 DEF Bind
        <5>2. fallen \in [Launch -> SUBSET Rank] /\ fallen[l] \cup {0} \in SUBSET Rank
          BY Ranks
        <5> QED
          BY <5>1, <5>2
      <4> QED
        BY <4>1, <4>2, <4>3, SetBoxesEffect
    <3> QED
      BY <3>1, <3>2
  <2> QED
    BY <1>13, <2>2 DEF Bind
<1>14. ASSUME NEW r \in Rank, NEW state \in Boxes, SetBoxes(l, {r}, state)
       PROVE  /\ box' \in [Launch -> [Rank -> Boxes]]
              /\ listener' \in [Port -> Launch \cup {Free, Other}]
  BY <1>14, SetBoxesEffect
<1>15. ASSUME NEW r \in Rank, ServeEnds(l, r)
       PROVE  TypeOK'
  BY <1>14, <1>15, States, FaultCounts DEF ServeEnds
<1>16. ASSUME NEW r \in Rank, ContainerEnds(l, r)
       PROVE  TypeOK'
  <2>1. fallen' \in [Launch -> SUBSET Rank]
    BY <1>16 DEF ContainerEnds
  <2> QED
    BY <1>14, <1>16, <2>1, States, FaultCounts DEF ContainerEnds
<1>17. ASSUME NEW r \in Rank, LateRun(l, r)
       PROVE  TypeOK'
  <2>1. fallen' \in [Launch -> SUBSET Rank] /\ lateRun' \in [Launch -> SUBSET Rank]
    BY <1>17 DEF LateRun
  <2>2. PICK state \in {"stray", "up"} : SetBoxes(l, {r}, state)
    BY <1>17 DEF LateRun
  <2> QED
    BY <1>14, <1>17, <2>1, <2>2, States DEF LateRun
<1>18. ASSUME NEW r \in Rank, LateExec(l, r)
       PROVE  TypeOK'
  <2>1. lateExec' \in [Launch -> SUBSET Rank]
    BY <1>18 DEF LateExec
  <2> QED
    BY <1>18, <2>1, ExecCarriedEffect DEF LateExec
<1> QED
  BY <1>2, <1>3, <1>4, <1>5, <1>6, <1>7, <1>8, <1>9, <1>10, <1>11, <1>12, <1>13, <1>15, <1>16,
     <1>17, <1>18 DEF Step, Control

LEMMA OtherTypes ==
  ASSUME TypeOK, NEW p \in Port, OtherListens(p)
  PROVE  TypeOK'
<1>1. faults' \in 0 .. MaxFaults
  BY FaultCounts DEF OtherListens
<1>2. listener' \in [Port -> Launch \cup {Free, Other}] /\ raced' \in [Launch -> BOOLEAN]
  BY DEF OtherListens, TypeOK
<1> QED
  BY <1>1, <1>2 DEF OtherListens, TypeOK

(* A step of one launch changes nothing of another launch but who listens  *)
(* and who has raced.                                                      *)
Same(k) ==
  /\ pc'[k] = pc[k] /\ box'[k] = box[k] /\ todo'[k] = todo[k] /\ bad'[k] = bad[k]
  /\ port'[k] = port[k] /\ tries'[k] = tries[k]
  /\ lateRun'[k] = lateRun[k] /\ lateExec'[k] = lateExec[k]
  /\ fallen'[k] = fallen[k] /\ joined'[k] = joined[k] /\ cleaned'[k] = cleaned[k]

LEMMA OthersStay ==
  ASSUME TypeOK, NEW l \in Launch, NEW k \in Launch \ {l}, Step(l)
  PROVE  Same(k) /\ noRm' = noRm
<1> USE DEF TypeOK
<1>1. ASSUME NEW ranks \in SUBSET Rank, NEW state, SetBoxes(l, ranks, state)
      PROVE  box'[k] = box[k]
  BY <1>1 DEF SetBoxes
<1>2. ASSUME NEW place, Goto(l, place)
      PROVE  pc'[k] = pc[k]
  BY <1>2 DEF Goto
<1>3. ASSUME NEW r \in Rank, ExecCarried(l, r)
      PROVE  box'[k] = box[k]
  BY <1>3, ExecCarriedEffect
<1>4. CASE CleanupExisting(l)
  <2>1. box'[k] = box[k] /\ pc'[k] = pc[k]
    BY <1>1, <1>2, <1>4 DEF CleanupExisting
  <2> QED
    BY <1>4, <2>1 DEF CleanupExisting, Same
<1>5. CASE detect_head_ip_fails(l)
  BY <1>2, <1>5 DEF detect_head_ip_fails, Same
<1>6. CASE find_port(l)
  <2>1. todo'[k] = todo[k] /\ port'[k] = port[k] /\ pc'[k] = pc[k]
    BY <1>2, <1>6 DEF find_port
  <2> QED
    BY <1>6, <2>1 DEF find_port, Same
<1>7. ASSUME NEW r \in Rank, Answer(l, r)
      PROVE  Same(k) /\ noRm' = noRm
  <2>1. box'[k] = box[k] /\ fallen'[k] = fallen[k]
    <3>1. CASE Runs(l)
      BY <1>7, <3>1, RunCarriedEffect DEF Answer
    <3>2. CASE ~Runs(l)
      BY <1>3, <1>7, <3>2 DEF Answer
    <3> QED
      BY <3>1, <3>2
  <2> QED
    BY <1>7, <2>1 DEF Answer, Same
<1>8. ASSUME NEW r \in Rank, CallFails(l, r)
      PROVE  Same(k) /\ noRm' = noRm
  <2>1. lateRun'[k] = lateRun[k] /\ lateExec'[k] = lateExec[k]
    BY <1>8 DEF CallFails
  <2>2. todo'[k] = todo[k] /\ bad'[k] = bad[k]
    BY <1>8 DEF CallFails
  <2> QED
    BY <1>8, <2>1, <2>2 DEF CallFails, Same
<1>9. CASE PhaseEnds(l)
  BY <1>2, <1>9 DEF PhaseEnds, Same
<1>10. CASE run_pre_serve_hooks(l)
  BY <1>2, <1>10 DEF run_pre_serve_hooks, Same
<1>11. CASE ExecHead(l)
  <2>1. box'[k] = box[k] /\ pc'[k] = pc[k]
    BY <1>2, <1>3, <1>11, Ranks DEF ExecHead
  <2>2. lateExec'[k] = lateExec[k]
    <3>1. lateExec' \in {lateExec, [lateExec EXCEPT ![l] = @ \cup {0}]}
      BY <1>11 DEF ExecHead
    <3> QED
      BY <3>1
  <2> QED
    BY <1>11, <2>1, <2>2 DEF ExecHead, Same
<1>12. CASE wait_for_port(l)
  <2>1. pc'[k] = pc[k] /\ todo'[k] = todo[k] /\ tries'[k] = tries[k] /\ joined'[k] = joined[k]
    BY <1>2, <1>12 DEF wait_for_port
  <2> QED
    BY <1>12, <2>1 DEF wait_for_port, Same
<1>13. CASE cleanup_after_failure(l)
  <2>1. box'[k] = box[k] /\ cleaned'[k] = cleaned[k]
    <3>1. CASE l \in noRm
      BY <1>13, <3>1 DEF cleanup_after_failure
    <3>2. CASE l \notin noRm
      <4>1. PICK missed \in SUBSET Targets(l) :
                /\ SetBoxes(l, Targets(l) \ missed, "none")
                /\ cleaned' = [cleaned EXCEPT ![l] = missed = {}]
        BY <1>13, <3>2 DEF cleanup_after_failure
      <4>2. Targets(l) \in SUBSET Rank
        BY Ranks DEF Targets
      <4> QED
        BY <1>1, <4>1, <4>2
    <3> QED
      BY <3>1, <3>2
  <2>2. pc'[k] = pc[k]
    BY <1>2, <1>13 DEF cleanup_after_failure
  <2> QED
    BY <1>13, <2>1, <2>2 DEF cleanup_after_failure, Same
<1>14. CASE Interrupt(l)
  <2>1. pc'[k] = pc[k] /\ todo'[k] = todo[k] /\ lateRun'[k] = lateRun[k]
    BY <1>2, <1>14 DEF Interrupt
  <2>2. lateExec'[k] = lateExec[k]
    BY <1>14 DEF Interrupt
  <2> QED
    BY <1>14, <2>1, <2>2 DEF Interrupt, Same
<1>15. CASE Bind(l)
  <2>1. box'[k] = box[k] /\ fallen'[k] = fallen[k]
    <3>1. CASE listener[port[l]] = Free
      BY <1>15, <3>1 DEF Bind
    <3>2. CASE listener[port[l]] # Free
      <4>1. box'[k] = box[k]
        BY <1>1, <1>15, <3>2, Ranks DEF Bind
      <4>2. fallen' \in {fallen, [fallen EXCEPT ![l] = @ \cup {0}]}
        BY <1>15, <3>2 DEF Bind
      <4> QED
        BY <4>1, <4>2
    <3> QED
      BY <3>1, <3>2
  <2> QED
    BY <1>15, <2>1 DEF Bind, Same
<1>16. ASSUME NEW r \in Rank, ServeEnds(l, r)
       PROVE  Same(k) /\ noRm' = noRm
  <2>1. box'[k] = box[k]
    BY <1>1, <1>16 DEF ServeEnds
  <2> QED
    BY <1>16, <2>1 DEF ServeEnds, Same
<1>17. ASSUME NEW r \in Rank, ContainerEnds(l, r)
       PROVE  Same(k) /\ noRm' = noRm
  <2>1. box'[k] = box[k] /\ fallen'[k] = fallen[k]
    BY <1>1, <1>17 DEF ContainerEnds
  <2> QED
    BY <1>17, <2>1 DEF ContainerEnds, Same
<1>18. ASSUME NEW r \in Rank, LateRun(l, r)
       PROVE  Same(k) /\ noRm' = noRm
  <2>1. box'[k] = box[k] /\ fallen'[k] = fallen[k] /\ lateRun'[k] = lateRun[k]
    BY <1>1, <1>18 DEF LateRun
  <2> QED
    BY <1>18, <2>1 DEF LateRun, Same
<1>19. ASSUME NEW r \in Rank, LateExec(l, r)
       PROVE  Same(k) /\ noRm' = noRm
  <2>1. box'[k] = box[k] /\ lateExec'[k] = lateExec[k]
    BY <1>3, <1>19 DEF LateExec
  <2> QED
    BY <1>19, <2>1 DEF LateExec, Same
<1> QED
  BY <1>4, <1>5, <1>6, <1>7, <1>8, <1>9, <1>10, <1>11, <1>12, <1>13, <1>14, <1>15, <1>16, <1>17,
     <1>18, <1>19 DEF Step, Control

-----------------------------------------------------------------------------
(* What each step does to its own launch, field by field.                  *)
LEMMA CleanupExistingOwn ==
  ASSUME TypeOK, NEW l \in Launch, CleanupExisting(l)
  PROVE  /\ pc[l] = "idle" /\ pc'[l] = "port"
         /\ \A r \in Rank : box'[l][r] = "none" \/ box'[l][r] = box[l][r]
         /\ UNCHANGED <<todo, bad, port, tries, lateRun, lateExec, fallen, joined, raced, cleaned>>
<1>1. PICK missed \in SUBSET Rank : SetBoxes(l, Rank \ missed, "none")
  BY DEF CleanupExisting
<1>2. \A r \in Rank : box'[l][r] = "none" \/ box'[l][r] = box[l][r]
  BY <1>1, States, SetBoxesEffect
<1>3. pc'[l] = "port"
  BY DEF CleanupExisting, Goto, TypeOK
<1> QED
  BY <1>2, <1>3 DEF CleanupExisting

LEMMA FindPortOwn ==
  ASSUME TypeOK, NEW l \in Launch, find_port(l)
  PROVE  /\ pc[l] = "port" /\ pc'[l] = "run"
         /\ port'[l] \in Port
         /\ todo'[l] = IF l \in Ray THEN {0} ELSE Rank
         /\ UNCHANGED <<box, bad, tries, listener, lateRun, lateExec, fallen, joined, cleaned>>
<1>1. pc'[l] = "run"
  BY DEF find_port, Goto, TypeOK
<1>2. port'[l] \in Port /\ todo'[l] = IF l \in Ray THEN {0} ELSE Rank
  BY DEF find_port, TypeOK
<1> QED
  BY <1>1, <1>2 DEF find_port

LEMMA AnswerOwn ==
  ASSUME TypeOK, NEW l \in Launch, NEW r \in Rank, Answer(l, r)
  PROVE  /\ pc[l] \in {"run", "workers"} /\ r \in todo[l]
         /\ todo'[l] = todo[l] \ {r}
         /\ Runs(l) => /\ \/ box'[l][r] = "up" /\ fallen'[l] = fallen[l] \ {r}
                          \/ l \in Refused /\ box'[l][r] = "none"
                       /\ \A q \in Rank \ {r} : box'[l][q] = box[l][q]
                       /\ fallen'[l] \cup {r} = fallen[l] \cup {r}
         /\ ~Runs(l) => /\ \A q \in Rank : box'[l][q] = box[l][q]
                                \/ (box[l][q] = "up" /\ box'[l][q] = "serving")
                        /\ fallen' = fallen
         /\ UNCHANGED <<pc, bad, port, tries, lateRun, lateExec, joined, raced, cleaned>>
<1>1. todo'[l] = todo[l] \ {r}
  BY DEF Answer, TypeOK
<1>2. ASSUME Runs(l)
      PROVE  /\ \/ box'[l][r] = "up" /\ fallen'[l] = fallen[l] \ {r}
                \/ l \in Refused /\ box'[l][r] = "none"
             /\ \A q \in Rank \ {r} : box'[l][q] = box[l][q]
             /\ fallen'[l] \cup {r} = fallen[l] \cup {r}
  <2>1. PICK state \in {"up", "none"} :
            /\ SetBoxes(l, {r}, state) /\ (state = "none" => l \in Refused)
            /\ state = "up" => fallen' = [fallen EXCEPT ![l] = @ \ {r}]
    BY <1>2 DEF Answer, RunCarried
  <2>2. state \in Boxes /\ {r} \in SUBSET Rank
    BY States
  <2>3. \A q \in Rank : box'[l][q] = IF q \in {r} THEN state ELSE box[l][q]
    BY <2>1, <2>2, SetBoxesEffect
  <2>4. fallen' \in {fallen, [fallen EXCEPT ![l] = @ \ {r}]}
    BY <1>2 DEF Answer, RunCarried
  <2>5. /\ fallen'[l] \cup {r} = fallen[l] \cup {r}
        /\ state = "up" => fallen'[l] = fallen[l] \ {r}
    BY <2>1, <2>4 DEF TypeOK
  <2> QED
    BY <2>1, <2>3, <2>5
<1>3. ASSUME ~Runs(l)
      PROVE  /\ \A q \in Rank : box'[l][q] = box[l][q]
                   \/ (box[l][q] = "up" /\ box'[l][q] = "serving")
             /\ fallen' = fallen
  BY <1>3, ExecCarriedEffect DEF Answer
<1> QED
  BY <1>1, <1>2, <1>3 DEF Answer

LEMMA CallFailsOwn ==
  ASSUME TypeOK, NEW l \in Launch, NEW r \in Rank, CallFails(l, r)
  PROVE  /\ pc[l] \in {"run", "workers"} /\ r \in todo[l]
         /\ todo'[l] = todo[l] \ {r} /\ bad'[l] = TRUE
         /\ lateRun'[l] = lateRun[l] \/ (Runs(l) /\ lateRun'[l] = lateRun[l] \cup {r})
         /\ lateExec'[l] = lateExec[l] \/ (~Runs(l) /\ lateExec'[l] = lateExec[l] \cup {r})
         /\ UNCHANGED <<pc, box, port, tries, listener, fallen, joined, raced, cleaned>>
<1>1. todo'[l] = todo[l] \ {r} /\ bad'[l] = TRUE
  BY DEF CallFails, TypeOK
<1>2. /\ lateRun'[l] = lateRun[l] \/ (Runs(l) /\ lateRun'[l] = lateRun[l] \cup {r})
      /\ lateExec'[l] = lateExec[l] \/ (~Runs(l) /\ lateExec'[l] = lateExec[l] \cup {r})
  <2>1. /\ lateRun' = lateRun \/ (Runs(l) /\ lateRun' = [lateRun EXCEPT ![l] = @ \cup {r}])
        /\ lateExec' = lateExec \/ (~Runs(l) /\ lateExec' = [lateExec EXCEPT ![l] = @ \cup {r}])
    BY DEF CallFails
  <2> QED
    BY <2>1 DEF TypeOK
<1> QED
  BY <1>1, <1>2 DEF CallFails

LEMMA PhaseEndsOwn ==
  ASSUME TypeOK, NEW l \in Launch, PhaseEnds(l)
  PROVE  /\ pc[l] \in {"run", "workers"} /\ todo[l] = {}
         /\ pc[l] = "run" => pc'[l] = IF bad[l] THEN IF l \in Ray THEN "cleanHead" ELSE "failed"
                                       ELSE IF l \in Ray THEN "wait" ELSE "hooks"
         /\ pc[l] = "workers" => pc'[l] = IF bad[l] THEN "cleanAll"
                                           ELSE IF l \in Ray THEN "hooks" ELSE "ok"
         /\ UNCHANGED <<box, todo, bad, port, tries, listener, lateRun, lateExec, fallen, joined,
                        raced, cleaned>>
<1>1. pc'[l] = IF bad[l] THEN OnFailure(l) ELSE Following(l)
  BY DEF PhaseEnds, Goto, TypeOK
<1>2. /\ pc[l] = "run" => pc'[l] = IF bad[l] THEN IF l \in Ray THEN "cleanHead" ELSE "failed"
                                    ELSE IF l \in Ray THEN "wait" ELSE "hooks"
      /\ pc[l] = "workers" => pc'[l] = IF bad[l] THEN "cleanAll"
                                        ELSE IF l \in Ray THEN "hooks" ELSE "ok"
  BY <1>1, Ways
<1> QED
  BY <1>2 DEF PhaseEnds

LEMMA HooksOwn ==
  ASSUME TypeOK, NEW l \in Launch, run_pre_serve_hooks(l)
  PROVE  /\ pc[l] = "hooks" /\ pc'[l] \in {"exec", "failed"}
         /\ UNCHANGED <<box, todo, bad, port, tries, listener, lateRun, lateExec, fallen, joined,
                        raced, cleaned>>
<1>1. pc[l] = "hooks" /\ pc'[l] \in {Following(l), OnFailure(l)}
  BY DEF run_pre_serve_hooks, Goto, TypeOK
<1>2. pc'[l] \in {"exec", "failed"}
  BY <1>1, Ways
<1> QED
  BY <1>1, <1>2 DEF run_pre_serve_hooks

LEMMA ExecHeadOwn ==
  ASSUME TypeOK, NEW l \in Launch, ExecHead(l)
  PROVE  /\ pc[l] = "exec" /\ pc'[l] \in {IF l \in Ray THEN "ok" ELSE "wait", "cleanAll"}
         /\ \A q \in Rank : box'[l][q] = box[l][q]
                               \/ (box[l][q] = "up" /\ box'[l][q] = "serving")
         /\ lateExec'[l] = lateExec[l]
               \/ (lateExec'[l] = lateExec[l] \cup {0} /\ pc'[l] = "cleanAll")
         /\ UNCHANGED <<todo, bad, port, tries, lateRun, fallen, joined, raced, cleaned>>
<1>0. pc[l] = "exec" /\ OnFailure(l) = "cleanAll" /\ Following(l) = IF l \in Ray THEN "ok" ELSE "wait"
  BY Ways DEF ExecHead
<1>1. CASE ExecCarried(l, 0) /\ Goto(l, Following(l)) /\ UNCHANGED lateExec
  <2>1. pc'[l] = IF l \in Ray THEN "ok" ELSE "wait"
    BY <1>0, <1>1 DEF Goto, TypeOK
  <2>2. \A q \in Rank : box'[l][q] = box[l][q] \/ (box[l][q] = "up" /\ box'[l][q] = "serving")
    BY <1>1, Ranks, ExecCarriedEffect
  <2> QED
    BY <1>1, <2>1, <2>2 DEF ExecHead
<1>2. CASE /\ lateExec' \in {lateExec, [lateExec EXCEPT ![l] = @ \cup {0}]}
           /\ Goto(l, OnFailure(l)) /\ UNCHANGED <<box, listener>>
  <2>1. pc'[l] = "cleanAll"
    BY <1>0, <1>2 DEF Goto, TypeOK
  <2>2. lateExec'[l] \in {lateExec[l], lateExec[l] \cup {0}}
    BY <1>2 DEF TypeOK
  <2> QED
    BY <1>2, <2>1, <2>2 DEF ExecHead
<1> QED
  BY <1>1, <1>2 DEF ExecHead

LEMMA WaitOwn ==
  ASSUME TypeOK, NEW l \in Launch, wait_for_port(l)
  PROVE  /\ pc[l] = "wait"
         /\ \/ /\ pc'[l] = "workers" /\ todo'[l] = Worker /\ tries' = tries
               /\ joined'[l] = listener[port[l]] /\ joined'[l] # Free
               /\ tries[l] = 0 \/ HeadRuns(l)
            \/ /\ pc'[l] = IF l \in Ray THEN "cleanHead" ELSE "cleanAll"
               /\ UNCHANGED <<todo, joined>>
            \/ /\ pc'[l] = pc[l] /\ tries'[l] = tries[l] + 1 /\ ~GivesUp(l)
               /\ UNCHANGED <<todo, joined>>
         /\ UNCHANGED <<box, bad, port, listener, lateRun, lateExec, fallen, raced, cleaned>>
<1>1. /\ pc[l] = "wait" /\ Following(l) = "workers"
      /\ OnFailure(l) = IF l \in Ray THEN "cleanHead" ELSE "cleanAll"
  BY Ways DEF wait_for_port
<1>2. CASE /\ joined' = [joined EXCEPT ![l] = listener[port[l]]] /\ listener[port[l]] # Free
           /\ todo' = [todo EXCEPT ![l] = Worker] /\ Goto(l, Following(l)) /\ UNCHANGED tries
           /\ tries[l] = 0 \/ HeadRuns(l)
  <2>1. pc'[l] = "workers"
    BY <1>1, <1>2 DEF Goto, TypeOK
  <2>2. todo'[l] = Worker /\ joined'[l] = listener[port[l]]
    BY <1>2 DEF TypeOK
  <2> QED
    BY <1>1, <1>2, <2>1, <2>2 DEF wait_for_port
<1>3. CASE Goto(l, OnFailure(l)) /\ UNCHANGED <<todo, joined>>
  <2>1. pc'[l] = IF l \in Ray THEN "cleanHead" ELSE "cleanAll"
    BY <1>1, <1>3 DEF Goto, TypeOK
  <2> QED
    BY <1>1, <1>3, <2>1 DEF wait_for_port
<1>4. CASE /\ tries' = [tries EXCEPT ![l] = @ + 1] /\ ~GivesUp(l)
           /\ UNCHANGED <<pc, todo, joined>>
  <2>1. tries'[l] = tries[l] + 1
    BY <1>4 DEF TypeOK
  <2> QED
    BY <1>1, <1>4, <2>1 DEF wait_for_port
<1> QED
  BY <1>2, <1>3, <1>4 DEF wait_for_port

LEMMA DetectFailsOwn ==
  ASSUME TypeOK, NEW l \in Launch, detect_head_ip_fails(l)
  PROVE  /\ pc[l] = "port" /\ pc'[l] = "failed"
         /\ UNCHANGED <<box, todo, bad, port, tries, listener, lateRun, lateExec, fallen, joined,
                        raced, cleaned>>
BY DEF detect_head_ip_fails, Goto, TypeOK

LEMMA CleanUpOwn ==
  ASSUME TypeOK, NEW l \in Launch, cleanup_after_failure(l)
  PROVE  /\ pc[l] \in Cleaning /\ pc'[l] = "failed"
         /\ \A r \in Rank : box'[l][r] = box[l][r] \/ box'[l][r] = "none"
         /\ cleaned'[l] = cleaned[l]
               \/ (cleaned'[l] => \A r \in Targets(l) : box'[l][r] = "none")
         /\ UNCHANGED <<todo, bad, port, tries, lateRun, lateExec, fallen, joined, raced>>
<1>1. pc'[l] = "failed"
  BY DEF cleanup_after_failure, Goto, TypeOK
<1>2. CASE l \in noRm
  BY <1>1, <1>2 DEF cleanup_after_failure
<1>3. CASE l \notin noRm
  <2>1. PICK missed \in SUBSET Targets(l) :
            /\ SetBoxes(l, Targets(l) \ missed, "none")
            /\ cleaned' = [cleaned EXCEPT ![l] = missed = {}]
    BY <1>3 DEF cleanup_after_failure
  <2>2. Targets(l) \in SUBSET Rank
    BY Ranks DEF Targets
  <2>3. \A r \in Rank : box'[l][r] = IF r \in Targets(l) \ missed THEN "none" ELSE box[l][r]
    <3>1. PICK ranks \in SUBSET Rank, state \in {"none"} :
              ranks = Targets(l) \ missed /\ SetBoxes(l, ranks, state)
      BY <2>1, <2>2
    <3> QED
      BY <3>1, States, SetBoxesEffect
  <2>4. cleaned'[l] <=> missed = {}
    BY <2>1 DEF TypeOK
  <2>5. cleaned'[l] => \A r \in Targets(l) : box'[l][r] = "none"
    BY <2>2, <2>3, <2>4
  <2> QED
    BY <1>1, <2>3, <2>5 DEF cleanup_after_failure
<1> QED
  BY <1>2, <1>3

LEMMA InterruptOwn ==
  ASSUME TypeOK, NEW l \in Launch, Interrupt(l)
  PROVE  /\ pc[l] \notin Ended /\ pc'[l] = "failed" /\ todo'[l] = {}
         /\ lateRun'[l] = IF Runs(l) THEN lateRun[l] \cup todo[l] ELSE lateRun[l]
         /\ lateExec[l] \subseteq lateExec'[l]
         /\ UNCHANGED <<box, bad, port, tries, listener, fallen, joined, raced, cleaned>>
<1>1. pc'[l] = "failed" /\ todo'[l] = {}
  BY DEF Interrupt, Goto, TypeOK
<1>2. lateRun'[l] = IF Runs(l) THEN lateRun[l] \cup todo[l] ELSE lateRun[l]
  BY DEF Interrupt, TypeOK
<1>3. lateExec[l] \subseteq lateExec'[l]
  BY DEF Interrupt, TypeOK
<1> QED
  BY <1>1, <1>2, <1>3 DEF Interrupt

LEMMA BindOwn ==
  ASSUME TypeOK, NEW l \in Launch, Bind(l)
  PROVE  /\ port[l] \in Port /\ listener[port[l]] # l
         /\ Binding(l, box[l][0]) /\ box[l][0] # "lost"
         /\ \/ /\ listener[port[l]] = Free /\ listener'[port[l]] = l
               /\ \A p \in Port \ {port[l]} : listener'[p] = listener[p]
               /\ UNCHANGED <<box, fallen>>
            \/ /\ listener[port[l]] # Free
               /\ SetBoxes(l, {0}, IF l \in Ray THEN Gone(l) ELSE "lost")
               /\ box'[l][0] = IF l \in Ray THEN Gone(l) ELSE "lost"
               /\ \A r \in Worker : box'[l][r] = box[l][r]
               /\ fallen'[l] = IF l \in Ray THEN fallen[l] \cup {0} ELSE fallen[l]
         /\ UNCHANGED <<pc, todo, bad, port, tries, lateRun, lateExec, joined, raced, cleaned>>
<1>1. port[l] \in Port
  BY DEF Bind, TypeOK
<1>2. CASE listener[port[l]] = Free
  <2>1. listener' = [listener EXCEPT ![port[l]] = l] /\ UNCHANGED <<box, fallen>>
    BY <1>2 DEF Bind
  <2>2. listener'[port[l]] = l /\ \A p \in Port \ {port[l]} : listener'[p] = listener[p]
    BY <1>1, <2>1 DEF TypeOK
  <2> QED
    BY <1>1, <1>2, <2>1, <2>2 DEF Bind
<1>3. CASE listener[port[l]] # Free
  <2> DEFINE state == IF l \in Ray THEN Gone(l) ELSE "lost"
  <2>1. SetBoxes(l, {0}, state) /\ fallen' = IF l \in Ray THEN [fallen EXCEPT ![l] = @ \cup {0}] ELSE fallen
    BY <1>3 DEF Bind
  <2>2. state \in Boxes /\ {0} \in SUBSET Rank
    BY Ranks, States
  <2>3. \A r \in Rank : box'[l][r] = IF r \in {0} THEN state ELSE box[l][r]
    <3> HIDE DEF state
    <3> QED
      BY <2>1, <2>2, SetBoxesEffect
  <2>4. box'[l][0] = state /\ \A r \in Worker : box'[l][r] = box[l][r]
    BY <2>3, Ranks
  <2>5. fallen'[l] = IF l \in Ray THEN fallen[l] \cup {0} ELSE fallen[l]
    BY <2>1 DEF TypeOK
  <2> QED
    BY <1>1, <1>3, <2>1, <2>4, <2>5 DEF Bind
<1> QED
  BY <1>2, <1>3

LEMMA ServeEndsOwn ==
  ASSUME TypeOK, NEW l \in Launch, NEW r \in Rank, ServeEnds(l, r)
  PROVE  /\ box[l][r] = "serving" /\ box'[l][r] = "lost"
         /\ \A q \in Rank \ {r} : box'[l][q] = box[l][q]
         /\ UNCHANGED <<pc, todo, bad, port, tries, lateRun, lateExec, fallen, joined, raced, cleaned>>
<1>1. PICK state \in {"lost"} : SetBoxes(l, {r}, state)
  BY DEF ServeEnds
<1>2. state \in Boxes
  BY States
<1>3. /\ box'[l][r] = state
      /\ \A q \in Rank \ {r} : box'[l][q] = box[l][q]
  BY <1>1, <1>2, OneBox
<1> QED
  BY <1>1, <1>3 DEF ServeEnds

LEMMA ContainerEndsOwn ==
  ASSUME TypeOK, NEW l \in Launch, NEW r \in Rank, ContainerEnds(l, r)
  PROVE  /\ box[l][r] \in Live /\ box'[l][r] = Gone(l)
         /\ \A q \in Rank \ {r} : box'[l][q] = box[l][q]
         /\ fallen'[l] = fallen[l] \cup {r}
         /\ UNCHANGED <<pc, todo, bad, port, tries, lateRun, lateExec, joined, raced, cleaned>>
<1>1. Gone(l) \in Boxes /\ SetBoxes(l, {r}, Gone(l))
  BY States DEF ContainerEnds
<1>2. /\ box'[l][r] = Gone(l)
      /\ \A q \in Rank \ {r} : box'[l][q] = box[l][q]
  BY <1>1, OneBox
<1>3. fallen'[l] = fallen[l] \cup {r}
  BY DEF ContainerEnds, TypeOK
<1> QED
  BY <1>2, <1>3 DEF ContainerEnds

LEMMA LateRunOwn ==
  ASSUME TypeOK, NEW l \in Launch, NEW r \in Rank, LateRun(l, r)
  PROVE  /\ r \in lateRun[l] /\ lateRun'[l] = lateRun[l] \ {r}
         /\ box'[l][r] = IF pc[l] \in Ended THEN "stray" ELSE "up"
         /\ \A q \in Rank \ {r} : box'[l][q] = box[l][q]
         /\ fallen'[l] = fallen[l] \ {r}
         /\ UNCHANGED <<pc, todo, bad, port, tries, lateExec, joined, raced, cleaned>>
<1>1. PICK state \in {"stray", "up"} :
          SetBoxes(l, {r}, state) /\ state = IF pc[l] \in Ended THEN "stray" ELSE "up"
  BY DEF LateRun
<1>2. state \in Boxes
  BY States
<1>3. /\ box'[l][r] = state
      /\ \A q \in Rank \ {r} : box'[l][q] = box[l][q]
  BY <1>1, <1>2, OneBox
<1>4. fallen'[l] = fallen[l] \ {r} /\ lateRun'[l] = lateRun[l] \ {r}
  BY DEF LateRun, TypeOK
<1> QED
  BY <1>1, <1>3, <1>4 DEF LateRun

LEMMA LateExecOwn ==
  ASSUME TypeOK, NEW l \in Launch, NEW r \in Rank, LateExec(l, r)
  PROVE  /\ r \in lateExec[l] /\ lateExec'[l] = lateExec[l] \ {r}
         /\ \A q \in Rank : box'[l][q] = box[l][q]
                               \/ (box[l][q] = "up" /\ box'[l][q] = "serving")
         /\ UNCHANGED <<pc, todo, bad, port, tries, lateRun, fallen, joined, raced, cleaned>>
<1>1. \A q \in Rank : box'[l][q] = box[l][q] \/ (box[l][q] = "up" /\ box'[l][q] = "serving")
  BY ExecCarriedEffect DEF LateExec
<1>2. lateExec'[l] = lateExec[l] \ {r}
  BY DEF LateExec, TypeOK
<1> QED
  BY <1>1, <1>2 DEF LateExec

-----------------------------------------------------------------------------
(* What a launch keeps to, step by step.                                   *)
LEMMA PortedKept ==
  ASSUME TypeOK, NEW l \in Launch, Ported(l), Step(l)
  PROVE  Ported(l)'
<1> USE DEF Ported, Working, Cleaning, Ended
<1>1. CASE CleanupExisting(l)
  BY <1>1, CleanupExistingOwn
<1>2. CASE detect_head_ip_fails(l)
  BY <1>2, DetectFailsOwn
<1>3. CASE find_port(l)
  BY <1>3, FindPortOwn, LaunchAssumption
<1>4. ASSUME NEW r \in Rank, Answer(l, r)
      PROVE  Ported(l)'
  BY <1>4, AnswerOwn
<1>5. ASSUME NEW r \in Rank, CallFails(l, r)
      PROVE  Ported(l)'
  BY <1>5, CallFailsOwn
<1>6. CASE PhaseEnds(l)
  BY <1>6, PhaseEndsOwn
<1>7. CASE run_pre_serve_hooks(l)
  BY <1>7, HooksOwn
<1>8. CASE ExecHead(l)
  BY <1>8, ExecHeadOwn
<1>9. CASE wait_for_port(l)
  <2>1. pc[l] = "wait" /\ tries[l] \in 0 .. Tries /\ tries[l] < Tries /\ Tries \in Nat
    BY <1>9, WaitOwn, LaunchAssumption DEF TypeOK
  <2>2. \/ pc'[l] = "workers" /\ tries' = tries
        \/ pc'[l] \in Cleaning
        \/ pc'[l] = pc[l] /\ tries'[l] = tries[l] + 1 /\ ~GivesUp(l)
    BY <1>9, WaitOwn
  <2>3. pc'[l] \notin Cleaning => tries'[l] < Tries
    BY <2>1, <2>2 DEF GivesUp
  <2> QED
    BY <1>9, <2>1, <2>2, <2>3, WaitOwn
<1>10. CASE cleanup_after_failure(l)
  BY <1>10, CleanUpOwn
<1>11. CASE Interrupt(l)
  BY <1>11, InterruptOwn
<1>12. CASE Bind(l)
  BY <1>12, BindOwn
<1>13. ASSUME NEW r \in Rank, ServeEnds(l, r)
       PROVE  Ported(l)'
  BY <1>13, ServeEndsOwn
<1>14. ASSUME NEW r \in Rank, ContainerEnds(l, r)
       PROVE  Ported(l)'
  BY <1>14, ContainerEndsOwn
<1>15. ASSUME NEW r \in Rank, LateRun(l, r)
       PROVE  Ported(l)'
  BY <1>15, LateRunOwn
<1>16. ASSUME NEW r \in Rank, LateExec(l, r)
       PROVE  Ported(l)'
  BY <1>16, LateExecOwn
<1> QED
  BY <1>1, <1>2, <1>3, <1>4, <1>5, <1>6, <1>7, <1>8, <1>9, <1>10, <1>11, <1>12, <1>13,
     <1>14, <1>15, <1>16 DEF Step, Control

LEMMA HeadOnlyKept ==
  ASSUME TypeOK, NEW l \in Launch, Ported(l), HeadOnly(l), Step(l)
  PROVE  HeadOnly(l)'
<1> USE DEF HeadOnly, Cleaning, Ended, Runs
<1>1. CASE CleanupExisting(l)
  BY <1>1, CleanupExistingOwn, Ranks
<1>2. CASE detect_head_ip_fails(l)
  BY <1>2, DetectFailsOwn, Ranks
<1>3. CASE find_port(l)
  BY <1>3, FindPortOwn, Ranks
<1>4. ASSUME NEW r \in Rank, Answer(l, r)
      PROVE  HeadOnly(l)'
  BY <1>4, AnswerOwn, Ranks
<1>5. ASSUME NEW r \in Rank, CallFails(l, r)
      PROVE  HeadOnly(l)'
  BY <1>5, CallFailsOwn, Ranks
<1>6. CASE PhaseEnds(l)
  BY <1>6, PhaseEndsOwn, Ranks
<1>7. CASE run_pre_serve_hooks(l)
  BY <1>7, HooksOwn, Ranks
<1>8. CASE ExecHead(l)
  BY <1>8, ExecHeadOwn, Ranks
<1>9. CASE wait_for_port(l)
  BY <1>9, WaitOwn, Ranks
<1>10. CASE cleanup_after_failure(l)
  BY <1>10, CleanUpOwn, Ranks
<1>11. CASE Interrupt(l)
  BY <1>11, InterruptOwn, Ranks
<1>12. CASE Bind(l)
  <2>1. UNCHANGED <<pc, todo, lateRun>> /\ \A r \in Worker : box'[l][r] = box[l][r]
    BY <1>12, BindOwn
  <2> QED
    BY <2>1
<1>13. ASSUME NEW r \in Rank, ServeEnds(l, r)
       PROVE  HeadOnly(l)'
  BY <1>13, ServeEndsOwn, Ranks
<1>14. ASSUME NEW r \in Rank, ContainerEnds(l, r)
       PROVE  HeadOnly(l)'
  BY <1>14, ContainerEndsOwn, Ranks DEF Live
<1>15. ASSUME NEW r \in Rank, LateRun(l, r)
       PROVE  HeadOnly(l)'
  BY <1>15, LateRunOwn, Ranks
<1>16. ASSUME NEW r \in Rank, LateExec(l, r)
       PROVE  HeadOnly(l)'
  BY <1>16, LateExecOwn, Ranks
<1> QED
  BY <1>1, <1>2, <1>3, <1>4, <1>5, <1>6, <1>7, <1>8, <1>9, <1>10, <1>11, <1>12, <1>13,
     <1>14, <1>15, <1>16 DEF Step, Control

LEMMA CleanedKept ==
  ASSUME TypeOK, NEW l \in Launch, Ported(l), HeadOnly(l), Cleaned(l), Step(l)
  PROVE  Cleaned(l)'
<1> USE DEF Cleaned, Cleaning, Ended
<1>1. CASE CleanupExisting(l)
  BY <1>1, CleanupExistingOwn
<1>2. CASE detect_head_ip_fails(l)
  BY <1>2, DetectFailsOwn
<1>3. CASE find_port(l)
  BY <1>3, FindPortOwn
<1>4. ASSUME NEW r \in Rank, Answer(l, r)
      PROVE  Cleaned(l)'
  BY <1>4, AnswerOwn
<1>5. ASSUME NEW r \in Rank, CallFails(l, r)
      PROVE  Cleaned(l)'
  BY <1>5, CallFailsOwn
<1>6. CASE PhaseEnds(l)
  BY <1>6, PhaseEndsOwn
<1>7. CASE run_pre_serve_hooks(l)
  BY <1>7, HooksOwn
<1>8. CASE ExecHead(l)
  BY <1>8, ExecHeadOwn
<1>9. CASE wait_for_port(l)
  BY <1>9, WaitOwn
<1>10. CASE cleanup_after_failure(l)
  BY <1>10, CleanUpOwn, Ranks DEF Targets, HeadOnly
<1>11. CASE Interrupt(l)
  BY <1>11, InterruptOwn
<1>12. CASE Bind(l)
  <2>1. SUFFICES ASSUME cleaned'[l]
                 PROVE  pc'[l] = "failed" /\ \A r \in Rank : box'[l][r] \notin {"up", "serving", "lost"}
    OBVIOUS
  <2>2. pc'[l] = "failed" /\ \A r \in Rank : box[l][r] \notin {"up", "serving", "lost"}
    BY <1>12, <2>1, BindOwn
  <2>3. l \in Ray
    BY <1>12, <2>2, BindOwn, Ranks DEF Binding
  <2>4. \A r \in Rank : box'[l][r] = box[l][r] \/ box'[l][r] = Gone(l)
    BY <1>12, <2>3, BindOwn, Ranks
  <2> QED
    BY <2>2, <2>4 DEF Gone
<1>13. ASSUME NEW r \in Rank, ServeEnds(l, r)
       PROVE  Cleaned(l)'
  BY <1>13, ServeEndsOwn
<1>14. ASSUME NEW r \in Rank, ContainerEnds(l, r)
       PROVE  Cleaned(l)'
  BY <1>14, ContainerEndsOwn DEF Gone
<1>15. ASSUME NEW r \in Rank, LateRun(l, r)
       PROVE  Cleaned(l)'
  BY <1>15, LateRunOwn
<1>16. ASSUME NEW r \in Rank, LateExec(l, r)
       PROVE  Cleaned(l)'
  BY <1>16, LateExecOwn
<1> QED
  BY <1>1, <1>2, <1>3, <1>4, <1>5, <1>6, <1>7, <1>8, <1>9, <1>10, <1>11, <1>12, <1>13,
     <1>14, <1>15, <1>16 DEF Step, Control

LEMMA LateFailsKept ==
  ASSUME TypeOK, NEW l \in Launch, LateFails(l), Step(l)
  PROVE  LateFails(l)'
<1> USE DEF LateFails, Cleaning, Ended, Runs
<1>1. CASE CleanupExisting(l)
  BY <1>1, CleanupExistingOwn
<1>2. CASE detect_head_ip_fails(l)
  BY <1>2, DetectFailsOwn
<1>3. CASE find_port(l)
  BY <1>3, FindPortOwn
<1>4. ASSUME NEW r \in Rank, Answer(l, r)
      PROVE  LateFails(l)'
  BY <1>4, AnswerOwn
<1>5. ASSUME NEW r \in Rank, CallFails(l, r)
      PROVE  LateFails(l)'
  BY <1>5, CallFailsOwn
<1>6. CASE PhaseEnds(l)
  BY <1>6, PhaseEndsOwn
<1>7. CASE run_pre_serve_hooks(l)
  BY <1>7, HooksOwn
<1>8. CASE ExecHead(l)
  BY <1>8, ExecHeadOwn
<1>9. CASE wait_for_port(l)
  <2>1. pc[l] = "wait" /\ pc'[l] \in {"wait", "workers", "cleanHead", "cleanAll"}
    BY <1>9, WaitOwn
  <2> QED
    BY <1>9, <2>1, WaitOwn
<1>10. CASE cleanup_after_failure(l)
  BY <1>10, CleanUpOwn
<1>11. CASE Interrupt(l)
  BY <1>11, InterruptOwn
<1>12. CASE Bind(l)
  BY <1>12, BindOwn
<1>13. ASSUME NEW r \in Rank, ServeEnds(l, r)
       PROVE  LateFails(l)'
  BY <1>13, ServeEndsOwn
<1>14. ASSUME NEW r \in Rank, ContainerEnds(l, r)
       PROVE  LateFails(l)'
  BY <1>14, ContainerEndsOwn
<1>15. ASSUME NEW r \in Rank, LateRun(l, r)
       PROVE  LateFails(l)'
  BY <1>15, LateRunOwn
<1>16. ASSUME NEW r \in Rank, LateExec(l, r)
       PROVE  LateFails(l)'
  BY <1>16, LateExecOwn
<1> QED
  BY <1>1, <1>2, <1>3, <1>4, <1>5, <1>6, <1>7, <1>8, <1>9, <1>10, <1>11, <1>12, <1>13,
     <1>14, <1>15, <1>16 DEF Step, Control

LEMMA DueStartedKept ==
  ASSUME TypeOK, NEW l \in Launch, LateFails(l), DueStarted(l), Step(l)
  PROVE  DueStarted(l)'
<1> USE DEF DueStarted, Due, Started, LateFails, Cleaning, Ended, Runs, Live
<1>1. CASE CleanupExisting(l)
  BY <1>1, CleanupExistingOwn, Ranks
<1>2. CASE detect_head_ip_fails(l)
  BY <1>2, DetectFailsOwn, Ranks
<1>3. CASE find_port(l)
  BY <1>3, FindPortOwn, Ranks
<1>4. ASSUME NEW r \in Rank, Answer(l, r)
      PROVE  DueStarted(l)'
  BY <1>4, AnswerOwn, Ranks
<1>5. ASSUME NEW r \in Rank, CallFails(l, r)
      PROVE  DueStarted(l)'
  BY <1>5, CallFailsOwn, Ranks
<1>6. CASE PhaseEnds(l)
  BY <1>6, PhaseEndsOwn, Ranks
<1>7. CASE run_pre_serve_hooks(l)
  BY <1>7, HooksOwn, Ranks
<1>8. CASE ExecHead(l)
  BY <1>8, ExecHeadOwn, Ranks
<1>9. CASE wait_for_port(l)
  <2>1. CASE pc'[l] = "workers" /\ todo'[l] = Worker
    BY <1>9, <2>1, WaitOwn, Ranks
  <2>2. CASE pc'[l] \in {"wait", "cleanHead", "cleanAll"} /\ todo' = todo
    BY <1>9, <2>2, WaitOwn
  <2> QED
    BY <1>9, <2>1, <2>2, WaitOwn
<1>10. CASE cleanup_after_failure(l)
  BY <1>10, CleanUpOwn, Ranks
<1>11. CASE Interrupt(l)
  BY <1>11, InterruptOwn, Ranks
<1>12. CASE Bind(l)
  <2>1. Started(l) \subseteq Started(l)'
    <3>1. ASSUME NEW r \in Started(l)
          PROVE  r \in fallen'[l] \/ (r \in Rank /\ box'[l][r] \in Live)
      <4>1. CASE UNCHANGED <<box, fallen>>
        BY <4>1
      <4>2. CASE r = 0 /\ ~UNCHANGED <<box, fallen>>
        <5>1. 0 \in fallen'[l] \/ box'[l][0] = "lost"
          BY <1>12, <4>2, BindOwn
        <5> QED
          BY <4>2, <5>1, Ranks
      <4>3. CASE r # 0 /\ ~UNCHANGED <<box, fallen>>
        <5>1. fallen'[l] \in {fallen[l], fallen[l] \cup {0}}
          BY <1>12, <4>3, BindOwn
        <5>2. \A k \in Worker : box'[l][k] = box[l][k]
          BY <1>12, <4>3, BindOwn
        <5>3. r \in Rank => box'[l][r] = box[l][r]
          BY <4>3, <5>2, Ranks
        <5> QED
          BY <5>1, <5>3
      <4> QED
        BY <4>1, <4>2, <4>3
    <3> QED
      BY <3>1
  <2>2. UNCHANGED <<pc, bad, todo>>
    BY <1>12, BindOwn
  <2> QED
    BY <2>1, <2>2
<1>13. ASSUME NEW r \in Rank, ServeEnds(l, r)
       PROVE  DueStarted(l)'
  BY <1>13, ServeEndsOwn, Ranks
<1>14. ASSUME NEW r \in Rank, ContainerEnds(l, r)
       PROVE  DueStarted(l)'
  BY <1>14, ContainerEndsOwn, Ranks DEF Live
<1>15. ASSUME NEW r \in Rank, LateRun(l, r)
       PROVE  DueStarted(l)'
  BY <1>15, LateRunOwn, Ranks
<1>16. ASSUME NEW r \in Rank, LateExec(l, r)
       PROVE  DueStarted(l)'
  BY <1>16, LateExecOwn, Ranks
<1> QED
  BY <1>1, <1>2, <1>3, <1>4, <1>5, <1>6, <1>7, <1>8, <1>9, <1>10, <1>11, <1>12, <1>13,
     <1>14, <1>15, <1>16 DEF Step, Control

-----------------------------------------------------------------------------
(* A launch that a step leaves alone stays sound.                          *)
LEMMA SameStaysSound ==
  ASSUME NEW k \in Launch, Same(k), Sound(k)
  PROVE  Sound(k)'
<1>1. Ported(k)' /\ Cleaned(k)' /\ LateFails(k)'
  BY DEF Same, Sound, Ported, Cleaned, LateFails
<1>2. HeadOnly(k)'
  BY DEF Same, Sound, HeadOnly
<1>3. DueStarted(k)'
  BY DEF Same, Sound, DueStarted, Due, Started, Runs
<1> QED
  BY <1>1, <1>2, <1>3 DEF Sound

LEMMA StepSound ==
  ASSUME TypeOK, NEW l \in Launch, Sound(l), Step(l)
  PROVE  Sound(l)'
BY PortedKept, HeadOnlyKept, CleanedKept, LateFailsKept, DueStartedKept DEF Sound

LEMMA InitSound ==
  ASSUME Init
  PROVE  TypeOK /\ \A l \in Launch : Sound(l)
<1> USE LaunchAssumption DEF Init
<1>1. TypeOK
  <2>1. box \in [Launch -> [Rank -> Boxes]]
    BY DEF Boxes
  <2>2. faults \in 0 .. MaxFaults /\ tries \in [Launch -> 0 .. Tries]
    OBVIOUS
  <2>3. pc \in [Launch -> Places] /\ noRm \in SUBSET MayKeep
    BY DEF Places
  <2> QED
    BY <2>1, <2>2, <2>3 DEF TypeOK
<1>2. ASSUME NEW l \in Launch
      PROVE  Sound(l)
  <2>1. /\ pc[l] = "idle" /\ port[l] = 0 /\ tries[l] = 0 /\ todo[l] = {} /\ lateRun[l] = {}
        /\ bad[l] = FALSE /\ cleaned[l] = FALSE
        /\ \A r \in Rank : box[l][r] \in {"none", "old"}
    OBVIOUS
  <2>2. Ported(l)
    BY <2>1 DEF Ported, Working, Cleaning
  <2>3. HeadOnly(l)
    BY <2>1, Ranks DEF HeadOnly
  <2>4. Cleaned(l) /\ LateFails(l)
    BY <2>1 DEF Cleaned, LateFails
  <2>5. DueStarted(l)
    BY <2>1 DEF DueStarted, Due
  <2> QED
    BY <2>2, <2>3, <2>4, <2>5 DEF Sound
<1> QED
  BY <1>1, <1>2

LEMMA OtherListensSame ==
  ASSUME NEW p \in Port, OtherListens(p), NEW k \in Launch
  PROVE  Same(k)
BY DEF OtherListens, Same

LEMMA NextSound ==
  ASSUME TypeOK, \A l \in Launch : Sound(l), [Next]_vars
  PROVE  TypeOK' /\ \A l \in Launch : Sound(l)'
<1>1. CASE UNCHANGED vars
  <2>1. \A k \in Launch : Same(k)
    BY <1>1 DEF vars, Same
  <2>2. TypeOK'
    BY <1>1 DEF vars, TypeOK
  <2> QED
    BY <2>1, <2>2, SameStaysSound
<1>2. ASSUME NEW l \in Launch, Step(l)
      PROVE  TypeOK' /\ \A k \in Launch : Sound(k)'
  <2>1. TypeOK'
    BY <1>2, StepTypes DEF Sound
  <2>2. Sound(l)'
    BY <1>2, StepSound
  <2>3. \A k \in Launch \ {l} : Same(k)
    BY <1>2, OthersStay
  <2> QED
    BY <2>1, <2>2, <2>3, SameStaysSound
<1>3. ASSUME NEW p \in Port, OtherListens(p)
      PROVE  TypeOK' /\ \A k \in Launch : Sound(k)'
  BY <1>3, OtherTypes, OtherListensSame, SameStaysSound
<1> QED
  BY <1>1, <1>2, <1>3 DEF Next

LEMMA AlwaysSound == Spec => [](TypeOK /\ \A l \in Launch : Sound(l))
<1>1. Init => TypeOK /\ \A l \in Launch : Sound(l)
  BY InitSound
<1>2. (TypeOK /\ \A l \in Launch : Sound(l)) /\ [Next]_vars => (TypeOK /\ \A l \in Launch : Sound(l))'
  BY NextSound
<1> QED
  BY <1>1, <1>2, PTL DEF Spec

(* Every variable stays in its domain.  The port a launch waits for is the *)
(* one find_port gave it, and wait_for_port counts to its limit only.      *)
THEOREM TypeCorrect == Spec => []TypeOK
BY AlwaysSound, PTL

(* A failed launch whose clean-up reached its hosts has left no container, *)
(* although a Ray launch cleans the head alone when it fails before its    *)
(* workers and calls that timed out may still be carried out.              *)
THEOREM CleansUp == Spec => []FailureCleansUp
<1>1. (\A l \in Launch : Sound(l)) => FailureCleansUp
  BY DEF Sound, Cleaned, FailureCleansUp
<1> QED
  BY <1>1, AlwaysSound, PTL

-----------------------------------------------------------------------------
(* A step that gives nobody a port: its launch claims no more than before, *)
(* and the port of a head that went down is free.                          *)
Quiet(l) ==
  /\ port'[l] = port[l] /\ raced' = raced
  /\ Claims(l)' => Claims(l)
  /\ \A p \in Port : listener'[p] = listener[p] \/ (listener[p] = l /\ listener'[p] = Free)
  /\ \A p \in Port : listener'[p] = l => Binding(l, box'[l][0])

LEMMA QuietKeepsPorts ==
  ASSUME TypeOK, PortInv, NEW l \in Launch, Quiet(l), \A k \in Launch \ {l} : Same(k)
  PROVE  PortInv'
<1>1. \A k \in Launch : port'[k] = port[k] /\ (Claims(k)' => Claims(k))
  <2>1. ASSUME NEW k \in Launch \ {l}
        PROVE  port'[k] = port[k] /\ (Claims(k)' => Claims(k))
    BY <2>1 DEF Same, Claims
  <2> QED
    BY <2>1 DEF Quiet
<1>2. ASSUME NEW p \in Port, NEW k \in Launch, listener'[p] = k
      PROVE  port'[k] = p /\ Binding(k, box'[k][0])
  <2>1. listener[p] = k
    BY <1>2, LaunchAssumption DEF Quiet
  <2>2. port[k] = p /\ Binding(k, box[k][0])
    BY <2>1 DEF PortInv
  <2>3. CASE k = l
    BY <1>1, <1>2, <2>2, <2>3 DEF Quiet
  <2>4. CASE k # l
    BY <2>2, <2>4 DEF Same
  <2> QED
    BY <2>3, <2>4
<1>3. ASSUME NEW k \in Launch, NEW m \in Launch, k # m, port'[k] = port'[m], Claims(k)', Claims(m)'
      PROVE  raced'[m]
  BY <1>1, <1>3 DEF PortInv, Quiet
<1>4. ASSUME NEW k \in Launch, Claims(k)', ~raced'[k]
      PROVE  listener'[port'[k]] \in {Free, k}
  <2>1. Claims(k) /\ ~raced[k] /\ port'[k] = port[k]
    BY <1>1, <1>4 DEF Quiet
  <2>2. port[k] \in Port /\ listener[port[k]] \in {Free, k}
    BY <2>1 DEF PortInv, Claims, TypeOK
  <2> QED
    BY <2>1, <2>2 DEF Quiet
<1> QED
  BY <1>2, <1>3, <1>4 DEF PortInv

(* Whatever SetBoxes stops, it frees the port with the head.               *)
LEMMA SetBoxesPorts ==
  ASSUME TypeOK, PortInv, NEW l \in Launch, NEW ranks \in SUBSET Rank, NEW state \in Boxes,
         SetBoxes(l, ranks, state)
  PROVE  /\ \A p \in Port : listener'[p] = listener[p] \/ (listener[p] = l /\ listener'[p] = Free)
         /\ \A p \in Port : listener'[p] = l => Binding(l, box'[l][0])
<1>1. \A p \in Port : listener'[p] = listener[p] \/ (listener[p] = l /\ listener'[p] = Free)
  BY SetBoxesEffect
<1>2. ASSUME NEW p \in Port, listener'[p] = l
      PROVE  Binding(l, box'[l][0])
  <2>1. listener[p] = l /\ Binding(l, box[l][0])
    BY <1>1, <1>2, LaunchAssumption DEF PortInv
  <2>2. ~(0 \in ranks /\ ~Binding(l, state))
    BY <1>2, SetBoxesEffect
  <2>3. box'[l][0] = IF 0 \in ranks THEN state ELSE box[l][0]
    BY Ranks, SetBoxesEffect
  <2> QED
    BY <2>1, <2>2, <2>3
<1> QED
  BY <1>1, <1>2

LEMMA ExecCarriedPorts ==
  ASSUME TypeOK, PortInv, NEW l \in Launch, NEW r \in Rank, ExecCarried(l, r)
  PROVE  /\ \A p \in Port : listener'[p] = listener[p] \/ (listener[p] = l /\ listener'[p] = Free)
         /\ \A p \in Port : listener'[p] = l => Binding(l, box'[l][0])
<1>1. CASE box[l][r] = "up" /\ SetBoxes(l, {r}, "serving")
  <2>1. PICK state \in {"serving"} : SetBoxes(l, {r}, state)
    BY <1>1
  <2>2. state \in Boxes /\ {r} \in SUBSET Rank
    BY States
  <2> QED
    BY <2>1, <2>2, SetBoxesPorts
<1>2. CASE UNCHANGED <<box, listener>>
  BY <1>2 DEF PortInv
<1> QED
  BY <1>1, <1>2 DEF ExecCarried

(* As long as a launch has not ended it claims its port, so only what      *)
(* happens afterwards could give it a claim back.                          *)
LEMMA ClaimsWhileOpen ==
  ASSUME NEW l \in Launch, port'[l] = port[l], pc[l] \notin Ended
  PROVE  Claims(l)' => Claims(l)
BY DEF Claims

LEMMA UnchangedListeners ==
  ASSUME PortInv, NEW l \in Launch, UNCHANGED <<box, listener>>
  PROVE  /\ \A p \in Port : listener'[p] = listener[p] \/ (listener[p] = l /\ listener'[p] = Free)
         /\ \A p \in Port : listener'[p] = l => Binding(l, box'[l][0])
BY DEF PortInv

(* Only find_port and a head that opens its port are not quiet.            *)
LEMMA QuietSteps ==
  ASSUME TypeOK, PortInv, NEW l \in Launch, Step(l), ~find_port(l),
         ~(Bind(l) /\ listener[port[l]] = Free)
  PROVE  Quiet(l)
<1>1. CASE CleanupExisting(l)
  <2>1. PICK missed \in SUBSET Rank : SetBoxes(l, Rank \ missed, "none")
    BY <1>1 DEF CleanupExisting
  <2>2. PICK ranks \in SUBSET Rank, state \in {"none"} : SetBoxes(l, ranks, state)
    BY <2>1
  <2>3. UNCHANGED <<port, raced>> /\ pc[l] \notin Ended
    BY <1>1 DEF CleanupExisting, Ended
  <2> QED
    BY <2>2, <2>3, States, SetBoxesPorts, ClaimsWhileOpen DEF Quiet
<1>2. CASE detect_head_ip_fails(l)
  <2>1. UNCHANGED <<box, listener, port, raced>> /\ pc[l] \notin Ended
    BY <1>2, DetectFailsOwn DEF Ended
  <2> QED
    BY <2>1, ClaimsWhileOpen, UnchangedListeners DEF Quiet
<1>4. ASSUME NEW r \in Rank, Answer(l, r)
      PROVE  Quiet(l)
  <2>1. UNCHANGED <<port, raced>> /\ pc[l] \notin Ended
    BY <1>4, AnswerOwn DEF Ended
  <2>2. CASE Runs(l)
    <3>1. PICK state \in {"up", "none"} : SetBoxes(l, {r}, state)
      BY <1>4, <2>2 DEF Answer, RunCarried
    <3>2. state \in Boxes /\ {r} \in SUBSET Rank
      BY States
    <3> QED
      BY <2>1, <3>1, <3>2, SetBoxesPorts, ClaimsWhileOpen DEF Quiet
  <2>3. CASE ~Runs(l)
    BY <1>4, <2>1, <2>3, ExecCarriedPorts, ClaimsWhileOpen DEF Answer, Quiet
  <2> QED
    BY <2>2, <2>3
<1>5. ASSUME NEW r \in Rank, CallFails(l, r)
      PROVE  Quiet(l)
  <2>1. UNCHANGED <<box, listener, port, raced>> /\ pc[l] \notin Ended
    BY <1>5, CallFailsOwn DEF Ended
  <2> QED
    BY <2>1, ClaimsWhileOpen, UnchangedListeners DEF Quiet
<1>6. CASE PhaseEnds(l)
  <2>1. UNCHANGED <<box, listener, port, raced>> /\ pc[l] \notin Ended
    BY <1>6, PhaseEndsOwn DEF Ended
  <2> QED
    BY <2>1, ClaimsWhileOpen, UnchangedListeners DEF Quiet
<1>7. CASE run_pre_serve_hooks(l)
  <2>1. UNCHANGED <<box, listener, port, raced>> /\ pc[l] \notin Ended
    BY <1>7, HooksOwn DEF Ended
  <2> QED
    BY <2>1, ClaimsWhileOpen, UnchangedListeners DEF Quiet
<1>8. CASE ExecHead(l)
  <2>1. UNCHANGED <<port, raced>> /\ pc[l] \notin Ended
    BY <1>8 DEF ExecHead, Ended
  <2>2. CASE ExecCarried(l, 0)
    BY <2>1, <2>2, Ranks, ExecCarriedPorts, ClaimsWhileOpen DEF Quiet
  <2>3. CASE UNCHANGED <<box, listener>>
    BY <2>1, <2>3, UnchangedListeners, ClaimsWhileOpen DEF Quiet
  <2> QED
    BY <1>8, <2>2, <2>3 DEF ExecHead
<1>9. CASE wait_for_port(l)
  <2>1. UNCHANGED <<box, listener, port, raced>> /\ pc[l] = "wait"
    BY <1>9, WaitOwn
  <2> QED
    BY <2>1, ClaimsWhileOpen, UnchangedListeners DEF Quiet, Ended
<1>10. CASE cleanup_after_failure(l)
  <2>1. UNCHANGED <<port, raced>> /\ pc[l] \notin Ended
    BY <1>10 DEF cleanup_after_failure, Cleaning, Ended
  <2>2. CASE l \in noRm
    BY <1>10, <2>1, <2>2, UnchangedListeners, ClaimsWhileOpen DEF cleanup_after_failure, Quiet
  <2>3. CASE l \notin noRm
    <3>1. PICK missed \in SUBSET Targets(l) : SetBoxes(l, Targets(l) \ missed, "none")
      BY <1>10, <2>3 DEF cleanup_after_failure
    <3>2. Targets(l) \in SUBSET Rank
      BY Ranks DEF Targets
    <3>3. PICK ranks \in SUBSET Rank, state \in {"none"} : SetBoxes(l, ranks, state)
      BY <3>1, <3>2
    <3> QED
      BY <2>1, <3>3, States, SetBoxesPorts, ClaimsWhileOpen DEF Quiet
  <2> QED
    BY <2>2, <2>3
<1>11. CASE Interrupt(l)
  <2>1. UNCHANGED <<box, listener, port, raced>> /\ pc[l] \notin Ended
    BY <1>11, InterruptOwn DEF Ended
  <2> QED
    BY <2>1, ClaimsWhileOpen, UnchangedListeners DEF Quiet
<1>12. CASE Bind(l)
  <2> DEFINE state == IF l \in Ray THEN Gone(l) ELSE "lost"
  <2>1. SetBoxes(l, {0}, state) /\ UNCHANGED <<port, raced>> /\ Claims(l)
    BY <1>12 DEF Bind, Claims
  <2>2. state \in Boxes /\ {0} \in SUBSET Rank
    BY Ranks, States
  <2> HIDE DEF state
  <2> QED
    BY <2>1, <2>2, SetBoxesPorts DEF Quiet
<1>13. ASSUME NEW r \in Rank, ServeEnds(l, r)
       PROVE  Quiet(l)
  <2>1. PICK state \in {"lost"} : SetBoxes(l, {r}, state)
    BY <1>13 DEF ServeEnds
  <2>2. state \in Boxes /\ {r} \in SUBSET Rank
    BY States
  <2>3. UNCHANGED <<port, raced, pc, lateRun, lateExec>>
    BY <1>13 DEF ServeEnds
  <2>4. Binding(l, box'[l][0]) => Binding(l, box[l][0])
    BY <1>13, Ranks, ServeEndsOwn DEF Binding, Live
  <2>5. Claims(l)' => Claims(l)
    BY <2>3, <2>4 DEF Claims
  <2> QED
    BY <2>1, <2>2, <2>3, <2>5, SetBoxesPorts DEF Quiet
<1>14. ASSUME NEW r \in Rank, ContainerEnds(l, r)
       PROVE  Quiet(l)
  <2>1. SetBoxes(l, {r}, Gone(l)) /\ Gone(l) \in Boxes /\ {r} \in SUBSET Rank
    BY <1>14, States DEF ContainerEnds
  <2>2. UNCHANGED <<port, raced, pc, lateRun, lateExec>>
    BY <1>14 DEF ContainerEnds
  <2>3. Binding(l, box'[l][0]) => Binding(l, box[l][0])
    BY <1>14, Ranks, ContainerEndsOwn DEF Binding, Live, Gone
  <2>4. Claims(l)' => Claims(l)
    BY <2>2, <2>3 DEF Claims
  <2> QED
    BY <2>1, <2>2, <2>4, SetBoxesPorts DEF Quiet
<1>15. ASSUME NEW r \in Rank, LateRun(l, r)
       PROVE  Quiet(l)
  <2>1. PICK state \in {"stray", "up"} : SetBoxes(l, {r}, state)
    BY <1>15 DEF LateRun
  <2>2. state \in Boxes /\ {r} \in SUBSET Rank
    BY States
  <2>3. UNCHANGED <<port, raced, pc, lateExec>> /\ lateRun'[l] \subseteq lateRun[l] /\ r \in lateRun[l]
    BY <1>15, LateRunOwn
  <2>4. r = 0 \/ box'[l][0] = box[l][0]
    BY <1>15, Ranks, LateRunOwn
  <2>5. Claims(l)' => Claims(l)
    BY <2>3, <2>4 DEF Claims
  <2> QED
    BY <2>1, <2>2, <2>3, <2>5, SetBoxesPorts DEF Quiet
<1>16. ASSUME NEW r \in Rank, LateExec(l, r)
       PROVE  Quiet(l)
  <2>1. UNCHANGED <<port, raced, pc, lateRun>> /\ lateExec'[l] \subseteq lateExec[l] /\ r \in lateExec[l]
    BY <1>16, LateExecOwn
  <2>2. r = 0 \/ box'[l][0] = box[l][0]
    <3>1. ASSUME r # 0, box[l][r] = "up"
          PROVE  box'[l][0] = box[l][0]
      <4>1. PICK state \in {"serving"} : SetBoxes(l, {r}, state)
        BY <1>16, <3>1 DEF LateExec, ExecCarried
      <4>2. state \in Boxes /\ {r} \in SUBSET Rank
        BY States
      <4> QED
        BY <3>1, <4>1, <4>2, Ranks, SetBoxesEffect
    <3> QED
      BY <1>16, <3>1 DEF LateExec, ExecCarried
  <2>3. Claims(l)' => Claims(l)
    BY <2>1, <2>2 DEF Claims
  <2> QED
    BY <1>16, <2>1, <2>3, ExecCarriedPorts DEF LateExec, Quiet
<1> QED
  BY <1>1, <1>2, <1>4, <1>5, <1>6, <1>7, <1>8, <1>9, <1>10, <1>11, <1>12, <1>13,
     <1>14, <1>15, <1>16 DEF Step, Control


(* find_port gives its launch a port: it has raced with every head that    *)
(* claims the port, and those have raced with it.                          *)
LEMMA FindPortKeepsPorts ==
  ASSUME TypeOK, PortInv, NEW l \in Launch, Ported(l), find_port(l)
  PROVE  PortInv'
<1>1. PICK p \in Port :
         /\ port' = [port EXCEPT ![l] = p]
         /\ raced' = [k \in Launch |->
              \/ raced[k]
              \/ k # l /\ port[k] = p /\ Claims(k)
              \/ k = l /\ (p # Scan \/ Unused = {} \/ Rivals(l, p) # {})]
  BY DEF find_port
<1>2. port[l] = 0 /\ listener' = listener /\ box' = box
  BY FindPortOwn DEF Ported
<1>3. \A k \in Launch \ {l} : Same(k) /\ port'[k] = port[k] /\ (Claims(k)' <=> Claims(k))
  <2>1. \A k \in Launch \ {l} : Same(k)
    BY OthersStay DEF Step, Control
  <2> QED
    BY <2>1 DEF Same, Claims
<1>4. port'[l] = p /\ \A k \in Launch : raced[k] => raced'[k]
  BY <1>1 DEF TypeOK
<1>5. ASSUME NEW k \in Launch \ {l}, port[k] = p, Claims(k)
      PROVE  raced'[k]
  BY <1>1, <1>5
<1>6. ASSUME ~raced'[l]
      PROVE  listener[p] = Free /\ Rivals(l, p) = {}
  <2>1. p = Scan /\ Unused # {} /\ Rivals(l, p) = {}
    BY <1>1, <1>6
  <2>2. Unused \in SUBSET Port /\ p = First(Unused)
    BY <2>1 DEF Scan, Unused
  <2>3. p \in Unused
    BY <2>1, <2>2, FirstIsIn
  <2> QED
    BY <2>1, <2>3 DEF Unused
<1>7. ASSUME NEW k \in Launch \ {l}, port[k] = p, Claims(k)
      PROVE  raced'[l]
  <2>1. SUFFICES ASSUME ~raced'[l] PROVE FALSE
    OBVIOUS
  <2>2. listener[p] = Free /\ k \notin Rivals(l, p)
    BY <1>6, <2>1
  <2>3. Free # k
    BY LaunchAssumption
  <2> QED
    BY <1>7, <2>2, <2>3 DEF Rivals
<1>8. ASSUME NEW q \in Port, NEW k \in Launch, listener'[q] = k
      PROVE  port'[k] = q /\ Binding(k, box'[k][0])
  <2>1. port[k] = q /\ Binding(k, box[k][0])
    BY <1>2, <1>8 DEF PortInv
  <2>2. k # l
    BY <1>2, <2>1, LaunchAssumption
  <2> QED
    BY <1>2, <1>3, <2>1, <2>2
<1>9. ASSUME NEW k \in Launch, NEW m \in Launch, k # m, port'[k] = port'[m], Claims(k)', Claims(m)'
      PROVE  raced'[m]
  <2>1. CASE k = l
    BY <1>3, <1>4, <1>5, <1>9, <2>1
  <2>2. CASE m = l
    BY <1>3, <1>4, <1>7, <1>9, <2>2
  <2>3. CASE k # l /\ m # l
    BY <1>3, <1>4, <1>9, <2>3 DEF PortInv
  <2> QED
    BY <2>1, <2>2, <2>3
<1>10. ASSUME NEW k \in Launch, Claims(k)', ~raced'[k]
       PROVE  listener'[port'[k]] \in {Free, k}
  <2>1. CASE k = l
    BY <1>2, <1>4, <1>6, <1>10, <2>1
  <2>2. CASE k # l
    BY <1>2, <1>3, <1>4, <1>10, <2>2 DEF PortInv
  <2> QED
    BY <2>1, <2>2
<1> QED
  BY <1>8, <1>9, <1>10 DEF PortInv

(* A head that opens its port claimed it before.                           *)
LEMMA BindKeepsPorts ==
  ASSUME TypeOK, PortInv, NEW l \in Launch, Bind(l), listener[port[l]] = Free
  PROVE  PortInv'
<1>1. /\ port[l] \in Port /\ Binding(l, box[l][0]) /\ port[l] # 0
      /\ listener'[port[l]] = l
      /\ \A p \in Port \ {port[l]} : listener'[p] = listener[p]
      /\ UNCHANGED <<pc, box, port, lateRun, lateExec, raced>>
  BY BindOwn DEF Bind
<1>2. Claims(l)
  BY <1>1 DEF Claims
<1>3. \A k \in Launch : Claims(k)' <=> Claims(k)
  BY <1>1 DEF Claims
<1>4. ASSUME NEW p \in Port, NEW k \in Launch, listener'[p] = k
      PROVE  port[k] = p /\ Binding(k, box[k][0])
  <2>1. CASE p = port[l]
    BY <1>1, <1>4, <2>1
  <2>2. CASE p # port[l]
    BY <1>1, <1>4, <2>2 DEF PortInv
  <2> QED
    BY <2>1, <2>2
<1>5. ASSUME NEW k \in Launch, Claims(k), ~raced[k]
      PROVE  listener'[port[k]] \in {Free, k}
  <2>1. CASE k = l
    BY <1>1, <2>1
  <2>2. CASE k # l /\ port[k] = port[l]
    BY <1>2, <1>5, <2>2 DEF PortInv
  <2>3. CASE port[k] # port[l]
    <3>1. port[k] \in Port \ {port[l]}
      BY <1>5, <2>3 DEF Claims, TypeOK
    <3> QED
      BY <1>1, <1>5, <3>1 DEF PortInv
  <2> QED
    BY <2>1, <2>2, <2>3
<1> QED
  BY <1>1, <1>3, <1>4, <1>5 DEF PortInv, Binding

LEMMA OtherKeepsPorts ==
  ASSUME TypeOK, PortInv, NEW p \in Port, OtherListens(p)
  PROVE  PortInv'
<1>1. /\ listener' = [listener EXCEPT ![p] = Other]
      /\ raced' = [k \in Launch |-> raced[k] \/ (port[k] = p /\ Claims(k))]
      /\ UNCHANGED <<pc, box, port, lateRun, lateExec>>
  BY DEF OtherListens
<1>2. \A k \in Launch : Claims(k)' <=> Claims(k)
  BY <1>1 DEF Claims
<1>3. listener'[p] = Other /\ \A q \in Port \ {p} : listener'[q] = listener[q]
  BY <1>1 DEF TypeOK
<1>4. ASSUME NEW q \in Port, NEW k \in Launch, listener'[q] = k
      PROVE  port[k] = q /\ Binding(k, box[k][0])
  BY <1>3, <1>4, LaunchAssumption DEF PortInv
<1>5. ASSUME NEW k \in Launch, Claims(k), ~raced'[k]
      PROVE  listener'[port[k]] \in {Free, k}
  <2>1. ~raced[k] /\ port[k] # p
    BY <1>1, <1>5
  <2>2. port[k] \in Port \ {p}
    BY <1>5, <2>1 DEF Claims, TypeOK
  <2> QED
    BY <1>3, <1>5, <2>1, <2>2 DEF PortInv
<1>6. \A k \in Launch : raced[k] => raced'[k]
  BY <1>1
<1>7. ASSUME NEW k \in Launch, NEW m \in Launch, k # m, port[k] = port[m], Claims(k), Claims(m)
      PROVE  raced'[m]
  BY <1>6, <1>7 DEF PortInv
<1> QED
  BY <1>1, <1>2, <1>4, <1>5, <1>7 DEF PortInv, Binding


LEMMA NextKeepsPorts ==
  ASSUME TypeOK, LaunchInv, [Next]_vars
  PROVE  PortInv'
<1>1. CASE UNCHANGED vars
  <2>1. UNCHANGED <<pc, box, port, lateRun, lateExec, raced, listener>>
    BY <1>1 DEF vars
  <2> QED
    BY <2>1 DEF LaunchInv, PortInv, Claims, Binding
<1>2. ASSUME NEW l \in Launch, Step(l)
      PROVE  PortInv'
  <2>1. CASE find_port(l)
    BY <2>1, FindPortKeepsPorts DEF LaunchInv, Sound
  <2>2. CASE Bind(l) /\ listener[port[l]] = Free
    BY <2>2, BindKeepsPorts DEF LaunchInv
  <2>3. CASE ~find_port(l) /\ ~(Bind(l) /\ listener[port[l]] = Free)
    <3>1. Quiet(l)
      BY <1>2, <2>3, QuietSteps DEF LaunchInv
    <3>2. \A k \in Launch \ {l} : Same(k)
      BY <1>2, OthersStay
    <3> QED
      BY <3>1, <3>2, QuietKeepsPorts DEF LaunchInv
  <2> QED
    BY <2>1, <2>2, <2>3
<1>3. ASSUME NEW p \in Port, OtherListens(p)
      PROVE  PortInv'
  BY <1>3, OtherKeepsPorts DEF LaunchInv
<1> QED
  BY <1>1, <1>2, <1>3 DEF Next

(* Launches keep to their order, and the ports to who claims them.         *)
THEOREM LaunchInvariant == Spec => [](TypeOK /\ LaunchInv)
<1>1. Init => PortInv
  BY LaunchAssumption DEF Init, PortInv, Claims
<1>2. Init => TypeOK /\ LaunchInv
  BY <1>1, InitSound DEF LaunchInv
<1>3. (TypeOK /\ LaunchInv) /\ [Next]_vars => (TypeOK /\ LaunchInv)'
  BY NextSound, NextKeepsPorts DEF LaunchInv
<1> QED
  BY <1>2, <1>3, PTL DEF Spec

(* A race that was noticed is never forgotten.                             *)
LEMMA RacedStays ==
  ASSUME TypeOK, PortInv, [Next]_vars, NEW l \in Launch, raced[l]
  PROVE  raced'[l]
<1>1. CASE UNCHANGED vars
  BY <1>1 DEF vars
<1>2. ASSUME NEW k \in Launch, Step(k)
      PROVE  raced'[l]
  <2>1. CASE find_port(k)
    BY <2>1 DEF find_port
  <2>2. CASE Bind(k)
    BY <2>2, BindOwn
  <2>3. CASE ~find_port(k) /\ ~Bind(k)
    BY <1>2, <2>3, QuietSteps DEF Quiet
  <2> QED
    BY <2>1, <2>2, <2>3
<1>3. ASSUME NEW p \in Port, OtherListens(p)
      PROVE  raced'[l]
  BY <1>3 DEF OtherListens
<1> QED
  BY <1>1, <1>2, <1>3 DEF Next

(* The workers are sent to the port of their own head unless the port was  *)
(* raced for: wait_for_port accepts whoever listens, so what saves it is   *)
(* that a launch which waits claims its port, and nobody takes a claimed   *)
(* port without being noticed.                                             *)
THEOREM NeverJoinsStrangers == Spec => []NoForeignRendezvous
<1>1. Init => NoForeignRendezvous
  BY DEF Init, NoForeignRendezvous
<1>2. ASSUME TypeOK, LaunchInv, NoForeignRendezvous, [Next]_vars
      PROVE  NoForeignRendezvous'
  <2>1. \A l \in Launch : raced[l] => raced'[l]
    BY <1>2, RacedStays DEF LaunchInv
  <2>2. ASSUME NEW l \in Launch, joined'[l] # joined[l]
        PROVE  joined'[l] \in {Free, l} \/ raced[l]
    <3>1. joined'[l] = listener[port[l]] /\ Claims(l)
      <4>1. ~UNCHANGED vars
        BY <2>2 DEF vars
      <4>2. ASSUME NEW k \in Launch, Step(k)
            PROVE  wait_for_port(l)
        <5>1. k = l
          BY <1>2, <2>2, <4>2, OthersStay DEF Same
        <5>2. wait_for_port(l) \/ UNCHANGED joined
          BY <4>2, <5>1 DEF Step, Control, CleanupExisting, detect_head_ip_fails, find_port, Answer,
             CallFails, PhaseEnds, run_pre_serve_hooks, ExecHead, cleanup_after_failure, Interrupt,
             Bind, ServeEnds, ContainerEnds, LateRun, LateExec
        <5> QED
          BY <2>2, <5>2
      <4>3. ASSUME NEW p \in Port, OtherListens(p)
            PROVE  FALSE
        BY <2>2, <4>3 DEF OtherListens
      <4>4. wait_for_port(l)
        BY <1>2, <4>1, <4>2, <4>3, <2>2 DEF Next
      <4>5. pc[l] = "wait" /\ (joined' = joined \/ joined'[l] = listener[port[l]])
        BY <1>2, <4>4, WaitOwn
      <4>6. port[l] # 0
        BY <1>2, <4>5 DEF LaunchInv, Sound, Ported, Working
      <4> QED
        BY <2>2, <4>5, <4>6 DEF Claims, Ended
    <3> QED
      BY <1>2, <3>1 DEF LaunchInv, PortInv
  <2> QED
    BY <1>2, <2>1, <2>2 DEF NoForeignRendezvous
<1> QED
  BY <1>1, <1>2, LaunchInvariant, PTL DEF Spec

-----------------------------------------------------------------------------
(* The contract of a start, seen through its refinement mapping.           *)
Outcome(l) == IF pc[l] \in Ended THEN pc[l] ELSE "pending"
Alive(l) == {r \in Rank : box[l][r] \in Live}

Mapped(l) == Outcome(l)' = Outcome(l) /\ Alive(l)' = Alive(l) /\ fallen'[l] = fallen[l]

LEMMA SameMapped ==
  ASSUME NEW k \in Launch, Same(k)
  PROVE  Mapped(k)
BY DEF Same, Mapped, Outcome, Alive

LEMMA KeptIsIn == Kept \subseteq Launch
BY DEF Kept

LEMMA Stutters ==
  ASSUME \A k \in Kept : Mapped(k)
  PROVE  UNCHANGED Contract!vars
BY DEF Contract!vars, Mapped, Outcome, Alive

LEMMA Begins ==
  ASSUME NEW l \in Kept, NEW r \in Rank, \A k \in Kept \ {l} : Mapped(k),
         Outcome(l) # "ok", Outcome(l)' = Outcome(l),
         Alive(l)' = Alive(l) \cup {r}, fallen'[l] = fallen[l] \ {r}
  PROVE  Contract!Next
<1>1. Contract!Begin(l, r)
  BY DEF Contract!Begin, Mapped, Outcome, Alive
<1> QED
  BY <1>1 DEF Contract!Next

LEMMA Falls ==
  ASSUME NEW l \in Kept, NEW r \in Alive(l), \A k \in Kept \ {l} : Mapped(k),
         Outcome(l)' = Outcome(l),
         Alive(l)' = Alive(l) \ {r}, fallen'[l] = fallen[l] \cup {r}
  PROVE  Contract!Next
<1>1. r \in Rank
  BY DEF Alive
<1>2. Contract!Fall(l, r)
  <2> DEFINE outcome == [k \in Kept |-> Outcome(k)]
             live == [k \in Kept |-> Alive(k)]
             fell == [k \in Kept |-> fallen[k]]
  <2>1. outcome' = outcome
    BY DEF Mapped
  <2>2. live' = [live EXCEPT ![l] = @ \ {r}]
    BY DEF Mapped
  <2>3. fell' = [fell EXCEPT ![l] = @ \cup {r}]
    BY DEF Mapped
  <2> QED
    BY <2>1, <2>2, <2>3 DEF Contract!Fall, Outcome, Alive
<1> QED
  BY <1>1, <1>2 DEF Contract!Next

LEMMA CleansOrEnds ==
  ASSUME NEW l \in Kept, \A k \in Kept \ {l} : Mapped(k),
         Outcome(l) = "pending", Outcome(l)' \in {"pending", "failed"},
         Alive(l)' \subseteq Alive(l), fallen'[l] = fallen[l]
  PROVE  Contract!Next
<1>1. Contract!Clean(l)
  <2> DEFINE o == [k \in Kept |-> Outcome(k)]
             v == [k \in Kept |-> Alive(k)]
  <2>1. o' \in {o, [o EXCEPT ![l] = "failed"]}
    BY DEF Mapped
  <2>2. v' = [v EXCEPT ![l] = Alive(l)'] /\ Alive(l)' \in SUBSET v[l]
    BY DEF Mapped
  <2>3. [k \in Kept |-> fallen[k]]' = [k \in Kept |-> fallen[k]]
    BY DEF Mapped
  <2>4. o[l] = "pending"
    OBVIOUS
  <2> QED
    BY <2>1, <2>2, <2>3, <2>4 DEF Contract!Clean, Outcome, Alive
<1> QED
  BY <1>1 DEF Contract!Next

LEMMA Succeeds ==
  ASSUME NEW l \in Kept, \A k \in Kept \ {l} : Mapped(k),
         Outcome(l) = "pending", Outcome(l)' = "ok", Rank \subseteq Alive(l) \cup fallen[l],
         Alive(l)' = Alive(l), fallen'[l] = fallen[l]
  PROVE  Contract!Next
<1>1. Contract!Succeed(l)
  BY DEF Contract!Succeed, Mapped, Outcome, Alive
<1> QED
  BY <1>1 DEF Contract!Next


(* A launch keeps its outcome as long as it goes on.                       *)
LEMMA Open ==
  ASSUME TypeOK, NEW l \in Launch
  PROVE  /\ pc[l] \notin Ended => Outcome(l) = "pending"
         /\ pc'[l] \notin Ended => Outcome(l)' = "pending"
         /\ pc'[l] \in Ended => Outcome(l)' = pc'[l]
BY DEF Outcome

LEMMA ServingIsAlive ==
  ASSUME NEW l \in Launch,
         \A q \in Rank : box'[l][q] = box[l][q] \/ (box[l][q] = "up" /\ box'[l][q] = "serving")
  PROVE  Alive(l)' = Alive(l)
BY DEF Alive, Live

LEMMA StepImplements ==
  ASSUME TypeOK, NEW l \in Kept, LateFails(l), DueStarted(l), Step(l)
  PROVE  Contract!Next \/ UNCHANGED Contract!vars
<1>0. l \in Launch /\ l \notin Refused /\ \A k \in Kept \ {l} : Mapped(k)
  BY KeptIsIn, OthersStay, SameMapped DEF Kept
<1> DEFINE Goal == Contract!Next \/ UNCHANGED Contract!vars
<1>a. ASSUME Mapped(l)
      PROVE  Goal
  BY <1>0, <1>a, Stutters
<1>1. CASE CleanupExisting(l)
  <2>1. Alive(l)' \subseteq Alive(l)
    BY <1>0, <1>1, CleanupExistingOwn DEF Alive, Live
  <2>2. Outcome(l) = "pending" /\ Outcome(l)' = "pending" /\ fallen'[l] = fallen[l]
    BY <1>0, <1>1, CleanupExistingOwn, Open DEF Ended
  <2> QED
    BY <1>0, <2>1, <2>2, CleansOrEnds
<1>2. CASE detect_head_ip_fails(l)
  <2>1. Alive(l)' = Alive(l)
    BY <1>0, <1>2, DetectFailsOwn DEF Alive
  <2>2. Outcome(l) = "pending" /\ Outcome(l)' = "failed" /\ fallen'[l] = fallen[l]
    BY <1>0, <1>2, DetectFailsOwn, Open DEF Ended
  <2> QED
    BY <1>0, <2>1, <2>2, CleansOrEnds
<1>3. CASE find_port(l)
  BY <1>0, <1>a, <1>3, FindPortOwn DEF Mapped, Outcome, Alive, Ended
<1>4. ASSUME NEW r \in Rank, Answer(l, r)
      PROVE  Goal
  <2>1. CASE Runs(l)
    <3>1. /\ pc' = pc /\ pc[l] \notin Ended /\ box'[l][r] = "up" /\ fallen'[l] = fallen[l] \ {r}
          /\ \A q \in Rank \ {r} : box'[l][q] = box[l][q]
      BY <1>0, <1>4, <2>1, AnswerOwn DEF Ended
    <3>2. Alive(l)' = Alive(l) \cup {r}
      BY <3>1 DEF Alive, Live
    <3>3. Outcome(l) = "pending" /\ Outcome(l)' = "pending"
      BY <1>0, <3>1, Open
    <3> QED
      BY <1>0, <3>1, <3>2, <3>3, Begins
  <2>2. CASE ~Runs(l)
    <3>1. pc' = pc /\ fallen' = fallen /\ Alive(l)' = Alive(l)
      BY <1>0, <1>4, <2>2, AnswerOwn, ServingIsAlive
    <3> QED
      BY <1>a, <3>1 DEF Mapped, Outcome
  <2> QED
    BY <2>1, <2>2
<1>5. ASSUME NEW r \in Rank, CallFails(l, r)
      PROVE  Goal
  BY <1>0, <1>a, <1>5, CallFailsOwn DEF Mapped, Outcome, Alive
<1>6. CASE PhaseEnds(l)
  <2>1. /\ Alive(l)' = Alive(l) /\ fallen'[l] = fallen[l]
        /\ pc[l] \in {"run", "workers"} /\ todo[l] = {} /\ Outcome(l) = "pending"
    BY <1>0, <1>6, PhaseEndsOwn, Open DEF Alive, Ended
  <2>2. CASE pc'[l] \notin Ended
    BY <1>0, <1>a, <2>1, <2>2, Open DEF Mapped
  <2>3. CASE pc'[l] = "failed"
    <3>1. Outcome(l)' = "failed"
      BY <1>0, <2>3, Open DEF Ended
    <3> QED
      BY <1>0, <2>1, <3>1, CleansOrEnds
  <2>4. CASE pc'[l] = "ok"
    <3>1. pc[l] = "workers" /\ l \notin Ray
      BY <1>0, <1>6, <2>4, PhaseEndsOwn
    <3>2. Rank \subseteq Alive(l) \cup fallen[l]
      BY <1>0, <3>1 DEF DueStarted, Due, Started, Runs, Alive, Cleaning
    <3>3. Outcome(l)' = "ok"
      BY <1>0, <2>4, Open DEF Ended
    <3> QED
      BY <1>0, <2>1, <3>2, <3>3, Succeeds
  <2> QED
    BY <2>2, <2>3, <2>4 DEF Ended
<1>7. CASE run_pre_serve_hooks(l)
  <2>1. /\ Alive(l)' = Alive(l) /\ fallen'[l] = fallen[l] /\ pc'[l] \in {"exec", "failed"}
        /\ Outcome(l) = "pending"
    BY <1>0, <1>7, HooksOwn, Open DEF Alive, Ended
  <2>2. Outcome(l)' \in {"pending", "failed"}
    BY <1>0, <2>1, Open DEF Ended
  <2> QED
    BY <1>0, <2>1, <2>2, CleansOrEnds
<1>8. CASE ExecHead(l)
  <2>1. /\ Alive(l)' = Alive(l) /\ fallen'[l] = fallen[l] /\ pc[l] = "exec"
        /\ Outcome(l) = "pending"
    BY <1>0, <1>8, ExecHeadOwn, ServingIsAlive, Open DEF Ended
  <2>2. pc'[l] \in {"ok", "wait", "cleanAll"}
    BY <1>0, <1>8, ExecHeadOwn
  <2>3. CASE pc'[l] # "ok"
    <3>1. Outcome(l)' = "pending"
      BY <1>0, <2>2, <2>3, Open DEF Ended
    <3> QED
      BY <1>a, <2>1, <3>1 DEF Mapped
  <2>4. CASE pc'[l] = "ok"
    <3>1. Rank \subseteq Alive(l) \cup fallen[l]
      BY <1>0, <2>1 DEF DueStarted, Due, Started, Runs, Alive, Cleaning
    <3>2. Outcome(l)' = "ok"
      BY <1>0, <2>4, Open DEF Ended
    <3> QED
      BY <1>0, <2>1, <3>1, <3>2, Succeeds
  <2> QED
    BY <2>3, <2>4
<1>9. CASE wait_for_port(l)
  <2>1. /\ pc[l] = "wait" /\ pc'[l] \in {"wait", "workers", "cleanHead", "cleanAll"}
        /\ UNCHANGED <<box, fallen>>
    BY <1>0, <1>9, WaitOwn
  <2> QED
    BY <1>a, <2>1 DEF Mapped, Outcome, Alive, Ended
<1>10. CASE cleanup_after_failure(l)
  <2>1. Alive(l)' \subseteq Alive(l)
    BY <1>0, <1>10, CleanUpOwn DEF Alive, Live
  <2>2. Outcome(l) = "pending" /\ Outcome(l)' = "failed" /\ fallen'[l] = fallen[l]
    BY <1>0, <1>10, CleanUpOwn, Open DEF Ended, Cleaning
  <2> QED
    BY <1>0, <2>1, <2>2, CleansOrEnds
<1>11. CASE Interrupt(l)
  <2>1. Alive(l)' = Alive(l)
    BY <1>0, <1>11, InterruptOwn DEF Alive
  <2>2. Outcome(l) = "pending" /\ Outcome(l)' = "failed" /\ fallen'[l] = fallen[l]
    BY <1>0, <1>11, InterruptOwn, Open DEF Ended
  <2> QED
    BY <1>0, <2>1, <2>2, CleansOrEnds
<1>12. CASE Bind(l)
  <2>1. pc' = pc /\ Outcome(l)' = Outcome(l)
    BY <1>0, <1>12, BindOwn DEF Outcome
  <2>2. CASE UNCHANGED <<box, fallen>>
    BY <1>a, <2>1, <2>2 DEF Mapped, Alive
  <2>3. CASE ~UNCHANGED <<box, fallen>> /\ l \in Ray
    <3>1. /\ box[l][0] \in Live /\ box'[l][0] = Gone(l) /\ fallen'[l] = fallen[l] \cup {0}
          /\ \A q \in Rank \ {0} : box'[l][q] = box[l][q]
      BY <1>0, <1>12, <2>3, BindOwn, Ranks DEF Binding
    <3>2. 0 \in Alive(l) /\ Alive(l)' = Alive(l) \ {0}
      BY <1>0, <3>1, Ranks, States DEF Alive
    <3> QED
      BY <1>0, <2>1, <3>1, <3>2, Falls
  <2>4. CASE ~UNCHANGED <<box, fallen>> /\ l \notin Ray
    <3>1. /\ box[l][0] = "serving" /\ box'[l][0] = "lost" /\ fallen'[l] = fallen[l]
          /\ \A q \in Rank \ {0} : box'[l][q] = box[l][q]
      BY <1>0, <1>12, <2>4, BindOwn, Ranks DEF Binding
    <3>2. Alive(l)' = Alive(l)
      BY <3>1 DEF Alive, Live
    <3> QED
      BY <1>a, <2>1, <3>1, <3>2 DEF Mapped
  <2> QED
    BY <2>2, <2>3, <2>4
<1>13. ASSUME NEW r \in Rank, ServeEnds(l, r)
       PROVE  Goal
  <2>1. Alive(l)' = Alive(l) /\ pc' = pc /\ fallen' = fallen
    BY <1>0, <1>13, ServeEndsOwn DEF Alive, Live
  <2> QED
    BY <1>a, <2>1 DEF Mapped, Outcome
<1>14. ASSUME NEW r \in Rank, ContainerEnds(l, r)
       PROVE  Goal
  <2>1. /\ box[l][r] \in Live /\ box'[l][r] \notin Live /\ fallen'[l] = fallen[l] \cup {r}
        /\ \A q \in Rank \ {r} : box'[l][q] = box[l][q]
    BY <1>0, <1>14, ContainerEndsOwn, States
  <2>2. r \in Alive(l) /\ Alive(l)' = Alive(l) \ {r}
    BY <2>1 DEF Alive
  <2>3. Outcome(l)' = Outcome(l)
    BY <1>0, <1>14, ContainerEndsOwn DEF Outcome
  <2> QED
    BY <1>0, <2>1, <2>2, <2>3, Falls
<1>15. ASSUME NEW r \in Rank, LateRun(l, r)
       PROVE  Goal
  <2>1. /\ pc' = pc /\ r \in lateRun[l] /\ box'[l][r] \in {"stray", "up"}
        /\ fallen'[l] = fallen[l] \ {r}
        /\ \A q \in Rank \ {r} : box'[l][q] = box[l][q]
    BY <1>0, <1>15, LateRunOwn
  <2>2. Alive(l)' = Alive(l) \cup {r}
    BY <2>1 DEF Alive, Live
  <2>3. Outcome(l)' = Outcome(l) /\ Outcome(l) # "ok"
    BY <2>1 DEF Outcome, LateFails, Cleaning
  <2> QED
    BY <1>0, <2>1, <2>2, <2>3, Begins
<1>16. ASSUME NEW r \in Rank, LateExec(l, r)
       PROVE  Goal
  <2>1. Alive(l)' = Alive(l) /\ pc' = pc /\ fallen' = fallen
    BY <1>0, <1>16, LateExecOwn, ServingIsAlive
  <2> QED
    BY <1>a, <2>1 DEF Mapped, Outcome
<1> QED
  BY <1>1, <1>2, <1>3, <1>4, <1>5, <1>6, <1>7, <1>8, <1>9, <1>10, <1>11, <1>12, <1>13, <1>14,
     <1>15, <1>16 DEF Step, Control

(* The start of the containers keeps the contract of a start: a docker run *)
(* that timed out belongs to a launch that is going to fail, so nothing    *)
(* starts after a success; and every way to success has waited for every   *)
(* rank, since a Ray launch skips the workers only until it has found its  *)
(* head.                                                                   *)
THEOREM KeepsTheContract == Spec => ImplementsContract
<1>1. Init => Contract!Init
  BY KeptIsIn, Ranks DEF Init, Contract!Init, Ended, Live
<1>2. ASSUME TypeOK, LaunchInv, [Next]_vars
      PROVE  Contract!Next \/ UNCHANGED Contract!vars
  <2>1. CASE UNCHANGED vars
    <3>1. \A k \in Launch : Same(k)
      BY <2>1 DEF vars, Same
    <3> QED
      BY <3>1, KeptIsIn, SameMapped, Stutters
  <2>2. ASSUME NEW l \in Launch, Step(l)
        PROVE  Contract!Next \/ UNCHANGED Contract!vars
    <3>1. CASE l \in Kept
      BY <1>2, <2>2, <3>1, StepImplements DEF LaunchInv, Sound
    <3>2. CASE l \notin Kept
      <4>1. \A k \in Kept : Same(k)
        BY <1>2, <2>2, <3>2, KeptIsIn, OthersStay
      <4> QED
        BY <4>1, KeptIsIn, SameMapped, Stutters
    <3> QED
      BY <3>1, <3>2
  <2>3. ASSUME NEW p \in Port, OtherListens(p)
        PROVE  UNCHANGED Contract!vars
    BY <2>3, OtherListensSame, KeptIsIn, SameMapped, Stutters
  <2> QED
    BY <1>2, <2>1, <2>2, <2>3 DEF Next
<1> QED
  BY <1>1, <1>2, LaunchInvariant, PTL DEF Spec, ImplementsContract, Contract!Spec
=============================================================================
