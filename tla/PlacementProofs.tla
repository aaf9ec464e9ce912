-------------------------- MODULE PlacementProofs --------------------------
(***************************************************************************)
(* Theorems about where deployments land, for any hosts, accelerators,     *)
(* recipes, workloads, schedulers and faults.                              *)
(***************************************************************************)
EXTENDS Placement, FiniteSetTheorems, SequenceTheorems, WellFoundedInduction, TLAPS

-----------------------------------------------------------------------------
(* The numbers from 1 to n. *)
LEMMA Interval ==
  ASSUME NEW n \in Nat
  PROVE  IsFiniteSet(1 .. n) /\ Cardinality(1 .. n) = n
<1>1. 1 \in Int /\ n \in Int
  OBVIOUS
<1>2. IsFiniteSet(1 .. n) /\ Cardinality(1 .. n) = IF 1 > n THEN 0 ELSE n - 1 + 1
  BY <1>1, FS_Interval
<1> QED
  BY <1>2

(* Induction over numbers, in the form of a set that has a least member.   *)
LEMMA LeastExists ==
  ASSUME NEW S \in SUBSET Nat, S # {}
  PROVE  \E i \in S : \A k \in S : i <= k
<1> DEFINE Less == {pair \in Nat \X Nat : pair[1] < pair[2]}
<1>1. IsWellFoundedOn(Less, Nat)
  BY NatLessThanWellFounded DEF OpToRel
<1>2. PICK i \in S : \A k \in S : <<k, i>> \notin Less
  BY <1>1, WFMin
<1>3. ASSUME NEW k \in S
      PROVE  i <= k
  <2>1. k < i => <<k, i>> \in Less
    OBVIOUS
  <2> QED
    BY <1>2, <2>1
<1> QED
  BY <1>3

LEMMA UpTo ==
  ASSUME NEW n \in Nat, NEW S, 0 \in S, \A i \in 1 .. n : i - 1 \in S => i \in S
  PROVE  0 .. n \subseteq S
<1> SUFFICES ASSUME (0 .. n) \ S # {}
             PROVE  FALSE
  OBVIOUS
<1>1. PICK i \in (0 .. n) \ S : \A k \in (0 .. n) \ S : i <= k
  <2>1. (0 .. n) \ S \in SUBSET Nat
    OBVIOUS
  <2> QED
    BY <2>1, LeastExists
<1>2. i \in 1 .. n /\ i - 1 \in 0 .. n
  BY <1>1
<1>3. i - 1 \in S
  BY <1>1, <1>2
<1> QED
  BY <1>1, <1>2, <1>3

(* Stepping along 1 .. n with a function: the steps exist. *)
StepsAlong(F, D, n, d, f) ==
    f \in [0 .. n -> D] /\ f[0] = d /\ \A i \in 1 .. n : f[i] = F[<<f[i - 1], i>>]

LEMMA Steps ==
  ASSUME NEW D, NEW n \in Nat, NEW d \in D, NEW F \in [D \X (1 .. n) -> D]
  PROVE  \E f : StepsAlong(F, D, n, d, f)
<1> DEFINE Good(m, f) == f[0] = d /\ \A i \in 1 .. m : f[i] = F[<<f[i - 1], i>>]
           S == {m \in 0 .. n : \E f \in [0 .. m -> D] : Good(m, f)}
<1>1. 0 \in S
  <2>1. [i \in 0 .. 0 |-> d] \in [0 .. 0 -> D] /\ Good(0, [i \in 0 .. 0 |-> d])
    OBVIOUS
  <2> HIDE DEF Good
  <2> QED
    BY <2>1
<1>2. ASSUME NEW m \in 1 .. n, m - 1 \in S
      PROVE  m \in S
  <2>1. PICK f \in [0 .. m - 1 -> D] : Good(m - 1, f)
    BY <1>2
  <2> DEFINE g == [i \in 0 .. m |-> IF i = m THEN F[<<f[m - 1], m>>] ELSE f[i]]
  <2>2. m - 1 \in 0 .. m - 1 /\ f[m - 1] \in D /\ F[<<f[m - 1], m>>] \in D
    OBVIOUS
  <2>3. g \in [0 .. m -> D]
    BY <2>2
  <2>4. \A i \in 0 .. m - 1 : g[i] = f[i]
    OBVIOUS
  <2>5. g[m] = F[<<g[m - 1], m>>] /\ g[0] = d
    <3>1. g[m] = F[<<f[m - 1], m>>]
      OBVIOUS
    <3>2. g[m - 1] = f[m - 1]
      BY <2>2, <2>4
    <3>3. g[0] = f[0] /\ f[0] = d
      <4>1. 0 \in 0 .. m - 1
        OBVIOUS
      <4> HIDE DEF g
      <4> QED
        BY <2>1, <2>4, <4>1
    <3> QED
      BY <3>1, <3>2, <3>3
  <2>6. ASSUME NEW i \in 1 .. m
        PROVE  g[i] = F[<<g[i - 1], i>>]
    <3>1. CASE i = m
      BY <2>5, <3>1
    <3>2. CASE i # m
      <4>1. i \in 1 .. m - 1 /\ i - 1 \in 0 .. m - 1 /\ i \in 0 .. m - 1
        BY <3>2
      <4> QED
        BY <2>1, <2>4, <4>1
    <3> QED
      BY <3>1, <3>2
  <2>7. Good(m, g)
    BY <2>5, <2>6
  <2> HIDE DEF g, Good
  <2> QED
    BY <2>3, <2>7
<1>3. 0 .. n \subseteq S
  <2> HIDE DEF S
  <2> QED
    BY <1>1, <1>2, UpTo
<1>4. n \in S
  <2> HIDE DEF S
  <2> QED
    BY <1>3
<1> QED
  BY <1>4 DEF StepsAlong

(* A rank counts the members before it: no two have the same, and every    *)
(* number is one's rank.                                                   *)
Precede(S, before) ==
    /\ IsFiniteSet(S) /\ before \in [S -> SUBSET S]
    /\ \A x \in S : x \notin before[x]
    /\ \A x, y \in S : x \in before[y] => before[x] \subseteq before[y]
    /\ \A x, y \in S : x # y => x \in before[y] \/ y \in before[x]

RanksOf(S, before, rank) ==
    /\ rank \in [S -> 1 .. Cardinality(S)]
    /\ \A x, y \in S : x # y => rank[x] # rank[y]
    /\ \A k \in 1 .. Cardinality(S) : \E x \in S : rank[x] = k
    /\ \A x \in S : Cardinality(before[x]) = rank[x] - 1

LEMMA Ranks ==
  ASSUME NEW S, NEW before, Precede(S, before)
  PROVE  \E rank : RanksOf(S, before, rank)
<1> USE DEF Precede
<1> DEFINE rank == [x \in S |-> Cardinality(before[x]) + 1]
<1>1. Cardinality(S) \in Nat
  BY FS_CardinalityType
<1>2. ASSUME NEW x \in S
      PROVE  /\ IsFiniteSet(before[x]) /\ Cardinality(before[x]) \in Nat
             /\ Cardinality(before[x] \cup {x}) = Cardinality(before[x]) + 1
             /\ Cardinality(before[x]) + 1 <= Cardinality(S)
             /\ rank[x] = Cardinality(before[x]) + 1
  <2>1. before[x] \in SUBSET S /\ before[x] \cup {x} \in SUBSET S
    OBVIOUS
  <2>3. IsFiniteSet(before[x])
    BY <2>1, FS_Subset
  <2>4. Cardinality(before[x] \cup {x}) = Cardinality(before[x]) + 1
    BY <2>3, FS_AddElement
  <2>5. Cardinality(before[x]) \in Nat
    BY <2>3, FS_CardinalityType
  <2>6. Cardinality(before[x] \cup {x}) <= Cardinality(S)
    BY <2>1, FS_Subset
  <2>7. rank[x] = Cardinality(before[x]) + 1
    OBVIOUS
  <2> QED
    BY <2>3, <2>4, <2>5, <2>6, <2>7
<1> HIDE DEF rank
<1>3. ASSUME NEW x \in S, NEW y \in S, x \in before[y]
      PROVE  rank[x] < rank[y]
  <2>1. before[x] \cup {x} \in SUBSET before[y]
    BY <1>3
  <2>2. Cardinality(before[x] \cup {x}) <= Cardinality(before[y])
    BY <1>2, <2>1, FS_Subset
  <2>3. /\ Cardinality(before[x]) \in Nat /\ Cardinality(before[y]) \in Nat
        /\ Cardinality(before[x] \cup {x}) = Cardinality(before[x]) + 1
        /\ rank[x] = Cardinality(before[x]) + 1 /\ rank[y] = Cardinality(before[y]) + 1
    BY <1>2
  <2> QED
    BY <2>2, <2>3
<1>4. ASSUME NEW x \in S, NEW y \in S, x # y
      PROVE  rank[x] # rank[y]
  <2>2. /\ Cardinality(before[x]) \in Nat /\ Cardinality(before[y]) \in Nat
        /\ rank[x] = Cardinality(before[x]) + 1 /\ rank[y] = Cardinality(before[y]) + 1
    BY <1>2
  <2>3. CASE x \in before[y]
    <3>1. rank[x] < rank[y]
      BY <1>3, <2>3
    <3> QED
      BY <2>2, <3>1
  <2>4. CASE y \in before[x]
    <3>1. rank[y] < rank[x]
      BY <1>3, <2>4
    <3> QED
      BY <2>2, <3>1
  <2> QED
    BY <1>4, <2>3, <2>4
<1>5. rank \in [S -> 1 .. Cardinality(S)]
  <2> USE DEF rank
  <2>1. ASSUME NEW x \in S
        PROVE  Cardinality(before[x]) + 1 \in 1 .. Cardinality(S)
    <3>1. Cardinality(before[x]) \in Nat /\ Cardinality(before[x]) + 1 <= Cardinality(S)
      BY <1>2
    <3> QED
      BY <1>1, <3>1
  <2> QED
    BY <2>1
<1>6. \A k \in 1 .. Cardinality(S) : \E x \in S : rank[x] = k
  <2>1. rank \in Injection(S, 1 .. Cardinality(S))
    BY <1>4, <1>5 DEF Injection, IsInjective
  <2>2. IsFiniteSet(1 .. Cardinality(S)) /\ Cardinality(1 .. Cardinality(S)) = Cardinality(S)
    BY <1>1, FS_Interval
  <2>3. rank \in Surjection(S, 1 .. Cardinality(S))
    BY <2>1, <2>2, FS_Injection
  <2> QED
    BY <2>3 DEF Surjection
<1>7. \A x \in S : Cardinality(before[x]) = rank[x] - 1
  <2> SUFFICES ASSUME NEW x \in S
               PROVE  Cardinality(before[x]) = rank[x] - 1
    OBVIOUS
  <2>1. Cardinality(before[x]) \in Nat /\ rank[x] = Cardinality(before[x]) + 1
    BY <1>2
  <2> QED
    BY <2>1
<1>8. RanksOf(S, before, rank)
  BY <1>4, <1>5, <1>6, <1>7 DEF RanksOf
<1> QED
  BY <1>8

(* Sorting changes the order and nothing else. *)
LEMMA SortedIs ==
  ASSUME NEW S \in SUBSET Nat, IsFiniteSet(S), NEW key \in [S -> Int]
  PROVE  /\ Cardinality(S) \in Nat
         /\ Sorted(S, key) \in [1 .. Cardinality(S) -> S]
         /\ IsInjective(Sorted(S, key))
         /\ \A x \in S : \E k \in 1 .. Cardinality(S) : Sorted(S, key)[k] = x
<1> DEFINE Before(x) == {y \in S : key[y] < key[x] \/ (key[y] = key[x] /\ y < x)}
<1>1. PICK before \in [S -> SUBSET S] : \A x \in S : before[x] = Before(x)
  <2>1. [x \in S |-> Before(x)] \in [S -> SUBSET S]
    OBVIOUS
  <2> QED
    BY <2>1
<1>2. /\ \A x \in S : x \notin before[x]
      /\ \A x, y \in S : x # y => x \in before[y] \/ y \in before[x]
  <2>1. \A x \in S : key[x] \in Int /\ x \in Nat
    OBVIOUS
  <2> QED
    BY <1>1, <2>1
<1>3. \A x, y \in S : x \in before[y] => before[x] \subseteq before[y]
  <2> SUFFICES ASSUME NEW x \in S, NEW y \in S, x \in before[y], NEW z \in before[x]
               PROVE  z \in before[y]
    OBVIOUS
  <2>1. z \in S /\ (key[z] < key[x] \/ (key[z] = key[x] /\ z < x))
    BY <1>1
  <2>2. key[x] < key[y] \/ (key[x] = key[y] /\ x < y)
    BY <1>1
  <2>3. key[x] \in Int /\ key[y] \in Int /\ key[z] \in Int /\ x \in Nat /\ y \in Nat /\ z \in Nat
    BY <2>1
  <2>4. key[z] < key[y] \/ (key[z] = key[y] /\ z < y)
    BY <2>1, <2>2, <2>3
  <2> QED
    BY <1>1, <2>1, <2>4
<1>4. Cardinality(S) \in Nat
  BY FS_CardinalityType
<1>5. PICK rank : RanksOf(S, before, rank)
  <2> HIDE DEF Before
  <2>1. Precede(S, before)
    BY <1>1, <1>2, <1>3 DEF Precede
  <2> QED
    BY <2>1, Ranks
<1> USE DEF RanksOf
<1>6. \A k \in 1 .. Cardinality(S) :
        Sorted(S, key)[k] = CHOOSE x \in S : Cardinality(Before(x)) = k - 1
  BY DEF Sorted
<1>7. DOMAIN Sorted(S, key) = 1 .. Cardinality(S)
  BY DEF Sorted
<1> HIDE DEF Before
<1>8. ASSUME NEW k \in 1 .. Cardinality(S)
      PROVE  Sorted(S, key)[k] \in S /\ rank[Sorted(S, key)[k]] = k
  <2>1. PICK x \in S : rank[x] = k
    BY <1>5
  <2>2. Cardinality(Before(x)) = k - 1
    BY <1>1, <1>5, <2>1
  <2>3. Sorted(S, key)[k] \in S /\ Cardinality(Before(Sorted(S, key)[k])) = k - 1
    BY <1>6, <2>2
  <2>4. Cardinality(before[Sorted(S, key)[k]]) = k - 1 /\ rank[Sorted(S, key)[k]] \in 1 .. Cardinality(S)
    BY <1>1, <1>5, <2>3
  <2>5. rank[Sorted(S, key)[k]] - 1 = k - 1
    BY <1>5, <2>3, <2>4
  <2> QED
    BY <1>4, <2>3, <2>4, <2>5
<1>9. Sorted(S, key) \in [1 .. Cardinality(S) -> S]
  <2> DEFINE at(k) == CHOOSE x \in S : Cardinality(Before(x)) = k - 1
  <2>1. Sorted(S, key) = [k \in 1 .. Cardinality(S) |-> at(k)]
    BY DEF Sorted, Before
  <2> HIDE DEF at
  <2> QED
    BY <1>8, <2>1
<1>10. IsInjective(Sorted(S, key))
  BY <1>8, <1>9 DEF IsInjective
<1>11. ASSUME NEW x \in S
      PROVE  \E k \in 1 .. Cardinality(S) : Sorted(S, key)[k] = x
  <2>1. rank[x] \in 1 .. Cardinality(S)
    BY <1>5
  <2> QED
    BY <1>5, <1>8, <2>1
<1> QED
  BY <1>4, <1>9, <1>10, <1>11

-----------------------------------------------------------------------------
(* The constants, in the form in which the steps use them. *)
LEMMA ConstantFacts ==
  /\ Hosts \in Seq(Host) /\ Len(Hosts) \in Nat /\ DOMAIN Hosts = 1 .. Len(Hosts)
  /\ \A i \in 1 .. Len(Hosts) : Hosts[i] \in Host
  /\ \A h \in Host : \E i \in 1 .. Len(Hosts) : Hosts[i] = h
  /\ \A i, j \in 1 .. Len(Hosts) : Hosts[i] = Hosts[j] => i = j
  /\ \A h \in Host : /\ Gpus[h] \in Seq(Nat) /\ Len(Gpus[h]) \in Nat
                     /\ DOMAIN Gpus[h] = 1 .. Len(Gpus[h])
                     /\ \A g \in DOMAIN Gpus[h] : Gpus[h][g] \in Nat
<1>1. /\ Hosts \in Seq(Host) /\ Len(Hosts) \in Nat /\ DOMAIN Hosts = 1 .. Len(Hosts)
      /\ \A i \in 1 .. Len(Hosts) : Hosts[i] \in Host
  BY PlacementAssumption
<1>2. \A h \in Host : \E i \in 1 .. Len(Hosts) : Hosts[i] = h
  BY <1>1 DEF Host, Range
<1>3. \A i, j \in 1 .. Len(Hosts) : Hosts[i] = Hosts[j] => i = j
  BY <1>1, PlacementAssumption DEF IsInjective
<1>4. ASSUME NEW h \in Host
      PROVE  /\ Gpus[h] \in Seq(Nat) /\ Len(Gpus[h]) \in Nat
             /\ DOMAIN Gpus[h] = 1 .. Len(Gpus[h])
             /\ \A g \in DOMAIN Gpus[h] : Gpus[h][g] \in Nat
  <2>1. Gpus[h] \in Seq(Nat)
    BY PlacementAssumption
  <2> QED
    BY <2>1
<1> QED
  BY <1>1, <1>2, <1>3, <1>4

LEMMA SlotIs ==
  /\ \A h \in Host : \A g \in DOMAIN Gpus[h] : <<h, g>> \in Slot
  /\ \A s \in Slot : /\ s[1] \in Host /\ s[2] \in DOMAIN Gpus[s[1]] /\ s = <<s[1], s[2]>>
<1>1. ASSUME NEW h \in Host, NEW g \in DOMAIN Gpus[h]
      PROVE  <<h, g>> \in Slot
  BY DEF Slot
<1>2. ASSUME NEW s \in Slot
      PROVE  s[1] \in Host /\ s[2] \in DOMAIN Gpus[s[1]] /\ s = <<s[1], s[2]>>
  <2>1. PICK h \in Host : \E g \in DOMAIN Gpus[h] : s = <<h, g>>
    BY DEF Slot
  <2> QED
    BY <2>1
<1> QED
  BY <1>1, <1>2

(* What a question to the schedulers looks like. *)
IsAsk(ask) ==
    /\ ask.total \in Nat /\ ask.need \in Nat /\ ask.by \in {"greedy", "sparse", "dense"}
    /\ ask.used \in [Host -> Nat]

LEMMA AskIs ==
  ASSUME NEW total \in Nat, NEW need \in Nat, NEW by \in {"greedy", "sparse", "dense"},
         NEW used \in [Host -> Nat]
  PROVE  /\ IsAsk(Ask(total, need, by, used))
         /\ Ask(total, need, by, used).total = total
         /\ Ask(total, need, by, used).need = need
         /\ Ask(total, need, by, used).by = by
         /\ Ask(total, need, by, used).used = used
BY DEF IsAsk, Ask

(* A scheduler takes the accelerators a rank may get, each of them once. *)
LEMMA PreferredIs ==
  ASSUME NEW ask, IsAsk(ask), NEW h \in Host
  PROVE  /\ Free(ask, h) \subseteq DOMAIN Gpus[h]
         /\ Preferred(ask.by, h, Free(ask, h)) \in Seq(Free(ask, h))
         /\ IsInjective(Preferred(ask.by, h, Free(ask, h)))
         /\ \A g \in Free(ask, h) : \E k \in DOMAIN Preferred(ask.by, h, Free(ask, h)) :
              Preferred(ask.by, h, Free(ask, h))[k] = g
<1> DEFINE S == Free(ask, h)
           key == [g \in S |-> CASE ask.by = "sparse" -> -Gpus[h][g]
                                 [] ask.by = "dense"  -> Gpus[h][g]
                                 [] ask.by = "greedy" -> 0]
<1>1. S \subseteq DOMAIN Gpus[h]
  BY DEF Free, Eligible
<1>2. S \in SUBSET Nat /\ IsFiniteSet(S)
  <2>1. DOMAIN Gpus[h] = 1 .. Len(Gpus[h]) /\ Len(Gpus[h]) \in Nat
    BY ConstantFacts
  <2>2. IsFiniteSet(1 .. Len(Gpus[h]))
    BY <2>1, FS_Interval
  <2> HIDE DEF S
  <2>3. S \in SUBSET (1 .. Len(Gpus[h]))
    BY <1>1, <2>1
  <2> QED
    BY <2>1, <2>2, <2>3, FS_Subset
<1>3. key \in [S -> Int]
  <2>1. \A g \in S : Gpus[h][g] \in Nat
    BY <1>1, ConstantFacts
  <2> HIDE DEF S
  <2> QED
    BY <2>1 DEF IsAsk
<1>4. Preferred(ask.by, h, S) = Sorted(S, key)
  BY DEF Preferred
<1> HIDE DEF S, key
<1>5. /\ Cardinality(S) \in Nat
      /\ Sorted(S, key) \in [1 .. Cardinality(S) -> S]
      /\ IsInjective(Sorted(S, key))
      /\ \A x \in S : \E k \in 1 .. Cardinality(S) : Sorted(S, key)[k] = x
  BY <1>2, <1>3, SortedIs
<1>6. Preferred(ask.by, h, S) \in Seq(S) /\ DOMAIN Preferred(ask.by, h, S) = 1 .. Cardinality(S)
  BY <1>4, <1>5, IsASeq
<1>7. /\ S \subseteq DOMAIN Gpus[h]
      /\ Preferred(ask.by, h, S) \in Seq(S)
      /\ IsInjective(Preferred(ask.by, h, S))
      /\ \A g \in S : \E k \in DOMAIN Preferred(ask.by, h, S) : Preferred(ask.by, h, S)[k] = g
  BY <1>1, <1>4, <1>5, <1>6
<1> QED
  BY <1>7 DEF S

LEMMA TakeIs ==
  ASSUME NEW X, NEW seq \in Seq(X), NEW n \in Nat
  PROVE  /\ Take(seq, n) \in Seq(X)
         /\ Len(Take(seq, n)) = (IF n < Len(seq) THEN n ELSE Len(seq))
         /\ \A i \in 1 .. Len(Take(seq, n)) : i \in 1 .. Len(seq) /\ Take(seq, n)[i] = seq[i]
BY DEF Take

-----------------------------------------------------------------------------
(* What is known of the hosts that have been seen: a rank is on a host     *)
(* whose free accelerators are known, on one of them and alone there; as   *)
(* long as a rank is left, all of them are taken; and hosts of one vendor  *)
(* leave no conflict.                                                      *)
FillState(ask) ==
    [verdict : {"ok", "conflict"}, slots : {q \in Seq(Slot) : Len(q) <= ask.total},
     hosts : Seq(Host), vendors : SUBSET {vendor[h] : h \in Host}, ambiguous : BOOLEAN]

Chosen(ask, h) ==
    /\ vendor[h] # Mixed /\ ~_is_ambiguous_host_level(h, ask.used[h])
    /\ Free(ask, h) # {}

OnChosen(ask, seen, s) ==
    /\ \A k \in DOMAIN s.hosts : s.hosts[k] \in seen /\ Chosen(ask, s.hosts[k])
    /\ \A k \in DOMAIN s.slots : /\ s.slots[k][2] \in Free(ask, s.slots[k][1])
                                 /\ \E j \in DOMAIN s.hosts : s.hosts[j] = s.slots[k][1]
    /\ s.slots = <<>> => s.hosts = <<>>
    /\ s.slots # <<>> => s.hosts # <<>> /\ s.slots[1][1] = s.hosts[1]

Alone(s) == \A i, j \in DOMAIN s.slots : i # j => s.slots[i] # s.slots[j]

AllTaken(ask, seen, s) ==
    s.verdict = "ok" /\ Len(s.slots) < ask.total =>
        \A h \in seen : \/ _is_ambiguous_host_level(h, ask.used[h])
                        \/ \A g \in Free(ask, h) : \E k \in DOMAIN s.slots : s.slots[k] = <<h, g>>

Uniform == \A h, g \in Host : vendor[h] # Mixed /\ vendor[h] = vendor[g]

Filling(ask, seen, s) ==
    /\ OnChosen(ask, seen, s) /\ Alone(s) /\ AllTaken(ask, seen, s)
    /\ Uniform => s.verdict = "ok"

LEMMA FillingStarts ==
  ASSUME NEW ask, IsAsk(ask)
  PROVE  Unfilled \in FillState(ask) /\ Filling(ask, {}, Unfilled)
BY DEF IsAsk, Unfilled, FillState, Filling, OnChosen, Alone, AllTaken

(* The ranks that are added. *)
Adds(ask, s, h, given) ==
    /\ given \in Seq(Slot) /\ given # <<>> /\ Len(s.slots) + Len(given) <= ask.total
    /\ \A i \in 1 .. Len(given) : given[i][1] = h /\ given[i][2] \in Free(ask, h)
    /\ \A i, j \in 1 .. Len(given) : i # j => given[i] # given[j]
    /\ Len(s.slots) + Len(given) < ask.total =>
         \A g \in Free(ask, h) : \E k \in 1 .. Len(given) : given[k] = <<h, g>>

LEMMA FillAdds ==
  ASSUME NEW ask, IsAsk(ask), NEW s \in FillState(ask), NEW h \in Host, Free(ask, h) # {},
         Len(s.slots) # ask.total
  PROVE  Adds(ask, s, h, Given(ask, s, h))
<1> DEFINE P == Preferred(ask.by, h, Free(ask, h))
           n == ask.total - Len(s.slots)
           gpus == Take(P, n)
           new == [i \in DOMAIN gpus |-> <<h, gpus[i]>>]
<1>0. Given(ask, s, h) = new
  BY DEF Given
<1>1. /\ s.slots \in Seq(Slot) /\ Len(s.slots) \in Nat /\ Len(s.slots) <= ask.total
      /\ ask.total \in Nat /\ n \in Nat /\ n > 0
  BY DEF FillState, IsAsk
<1>2. /\ Free(ask, h) \subseteq DOMAIN Gpus[h]
      /\ P \in Seq(Free(ask, h)) /\ IsInjective(P)
      /\ \A g \in Free(ask, h) : \E k \in DOMAIN P : P[k] = g
  BY PreferredIs
<1> HIDE DEF P, n
<1>4. Len(P) \in Nat /\ DOMAIN P = 1 .. Len(P)
  BY <1>2
<1>5. /\ gpus \in Seq(Free(ask, h))
      /\ Len(gpus) = (IF n < Len(P) THEN n ELSE Len(P))
      /\ \A i \in 1 .. Len(gpus) : i \in 1 .. Len(P) /\ gpus[i] = P[i]
  BY <1>1, <1>2, TakeIs
<1> HIDE DEF gpus
<1>6. Len(gpus) \in Nat /\ DOMAIN gpus = 1 .. Len(gpus) /\ Len(gpus) <= n
  BY <1>1, <1>4, <1>5
<1>7. Len(P) # 0
  BY <1>2, <1>4
<1>8. gpus # <<>>
  <2>1. Len(gpus) # 0
    BY <1>1, <1>4, <1>5, <1>7
  <2> QED
    BY <2>1
<1>9. IsInjective(gpus)
  BY <1>2, <1>4, <1>5, <1>6 DEF IsInjective
<1>10. new \in Seq(Slot) /\ Len(new) = Len(gpus)
  <2>1. ASSUME NEW i \in 1 .. Len(gpus)
        PROVE  <<h, gpus[i]>> \in Slot
    <3>1. gpus[i] \in DOMAIN Gpus[h]
      BY <1>2, <1>5, <1>6
    <3> QED
      BY <3>1, SlotIs
  <2>2. new \in [1 .. Len(gpus) -> Slot]
    BY <1>6, <2>1
  <2> HIDE DEF new
  <2>3. new \in Seq(Slot)
    BY <1>6, <2>2, IsASeq
  <2> QED
    BY <1>6, <2>2, <2>3, LenProperties
<1>11. \A k \in 1 .. Len(gpus) : new[k] = <<h, gpus[k]>>
  BY <1>6
<1> HIDE DEF new
<1>12. Len(s.slots) + Len(new) <= ask.total
  BY <1>1, <1>6, <1>10 DEF n
<1>13. ASSUME Len(s.slots) + Len(new) < ask.total, NEW g \in Free(ask, h)
       PROVE  \E k \in 1 .. Len(new) : new[k] = <<h, g>>
  <2>1. Len(gpus) < n
    BY <1>1, <1>6, <1>10, <1>13 DEF n
  <2>2. Len(gpus) = Len(P)
    <3>1. Len(gpus) = IF n < Len(P) THEN n ELSE Len(P)
      BY <1>5
    <3>2. ~(n < Len(P))
      BY <1>1, <1>4, <2>1, <3>1
    <3> QED
      BY <3>1, <3>2
  <2>3. PICK k \in DOMAIN P : P[k] = g
    BY <1>2
  <2>4. k \in 1 .. Len(gpus) /\ gpus[k] = g
    BY <1>4, <1>5, <2>2, <2>3
  <2> QED
    BY <1>10, <1>11, <2>4
<1>14. new # <<>>
  BY <1>6, <1>8, <1>10
<1>15. ASSUME NEW i \in 1 .. Len(new)
       PROVE  new[i][1] = h /\ new[i][2] \in Free(ask, h)
  <2>1. gpus[i] \in Free(ask, h)
    BY <1>5, <1>10, ElementOfSeq
  <2> QED
    BY <1>10, <1>11, <2>1
<1>16. ASSUME NEW i \in 1 .. Len(new), NEW j \in 1 .. Len(new), i # j
       PROVE  new[i] # new[j]
  <2>1. gpus[i] # gpus[j]
    BY <1>6, <1>9, <1>10, <1>16 DEF IsInjective
  <2> QED
    BY <1>10, <1>11, <2>1
<1>17. Adds(ask, s, h, new)
  BY <1>10, <1>12, <1>13, <1>14, <1>15, <1>16 DEF Adds
<1> QED
  BY <1>0, <1>17

(* One more host. *)
LEMMA FillStep ==
  ASSUME NEW ask, IsAsk(ask), NEW seen \in SUBSET Host, NEW s \in FillState(ask),
         Filling(ask, seen, s), NEW h \in Host \ seen
  PROVE  Fill(ask, s, h) \in FillState(ask) /\ Filling(ask, seen \cup {h}, Fill(ask, s, h))
<1> DEFINE gpus == Given(ask, s, h)
           vendors == s.vendors \cup {vendor[h]}
           slots == s.slots \o gpus
           done == s.verdict = "conflict" \/ Len(s.slots) = ask.total \/ Gpus[h] = <<>>
           ambiguous == _is_ambiguous_host_level(h, ask.used[h])
           many == Cardinality(vendors) > 1
           filled == [s EXCEPT !.slots = slots, !.hosts = Append(@, h), !.vendors = vendors]
<1>1. Fill(ask, s, h) =
        IF done THEN s
        ELSE IF vendor[h] = Mixed THEN [s EXCEPT !.verdict = "conflict"]
        ELSE IF ambiguous THEN [s EXCEPT !.ambiguous = TRUE]
        ELSE IF Free(ask, h) = {} THEN s
        ELSE IF many THEN [s EXCEPT !.verdict = "conflict"]
        ELSE filled
  BY DEF Fill
<1>2. /\ s.verdict \in {"ok", "conflict"} /\ s.slots \in Seq(Slot) /\ Len(s.slots) \in Nat
      /\ s.hosts \in Seq(Host) /\ s.vendors \in SUBSET {vendor[x] : x \in Host}
      /\ DOMAIN s.slots = 1 .. Len(s.slots) /\ DOMAIN s.hosts = 1 .. Len(s.hosts) /\ Len(s.hosts) \in Nat
      /\ Len(s.slots) <= ask.total /\ ask.total \in Nat
  BY DEF FillState, IsAsk
<1>3. many => ~Uniform
  <2> SUFFICES ASSUME Uniform
               PROVE  ~many
    OBVIOUS
  <2>1. vendors = {vendor[h]}
    BY <1>2 DEF Uniform
  <2>2. Cardinality({vendor[h]}) = 1
    BY FS_Singleton
  <2> HIDE DEF vendors
  <2> QED
    BY <2>1, <2>2
<1> HIDE DEF many
<1>4. ASSUME done \/ (~ambiguous /\ Free(ask, h) = {})
      PROVE  Filling(ask, seen \cup {h}, s)
  <2>1. OnChosen(ask, seen \cup {h}, s)
    BY DEF Filling, OnChosen
  <2>2. Gpus[h] = <<>> => Free(ask, h) = {}
    BY DEF Free, Eligible
  <2>3. s.verdict = "conflict" \/ Len(s.slots) = ask.total \/ Free(ask, h) = {}
    BY <1>4, <2>2
  <2>4. AllTaken(ask, seen, s)
    BY DEF Filling
  <2>5. AllTaken(ask, seen \cup {h}, s)
    <3> SUFFICES ASSUME s.verdict = "ok", Len(s.slots) < ask.total, NEW x \in seen \cup {h},
                        ~_is_ambiguous_host_level(x, ask.used[x]), NEW g \in Free(ask, x)
                 PROVE  \E k \in DOMAIN s.slots : s.slots[k] = <<x, g>>
      BY DEF AllTaken
    <3>1. x \in seen
      BY <1>2, <2>3
    <3> QED
      BY <2>4, <3>1 DEF AllTaken
  <2> QED
    BY <2>1, <2>5 DEF Filling
<1>5. ASSUME vendor[h] = Mixed \/ many, NEW t, t = [s EXCEPT !.verdict = "conflict"]
      PROVE  t \in FillState(ask) /\ Filling(ask, seen \cup {h}, t)
  <2>1. t \in FillState(ask)
    BY <1>5 DEF FillState
  <2>2. t.verdict = "conflict" /\ t.slots = s.slots /\ t.hosts = s.hosts
    BY <1>5 DEF FillState
  <2>3. ~Uniform
    BY <1>3, <1>5 DEF Uniform
  <2>4. Filling(ask, seen \cup {h}, t)
    BY <2>2, <2>3 DEF Filling, OnChosen, Alone, AllTaken
  <2> QED
    BY <2>1, <2>4
<1>6. ASSUME ambiguous, NEW t, t = [s EXCEPT !.ambiguous = TRUE]
      PROVE  t \in FillState(ask) /\ Filling(ask, seen \cup {h}, t)
  <2>1. t \in FillState(ask)
    BY <1>6 DEF FillState
  <2>2. t.verdict = s.verdict /\ t.slots = s.slots /\ t.hosts = s.hosts
    BY <1>6 DEF FillState
  <2>3. AllTaken(ask, seen \cup {h}, t)
    BY <1>6, <2>2 DEF Filling, AllTaken
  <2>4. Filling(ask, seen \cup {h}, t)
    BY <2>2, <2>3 DEF Filling, OnChosen, Alone
  <2> QED
    BY <2>1, <2>4
<1>7. ASSUME ~done, vendor[h] # Mixed, ~ambiguous, Free(ask, h) # {}, NEW t, t = filled
      PROVE  t \in FillState(ask) /\ Filling(ask, seen \cup {h}, t)
  <2>0. Adds(ask, s, h, gpus)
    <3>1. Free(ask, h) # {} /\ Len(s.slots) # ask.total
      BY <1>7
    <3> QED
      BY <3>1, FillAdds
  <2>2. t = [s EXCEPT !.slots = slots, !.hosts = Append(@, h), !.vendors = vendors]
    BY <1>7
  <2> HIDE DEF gpus
  <2>3. /\ Len(gpus) \in Nat /\ Len(gpus) > 0 /\ DOMAIN gpus = 1 .. Len(gpus)
        /\ gpus \in Seq(Slot) /\ Len(s.slots) + Len(gpus) <= ask.total
    BY <2>0 DEF Adds
  <2>1. /\ slots \in Seq(Slot) /\ Len(slots) = Len(s.slots) + Len(gpus) /\ Len(slots) <= ask.total
        /\ \A k \in 1 .. Len(s.slots) : slots[k] = s.slots[k]
        /\ \A k \in 1 .. Len(gpus) : slots[Len(s.slots) + k] = gpus[k]
    <3>1. /\ slots \in Seq(Slot)
          /\ Len(slots) = Len(s.slots) + Len(gpus)
          /\ \A i \in 1 .. Len(s.slots) + Len(gpus) : slots[i] =
               IF i <= Len(s.slots) THEN s.slots[i] ELSE gpus[i - Len(s.slots)]
      BY <1>2, <2>3, ConcatProperties
    <3> HIDE DEF slots
    <3>2. ASSUME NEW k \in 1 .. Len(s.slots)
          PROVE  slots[k] = s.slots[k]
      <4>1. Len(s.slots) \in Nat
        BY <1>2
      <4>2. k \in 1 .. Len(s.slots) + Len(gpus) /\ k <= Len(s.slots)
        BY <2>3, <3>2, <4>1
      <4> QED
        BY <3>1, <4>2
    <3>3. ASSUME NEW k \in 1 .. Len(gpus)
          PROVE  slots[Len(s.slots) + k] = gpus[k]
      <4>1. Len(s.slots) \in Nat /\ Len(gpus) \in Nat
        BY <1>2, <2>3
      <4>2. /\ Len(s.slots) + k \in 1 .. Len(s.slots) + Len(gpus)
            /\ ~(Len(s.slots) + k <= Len(s.slots)) /\ (Len(s.slots) + k) - Len(s.slots) = k
        BY ONLY <4>1
      <4> QED
        BY <3>1, <4>2
    <3> QED
      BY <2>3, <3>1, <3>2, <3>3
  <2> HIDE DEF slots
  <2>4. /\ Append(s.hosts, h) \in Seq(Host) /\ Len(Append(s.hosts, h)) = Len(s.hosts) + 1
        /\ \A k \in 1 .. Len(s.hosts) : Append(s.hosts, h)[k] = s.hosts[k]
        /\ Append(s.hosts, h)[Len(s.hosts) + 1] = h
    BY <1>2, AppendProperties
  <2>5. vendors \in SUBSET {vendor[x] : x \in Host}
    BY <1>2
  <2> HIDE DEF vendors
  <2>6. t \in FillState(ask)
    BY <2>1, <2>2, <2>4, <2>5 DEF FillState
  <2>7. t.verdict = s.verdict /\ t.slots = slots /\ t.hosts = Append(s.hosts, h)
    BY <2>2 DEF FillState
  <2>8. /\ DOMAIN t.slots = 1 .. (Len(s.slots) + Len(gpus))
        /\ DOMAIN t.hosts = 1 .. (Len(s.hosts) + 1)
    BY <2>1, <2>4, <2>7
  <2>9. ASSUME NEW k \in DOMAIN t.hosts
        PROVE  t.hosts[k] \in seen \cup {h} /\ Chosen(ask, t.hosts[k])
    <3>1. Chosen(ask, h)
      BY <1>7 DEF Chosen
    <3>2. CASE k \in 1 .. Len(s.hosts)
      BY <1>2, <2>4, <2>7, <3>2 DEF Filling, OnChosen
    <3>3. CASE k = Len(s.hosts) + 1
      BY <2>4, <2>7, <3>1, <3>3
    <3> QED
      BY <1>2, <2>8, <3>2, <3>3
  <2>10. ASSUME NEW k \in DOMAIN t.slots
         PROVE  \/ k \in 1 .. Len(s.slots) /\ t.slots[k] = s.slots[k]
                \/ \E i \in 1 .. Len(gpus) : k = Len(s.slots) + i /\ t.slots[k] = gpus[i]
    <3>1. CASE k \in 1 .. Len(s.slots)
      BY <2>1, <2>7, <3>1
    <3>2. CASE k \notin 1 .. Len(s.slots)
      <4>1. k - Len(s.slots) \in 1 .. Len(gpus) /\ k = Len(s.slots) + (k - Len(s.slots))
        <5>1. Len(s.slots) \in Nat /\ Len(gpus) \in Nat /\ k \in 1 .. (Len(s.slots) + Len(gpus))
          BY <1>2, <2>3, <2>8
        <5> QED
          BY ONLY <5>1, <3>2
      <4> QED
        BY <2>1, <2>7, <4>1
    <3> QED
      BY <3>1, <3>2
  <2>11. ASSUME NEW k \in DOMAIN t.slots
         PROVE  /\ t.slots[k][2] \in Free(ask, t.slots[k][1])
                /\ \E j \in DOMAIN t.hosts : t.hosts[j] = t.slots[k][1]
    <3>1. CASE k \in 1 .. Len(s.slots) /\ t.slots[k] = s.slots[k]
      <4>1. /\ s.slots[k][2] \in Free(ask, s.slots[k][1])
            /\ \E j \in DOMAIN s.hosts : s.hosts[j] = s.slots[k][1]
        BY <1>2, <3>1 DEF Filling, OnChosen
      <4>2. PICK j \in 1 .. Len(s.hosts) : s.hosts[j] = s.slots[k][1]
        BY <1>2, <4>1
      <4>3. j \in DOMAIN t.hosts /\ t.hosts[j] = s.slots[k][1]
        BY <1>2, <2>4, <2>7, <2>8, <4>2
      <4> QED
        BY <3>1, <4>1, <4>3
    <3>2. ASSUME NEW i \in 1 .. Len(gpus), t.slots[k] = gpus[i]
          PROVE  /\ t.slots[k][2] \in Free(ask, t.slots[k][1])
                 /\ \E j \in DOMAIN t.hosts : t.hosts[j] = t.slots[k][1]
      <4>1. gpus[i][1] = h /\ gpus[i][2] \in Free(ask, h)
        BY <2>0 DEF Adds
      <4>2. Len(s.hosts) + 1 \in DOMAIN t.hosts /\ t.hosts[Len(s.hosts) + 1] = h
        BY <1>2, <2>4, <2>7, <2>8
      <4> QED
        BY <3>2, <4>1, <4>2
    <3> QED
      BY <2>10, <3>1, <3>2
  <2>12. t.slots # <<>> /\ t.hosts # <<>> /\ t.slots[1][1] = t.hosts[1]
    <3>1. 1 \in DOMAIN t.slots /\ 1 \in DOMAIN t.hosts
      BY <1>2, <2>3, <2>8
    <3>2. CASE s.slots # <<>>
      <4>1. s.hosts # <<>> /\ s.slots[1][1] = s.hosts[1]
        BY <3>2 DEF Filling, OnChosen
      <4>2. 1 \in 1 .. Len(s.slots) /\ 1 \in 1 .. Len(s.hosts)
        BY <1>2, <3>2, <4>1
      <4>3. t.slots[1] = s.slots[1]
        BY <2>1, <2>7, <4>2
      <4>4. t.hosts[1] = s.hosts[1]
        BY <2>4, <2>7, <4>2
      <4> QED
        BY <3>1, <4>1, <4>3, <4>4
    <3>3. CASE s.slots = <<>>
      <4>1. s.hosts = <<>>
        BY <3>3 DEF Filling, OnChosen
      <4>2. Len(s.slots) = 0 /\ Len(s.hosts) = 0
        BY <3>3, <4>1
      <4>3. t.slots[1][1] = h
        <5>1. 1 \in 1 .. Len(gpus) /\ Len(s.slots) + 1 = 1
          BY <2>3, <4>2
        <5>2. t.slots[1] = gpus[1]
          BY <2>1, <2>7, <5>1
        <5> QED
          BY <2>0, <5>1, <5>2 DEF Adds
      <4>4. t.hosts[1] = h
        <5>1. Len(s.hosts) + 1 = 1
          BY <4>2
        <5> QED
          BY <2>4, <2>7, <5>1
      <4> QED
        BY <3>1, <4>3, <4>4
    <3> QED
      BY <3>2, <3>3
  <2>13. OnChosen(ask, seen \cup {h}, t)
    BY <2>9, <2>11, <2>12 DEF OnChosen
  <2>14. ASSUME NEW k \in 1 .. Len(s.slots)
         PROVE  s.slots[k][1] # h
    <3>1. PICK j \in DOMAIN s.hosts : s.hosts[j] = s.slots[k][1]
      BY <1>2 DEF Filling, OnChosen
    <3>2. s.hosts[j] \in seen
      BY DEF Filling, OnChosen
    <3> QED
      BY <3>1, <3>2
  <2>15. Alone(t)
    <3> SUFFICES ASSUME NEW i \in DOMAIN t.slots, NEW j \in DOMAIN t.slots, i # j, t.slots[i] = t.slots[j]
                 PROVE  FALSE
      BY DEF Alone
    <3>1. CASE i \in 1 .. Len(s.slots) /\ j \in 1 .. Len(s.slots)
      <4>1. t.slots[i] = s.slots[i] /\ t.slots[j] = s.slots[j]
        BY <2>1, <2>7, <3>1
      <4> QED
        BY <1>2, <3>1, <4>1 DEF Filling, Alone
    <3>2. CASE i \in 1 .. Len(s.slots) /\ j \notin 1 .. Len(s.slots)
      <4>1. t.slots[i] = s.slots[i]
        BY <2>1, <2>7, <3>2
      <4>2. PICK k \in 1 .. Len(gpus) : t.slots[j] = gpus[k]
        BY <2>10, <3>2
      <4>3. gpus[k][1] = h
        BY <2>0 DEF Adds
      <4> QED
        BY <2>14, <3>2, <4>1, <4>2, <4>3
    <3>3. CASE i \notin 1 .. Len(s.slots) /\ j \in 1 .. Len(s.slots)
      <4>1. t.slots[j] = s.slots[j]
        BY <2>1, <2>7, <3>3
      <4>2. PICK k \in 1 .. Len(gpus) : t.slots[i] = gpus[k]
        BY <2>10, <3>3
      <4>3. gpus[k][1] = h
        BY <2>0 DEF Adds
      <4> QED
        BY <2>14, <3>3, <4>1, <4>2, <4>3
    <3>4. CASE i \notin 1 .. Len(s.slots) /\ j \notin 1 .. Len(s.slots)
      <4>1. PICK a \in 1 .. Len(gpus) : i = Len(s.slots) + a /\ t.slots[i] = gpus[a]
        BY <2>10, <3>4
      <4>2. PICK b \in 1 .. Len(gpus) : j = Len(s.slots) + b /\ t.slots[j] = gpus[b]
        BY <2>10, <3>4
      <4>3. gpus[a] = gpus[b] /\ a # b
        BY <4>1, <4>2
      <4> QED
        BY <2>0, <4>1, <4>2, <4>3 DEF Adds
    <3> QED
      BY <3>1, <3>2, <3>3, <3>4
  <2>16. AllTaken(ask, seen \cup {h}, t)
    <3> SUFFICES ASSUME t.verdict = "ok", Len(t.slots) < ask.total, NEW x \in seen \cup {h},
                        ~_is_ambiguous_host_level(x, ask.used[x]), NEW g \in Free(ask, x)
                 PROVE  \E k \in DOMAIN t.slots : t.slots[k] = <<x, g>>
      BY DEF AllTaken
    <3>1. CASE x = h
      <4>1. PICK k \in 1 .. Len(gpus) : gpus[k] = <<h, g>>
        BY <2>0, <2>1, <2>7, <3>1 DEF Adds
      <4>2. Len(s.slots) + k \in DOMAIN t.slots
        BY <1>2, <2>3, <2>8
      <4>3. t.slots[Len(s.slots) + k] = gpus[k]
        BY <2>1, <2>7
      <4> QED
        BY <3>1, <4>1, <4>2, <4>3
    <3>2. CASE x # h
      <4>1. s.verdict = "ok" /\ Len(s.slots) < ask.total /\ x \in seen
        BY <1>2, <2>1, <2>3, <2>7, <3>2
      <4>2. PICK k \in DOMAIN s.slots : s.slots[k] = <<x, g>>
        BY <4>1 DEF Filling, AllTaken
      <4>3. k \in DOMAIN t.slots /\ t.slots[k] = s.slots[k]
        BY <1>2, <2>1, <2>3, <2>7, <2>8
      <4> QED
        BY <4>2, <4>3
    <3> QED
      BY <3>1, <3>2
  <2>17. Filling(ask, seen \cup {h}, t)
    BY <2>7, <2>13, <2>15, <2>16 DEF Filling
  <2> QED
    BY <2>6, <2>17
<1> HIDE DEF done, ambiguous, filled, slots, vendors, gpus
<1>8. CASE Fill(ask, s, h) = s /\ (done \/ (~ambiguous /\ Free(ask, h) = {}))
  BY <1>4, <1>8
<1>9. CASE (vendor[h] = Mixed \/ many) /\ Fill(ask, s, h) = [s EXCEPT !.verdict = "conflict"]
  BY <1>5, <1>9
<1>10. CASE ambiguous /\ Fill(ask, s, h) = [s EXCEPT !.ambiguous = TRUE]
  BY <1>6, <1>10
<1>11. CASE /\ ~done /\ vendor[h] # Mixed /\ ~ambiguous /\ Free(ask, h) # {}
            /\ Fill(ask, s, h) = filled
  BY <1>7, <1>11
<1> QED
  BY <1>1, <1>8, <1>9, <1>10, <1>11

(* All hosts, one after the other. *)
Seen(hosts, i) == {hosts[j] : j \in 1 .. i}

LEMMA FillInduction ==
  ASSUME NEW ask, IsAsk(ask), NEW hosts \in Seq(Host), IsInjective(hosts),
         NEW f, f[0] = Unfilled,
         \A i \in 1 .. Len(hosts) :
           f[i - 1] \in FillState(ask) /\ Filling(ask, Seen(hosts, i - 1), f[i - 1])
             => f[i] = Fill(ask, f[i - 1], hosts[i])
  PROVE  \A i \in 0 .. Len(hosts) : f[i] \in FillState(ask) /\ Filling(ask, Seen(hosts, i), f[i])
<1> DEFINE S == {i \in 0 .. Len(hosts) : f[i] \in FillState(ask) /\ Filling(ask, Seen(hosts, i), f[i])}
<1>0. Len(hosts) \in Nat
  OBVIOUS
<1>1. 0 \in S
  <2>1. Seen(hosts, 0) = {}
    BY DEF Seen
  <2>2. f[0] \in FillState(ask) /\ Filling(ask, Seen(hosts, 0), f[0])
    BY <2>1, FillingStarts
  <2> QED
    BY <1>0, <2>2
<1>2. ASSUME NEW i \in 1 .. Len(hosts), i - 1 \in S
      PROVE  i \in S
  <2>1. f[i - 1] \in FillState(ask) /\ Filling(ask, Seen(hosts, i - 1), f[i - 1])
    BY <1>2
  <2>2. f[i] = Fill(ask, f[i - 1], hosts[i])
    BY <2>1
  <2>3. hosts[i] \in Host /\ Seen(hosts, i - 1) \in SUBSET Host
    BY DEF Seen
  <2>4. hosts[i] \notin Seen(hosts, i - 1)
    BY DEF Seen, IsInjective
  <2>5. Seen(hosts, i) = Seen(hosts, i - 1) \cup {hosts[i]}
    <3>1. \A j \in 1 .. i : j \in 1 .. i - 1 \/ j = i
      OBVIOUS
    <3>2. \A j \in 1 .. i - 1 : j \in 1 .. i
      OBVIOUS
    <3> QED
      BY <3>1, <3>2 DEF Seen
  <2>6. f[i] \in FillState(ask) /\ Filling(ask, Seen(hosts, i), f[i])
    BY <2>1, <2>2, <2>3, <2>4, <2>5, FillStep
  <2> QED
    BY <2>6
<1> HIDE DEF S
<1>3. 0 .. Len(hosts) \subseteq S
  BY <1>0, <1>1, <1>2, UpTo
<1> QED
  BY <1>3 DEF S

LEMMA FillRun ==
  ASSUME NEW ask, IsAsk(ask), NEW hosts \in Seq(Host), IsInjective(hosts)
  PROVE  \E full \in FillState(ask) :
           Filling(ask, Range(hosts), full) /\ FillHosts(hosts, ask) = Judged(ask, full)
<1> DEFINE n == Len(hosts)
           D == FillState(ask)
           Filled(f) == f = [i \in 0 .. n |-> IF i = 0 THEN Unfilled ELSE Fill(ask, f[i - 1], hosts[i])]
           F == [p \in D \X (1 .. n) |-> IF Fill(ask, p[1], hosts[p[2]]) \in D
                                         THEN Fill(ask, p[1], hosts[p[2]]) ELSE Unfilled]
<1>1. n \in Nat /\ Unfilled \in D
  BY FillingStarts
<1>2. F \in [D \X (1 .. n) -> D]
  <2> HIDE DEF D
  <2> QED
    BY <1>1
<1>3. ASSUME NEW d \in D, NEW i \in 1 .. n, Fill(ask, d, hosts[i]) \in D
      PROVE  F[<<d, i>>] = Fill(ask, d, hosts[i])
  <2> HIDE DEF D
  <2> QED
    BY <1>3
<1>4. PICK f : StepsAlong(F, D, n, Unfilled, f)
  <2> HIDE DEF D, F, n
  <2> QED
    BY <1>1, <1>2, Steps
<1> USE DEF StepsAlong
<1>5. ASSUME NEW i \in 1 .. n, f[i - 1] \in D, Filling(ask, Seen(hosts, i - 1), f[i - 1])
      PROVE  f[i] = Fill(ask, f[i - 1], hosts[i])
  <2>1. hosts[i] \in Host /\ Seen(hosts, i - 1) \in SUBSET Host /\ hosts[i] \notin Seen(hosts, i - 1)
    BY DEF Seen, IsInjective
  <2>2. Fill(ask, f[i - 1], hosts[i]) \in D
    BY <1>5, <2>1, FillStep
  <2>3. f[i] = F[<<f[i - 1], i>>]
    BY <1>4
  <2> HIDE DEF D, F
  <2> QED
    BY <1>3, <1>5, <2>2, <2>3
<1> HIDE DEF F
<1>6. \A i \in 0 .. n : f[i] \in D /\ Filling(ask, Seen(hosts, i), f[i])
  BY <1>4, <1>5, FillInduction
<1>7. \A i \in 1 .. n : f[i] = Fill(ask, f[i - 1], hosts[i])
  <2>1. \A i \in 1 .. n : i - 1 \in 0 .. n
    BY <1>1
  <2> HIDE DEF D
  <2> QED
    BY <1>5, <1>6, <2>1
<1>8. Filled(f)
  <2>1. \A i \in 0 .. n : f[i] = IF i = 0 THEN Unfilled ELSE Fill(ask, f[i - 1], hosts[i])
    BY <1>1, <1>4, <1>7
  <2>2. f = [i \in 0 .. n |-> f[i]]
    BY <1>4
  <2> QED
    BY <2>1, <2>2
<1> DEFINE filled == CHOOSE g : Filled(g)
<1>9. Filled(filled)
  <2> HIDE DEF Filled
  <2> QED
    BY <1>8
<1>10. FillHosts(hosts, ask) = Judged(ask, filled[n])
  BY DEF FillHosts
<1> HIDE DEF filled
<1>11. filled[0] = Unfilled /\ \A i \in 1 .. n : filled[i] = Fill(ask, filled[i - 1], hosts[i])
  BY <1>1, <1>9
<1>12. \A i \in 0 .. n : filled[i] \in D /\ Filling(ask, Seen(hosts, i), filled[i])
  BY <1>11, FillInduction
<1>13. Seen(hosts, n) = Range(hosts)
  BY DEF Seen, Range
<1>14. filled[n] \in D /\ Filling(ask, Range(hosts), filled[n])
  BY <1>1, <1>12, <1>13
<1> QED
  BY <1>10, <1>14

(* The answer of a filling: whoever is turned away found every accelerator *)
(* taken that may be given.                                                *)
Full(ask, hosts, r) ==
    /\ Len(r.slots) < ask.total
    /\ \A h \in hosts : \/ _is_ambiguous_host_level(h, ask.used[h])
                        \/ \A g \in Free(ask, h) : \E k \in DOMAIN r.slots : r.slots[k] = <<h, g>>

Packed(ask, hosts, r) ==
    /\ r.verdict \in {"ok", "infeasible", "conflict"}
    /\ r.slots \in Seq(Slot) /\ Len(r.slots) <= ask.total /\ r.hosts \in Seq(Host)
    /\ OnChosen(ask, hosts, r) /\ Alone(r)
    /\ r.verdict = "ok" => Len(r.slots) = ask.total
    /\ r.verdict = "infeasible" => Full(ask, hosts, r)
    /\ Uniform => r.verdict = "ok" \/ Full(ask, hosts, r)

LEMMA FillHostsPacks ==
  ASSUME NEW ask, IsAsk(ask), NEW hosts \in Seq(Host), IsInjective(hosts)
  PROVE  Packed(ask, Range(hosts), FillHosts(hosts, ask))
<1>1. PICK s \in FillState(ask) :
        Filling(ask, Range(hosts), s) /\ FillHosts(hosts, ask) = Judged(ask, s)
  BY FillRun
<1> DEFINE r == Judged(ask, s)
           short == s.verdict = "ok" /\ Len(s.slots) < ask.total
<1>2. /\ s.verdict \in {"ok", "conflict"} /\ s.slots \in Seq(Slot) /\ Len(s.slots) <= ask.total
      /\ s.hosts \in Seq(Host) /\ ask.total \in Nat /\ Len(s.slots) \in Nat
  BY DEF FillState, IsAsk
<1>3. /\ r.slots = s.slots /\ r.hosts = s.hosts
      /\ r.verdict = IF short THEN IF s.ambiguous THEN "conflict" ELSE "infeasible" ELSE s.verdict
  BY DEF Judged, FillState
<1> HIDE DEF r, short
<1>4. /\ OnChosen(ask, Range(hosts), s) /\ Alone(s) /\ AllTaken(ask, Range(hosts), s)
      /\ Uniform => s.verdict = "ok"
  BY <1>1 DEF Filling
<1>5. OnChosen(ask, Range(hosts), r) /\ Alone(r)
  BY <1>3, <1>4 DEF OnChosen, Alone
<1>6. short => Full(ask, Range(hosts), r)
  BY <1>3, <1>4 DEF short, Full, AllTaken
<1>7. r.verdict \in {"ok", "infeasible", "conflict"} /\ (r.verdict = "infeasible" => short)
  BY <1>2, <1>3
<1>8. r.verdict = "ok" => Len(r.slots) = ask.total
  BY <1>2, <1>3 DEF short
<1>9. Uniform => r.verdict = "ok" \/ short
  BY <1>3, <1>4
<1>10. Packed(ask, Range(hosts), r)
  BY <1>2, <1>3, <1>5, <1>6, <1>7, <1>8, <1>9 DEF Packed
<1> QED
  BY <1>1, <1>10 DEF r

-----------------------------------------------------------------------------
(* The foreign containers of a host are counted. *)
Others(w, h) == {v \in Workload \ {w} : h \in on[v]}

LEMMA StatusCounts ==
  ASSUME NEW w \in Workload, NEW h
  PROVE  /\ used_slots(h) \in Nat
         /\ _status_excluding_intent(w, h) \in Nat
         /\ _status_excluding_intent(w, h) = 0 <=> Others(w, h) = {}
<1> DEFINE all == {v \in Workload : h \in on[v]}
<1>1. all \in SUBSET Workload /\ Others(w, h) \in SUBSET Workload /\ w \notin Others(w, h)
  BY DEF Others
<1>2. all = IF h \in on[w] THEN Others(w, h) \cup {w} ELSE Others(w, h)
  BY DEF Others
<1>3. used_slots(h) = Cardinality(all)
  BY DEF used_slots
<1> HIDE DEF all
<1>4. IsFiniteSet(all) /\ IsFiniteSet(Others(w, h))
  BY <1>1, FS_Subset, PlacementAssumption
<1>5. Cardinality(all) \in Nat /\ Cardinality(Others(w, h)) \in Nat
  BY <1>4, FS_CardinalityType
<1>6. Cardinality(all) = Cardinality(Others(w, h)) + Own(w, h)
  <2>1. CASE h \in on[w]
    <3>1. Cardinality(Others(w, h) \cup {w}) = Cardinality(Others(w, h)) + 1
      BY <1>1, <1>4, FS_AddElement
    <3> QED
      BY <1>2, <2>1, <3>1 DEF Own
  <2>2. CASE h \notin on[w]
    BY <1>2, <1>5, <2>2 DEF Own
  <2> QED
    BY <2>1, <2>2
<1>7. _status_excluding_intent(w, h) = Cardinality(Others(w, h))
  <2>1. Own(w, h) \in Nat
    BY DEF Own
  <2> QED
    BY <1>3, <1>5, <1>6, <2>1 DEF _status_excluding_intent
<1>8. Cardinality(Others(w, h)) = 0 <=> Others(w, h) = {}
  BY <1>4, FS_EmptySet
<1> QED
  BY <1>3, <1>5, <1>7, <1>8

LEMMA ScoresAreNumbers ==
  ASSUME NEW w \in Workload, NEW silent
  PROVE  _compute_host_load_scores(w, silent) \in [Host -> Int]
<1> SUFFICES ASSUME NEW h \in Host, total_slots(h) # 0
             PROVE  (60 * _status_excluding_intent(w, h)) \div total_slots(h) \in Int
  BY DEF _compute_host_load_scores, HEAD_NODE_OVERHEAD
<1>1. total_slots(h) \in Nat
  BY ConstantFacts, StatusCounts DEF total_slots
<1>2. _status_excluding_intent(w, h) \in Nat
  BY StatusCounts
<1> QED
  BY <1>1, <1>2

LEMMA SortHosts ==
  ASSUME NEW hosts \in Seq(Host), IsInjective(hosts), NEW score \in [Host -> Int]
  PROVE  /\ _sort_hosts(hosts, score) \in Seq(Host)
         /\ IsInjective(_sort_hosts(hosts, score))
         /\ Range(_sort_hosts(hosts, score)) = Range(hosts)
<1> DEFINE n == Len(hosts)
           key == [i \in 1 .. n |-> IF policy = "dense" THEN -score[hosts[i]] ELSE score[hosts[i]]]
           order == Sorted(1 .. n, key)
<1>1. n \in Nat /\ DOMAIN hosts = 1 .. n /\ \A i \in 1 .. n : hosts[i] \in Host
  OBVIOUS
<1>2. _sort_hosts(hosts, score) = [k \in 1 .. n |-> hosts[order[k]]]
  BY <1>1 DEF _sort_hosts
<1>3. key \in [1 .. n -> Int]
  BY <1>1
<1>4. 1 .. n \in SUBSET Nat /\ IsFiniteSet(1 .. n) /\ Cardinality(1 .. n) = n
  BY <1>1, Interval
<1> HIDE DEF key
<1>5. /\ order \in [1 .. n -> 1 .. n] /\ IsInjective(order)
      /\ \A x \in 1 .. n : \E k \in 1 .. n : order[k] = x
  <2>1. /\ Cardinality(1 .. n) \in Nat
        /\ order \in [1 .. Cardinality(1 .. n) -> 1 .. n]
        /\ IsInjective(order)
        /\ \A x \in 1 .. n : \E k \in 1 .. Cardinality(1 .. n) : order[k] = x
    BY <1>3, <1>4, SortedIs
  <2> HIDE DEF order
  <2> QED
    BY <1>4, <2>1
<1> HIDE DEF order
<1>6. \A k \in 1 .. n : order[k] \in 1 .. n /\ hosts[order[k]] \in Host
  BY <1>1, <1>5
<1> DEFINE sorted == [k \in 1 .. n |-> hosts[order[k]]]
<1>7. sorted \in [1 .. n -> Host] /\ \A k \in 1 .. n : sorted[k] = hosts[order[k]]
  BY <1>6
<1> HIDE DEF sorted, n
<1>8. sorted \in Seq(Host) /\ DOMAIN sorted = 1 .. n
  BY <1>1, <1>7
<1>9. IsInjective(sorted)
  BY <1>1, <1>5, <1>6, <1>7, <1>8 DEF IsInjective
<1>10. Range(sorted) = Range(hosts)
  BY <1>1, <1>5, <1>6, <1>7, <1>8 DEF Range
<1> QED
  BY <1>2, <1>8, <1>9, <1>10 DEF sorted

(* What the schedulers are asked: by the occupancy they count what is      *)
(* known of each host.                                                     *)
ByStatus(ask, w, hosts, silent) ==
    /\ ask.need = recipe[w].memory
    /\ \A h \in hosts : ask.used[h] = IF h \in silent THEN 0 ELSE _status_excluding_intent(w, h)

LEMMA ScheduleIs ==
  ASSUME TypeOK, NEW w \in Workload, NEW hosts \in Seq(Host), IsInjective(hosts),
         NEW total \in Nat, NEW silent
  PROVE  \E ask : /\ IsAsk(ask) /\ ask.total = total
                  /\ policy # "greedy" => ByStatus(ask, w, Range(hosts), silent)
                  /\ Packed(ask, Range(hosts), schedule(w, hosts, total, silent))
<1> DEFINE known == [h \in Host |-> IF h \in silent THEN 0 ELSE _status_excluding_intent(w, h)]
           need == recipe[w].memory
<1>1. known \in [Host -> Nat]
  BY StatusCounts
<1>2. need \in Nat /\ policy \in {"greedy", "sparse", "dense"}
  BY PlacementAssumption DEF TypeOK, Recipe
<1>3. Idle \in [Host -> Nat] /\ \A h \in Host : Idle[h] = 0
  BY DEF Idle
<1>4. Range(hosts) \in SUBSET Host
  BY DEF Range
<1> HIDE DEF need
<1>5. CASE policy = "greedy"
  <2> DEFINE ask == Ask(total, 0, "greedy", Idle)
  <2>1. schedule(w, hosts, total, silent) = FillHosts(hosts, ask)
    BY <1>5 DEF schedule
  <2>2. IsAsk(ask) /\ ask.total = total
    BY <1>3, AskIs
  <2> HIDE DEF ask
  <2> QED
    BY <1>5, <2>1, <2>2, FillHostsPacks
<1>6. CASE policy # "greedy" /\ Range(hosts) \subseteq silent
  <2> DEFINE ask == Ask(total, need, "greedy", Idle)
  <2>1. schedule(w, hosts, total, silent) = FillHosts(hosts, ask)
    BY <1>6 DEF schedule, need
  <2>2. IsAsk(ask) /\ ask.total = total /\ ask.need = need /\ ask.used = Idle
    BY <1>2, <1>3, AskIs
  <2> HIDE DEF ask
  <2>3. ByStatus(ask, w, Range(hosts), silent)
    BY <1>3, <1>4, <1>6, <2>2 DEF ByStatus, need
  <2> QED
    BY <2>1, <2>2, <2>3, FillHostsPacks
<1>7. CASE policy # "greedy" /\ ~(Range(hosts) \subseteq silent)
  <2> DEFINE ask == Ask(total, need, policy, known)
             order == _sort_hosts(hosts, _compute_host_load_scores(w, silent))
  <2>1. schedule(w, hosts, total, silent) = FillHosts(order, ask)
    BY <1>7 DEF schedule, need
  <2>2. IsAsk(ask) /\ ask.total = total /\ ask.need = need /\ ask.used = known
    <3> HIDE DEF known
    <3> QED
      BY <1>1, <1>2, AskIs
  <2>3. order \in Seq(Host) /\ IsInjective(order) /\ Range(order) = Range(hosts)
    BY ScoresAreNumbers, SortHosts
  <2> HIDE DEF ask, order
  <2>4. ByStatus(ask, w, Range(hosts), silent)
    BY <1>4, <2>2 DEF ByStatus, need
  <2>5. Packed(ask, Range(order), FillHosts(order, ask))
    BY <2>2, <2>3, FillHostsPacks
  <2> QED
    BY <2>1, <2>2, <2>3, <2>4, <2>5
<1> QED
  BY <1>5, <1>6, <1>7

-----------------------------------------------------------------------------
(* The hosts of a launch are taken without a scheduler, or a scheduler     *)
(* packs its ranks on the candidates.                                      *)
Cut(w) == recipe[w].maxNodes # 0 /\ Len(Hosts) > recipe[w].maxNodes

Candidates(w) == IF recipe[w].solo /\ Cut(w) THEN Take(Hosts, recipe[w].maxNodes) ELSE Hosts

Wanted(w) == IF recipe[w].solo THEN 1 ELSE recipe[w].ranks

Direct(w, silent, o) ==
    /\ o.verdict \in {"ok", "error"} /\ o.silent = silent
    /\ o.slots \in Seq(Slot) /\ Range(o.hosts) \subseteq Host
    /\ o.verdict = "error" => recipe[w].maxNodes # 0 \/ recipe[w].layout # <<>>
    /\ recipe[w].layout = <<>> =>
         o.slots = <<>> /\ ~(recipe[w].solo /\ recipe[w].maxNodes # 1 /\ Len(Hosts) > 1 /\ o.verdict = "ok")

Answers(w, silent, o, ask, r) ==
    /\ o = Outcome(r.verdict, IF recipe[w].solo THEN <<>> ELSE r.slots, r.hosts, silent)
    /\ IsAsk(ask) /\ ask.total > 0 /\ Packed(ask, Range(Candidates(w)), r)
    /\ policy # "greedy" => ByStatus(ask, w, Range(Candidates(w)), silent)
    /\ ask.total = Wanted(w) \/ (r.verdict = "ok" /\ Wanted(w) <= ask.total)

ByScheduler(w, silent, o) == \E ask, r : Answers(w, silent, o, ask, r)

LEMMA RecipeIs ==
  ASSUME TypeOK, NEW w \in Workload
  PROVE  /\ recipe[w].ranks \in Nat /\ recipe[w].memory \in Nat /\ recipe[w].solo \in BOOLEAN
         /\ recipe[w].maxNodes \in Nat /\ recipe[w].layout \in Seq(Slot)
         /\ policy \in {"greedy", "sparse", "dense"} /\ Wanted(w) \in Nat
<1>1. recipe[w] \in Recipe /\ policy \in {"greedy", "sparse", "dense"}
  BY PlacementAssumption DEF TypeOK
<1> QED
  BY <1>1 DEF Recipe, Wanted

LEMMA TakeHosts ==
  ASSUME NEW n \in Nat, n < Len(Hosts)
  PROVE  /\ Take(Hosts, n) \in Seq(Host) /\ IsInjective(Take(Hosts, n))
         /\ Len(Take(Hosts, n)) = n /\ Range(Take(Hosts, n)) \subseteq Host
<1>1. /\ Take(Hosts, n) \in Seq(Host) /\ Len(Take(Hosts, n)) = n
      /\ \A i \in 1 .. Len(Take(Hosts, n)) : i \in 1 .. Len(Hosts) /\ Take(Hosts, n)[i] = Hosts[i]
  BY ConstantFacts, TakeIs
<1>2. DOMAIN Take(Hosts, n) = 1 .. n
  BY <1>1
<1>3. IsInjective(Take(Hosts, n))
  BY <1>1, <1>2, ConstantFacts DEF IsInjective
<1> QED
  BY <1>1, <1>2, <1>3, ConstantFacts DEF Range

LEMMA CandidatesAre ==
  ASSUME TypeOK, NEW w \in Workload
  PROVE  /\ Candidates(w) \in Seq(Host) /\ IsInjective(Candidates(w))
         /\ Range(Candidates(w)) \subseteq Host
<1>1. Hosts \in Seq(Host) /\ IsInjective(Hosts) /\ Range(Hosts) \subseteq Host
  BY PlacementAssumption DEF Host
<1> QED
  BY <1>1, RecipeIs, TakeHosts DEF Candidates, Cut

LEMMA LayoutIs ==
  ASSUME TypeOK, NEW w \in Workload
  PROVE  /\ _placement_from_layout(w).verdict \in {"ok", "error"}
         /\ _placement_from_layout(w).slots \in Seq(Slot)
         /\ Range(_placement_from_layout(w).hosts) \subseteq Host
<1> DEFINE layout == Take(recipe[w].layout, recipe[w].ranks)
           first == {i \in DOMAIN layout : \A j \in 1 .. i - 1 : layout[j][1] # layout[i][1]}
           order == Sorted(first, [i \in first |-> i])
           hosts == [k \in DOMAIN order |-> layout[order[k]][1]]
<1>1. /\ _placement_from_layout(w).verdict \in {"ok", "error"}
      /\ _placement_from_layout(w).slots = layout
      /\ _placement_from_layout(w).hosts = hosts
  BY DEF _placement_from_layout
<1>2. layout \in Seq(Slot) /\ DOMAIN layout = 1 .. Len(layout) /\ Len(layout) \in Nat
  BY RecipeIs, TakeIs
<1>3. first \in SUBSET (1 .. Len(layout))
  BY <1>2
<1> HIDE DEF first, layout
<1>4. first \in SUBSET Nat /\ IsFiniteSet(first) /\ [i \in first |-> i] \in [first -> Int]
  <2>1. IsFiniteSet(1 .. Len(layout))
    BY <1>2, FS_Interval
  <2>2. IsFiniteSet(first)
    BY <1>3, <2>1, FS_Subset
  <2> QED
    BY <1>2, <1>3, <2>2
<1>5. order \in [1 .. Cardinality(first) -> first]
  BY <1>4, SortedIs
<1> HIDE DEF order
<1>6. ASSUME NEW k \in DOMAIN order
      PROVE  hosts[k] \in Host
  <2>1. order[k] \in 1 .. Len(layout)
    BY <1>3, <1>5
  <2>2. layout[order[k]] \in Slot
    BY <1>2, <2>1
  <2> QED
    BY <2>2, SlotIs
<1>7. DOMAIN hosts = DOMAIN order
  OBVIOUS
<1> HIDE DEF hosts
<1>8. Range(hosts) \subseteq Host
  BY <1>6, <1>7 DEF Range
<1> QED
  BY <1>1, <1>2, <1>8

(* A scheduler is asked. *)
LEMMA AskedOf ==
  ASSUME TypeOK, NEW w \in Workload, NEW silent, NEW total \in Nat, total > 0,
         total = Wanted(w) \/ (schedule(w, Candidates(w), total, silent).verdict = "ok" /\ Wanted(w) <= total),
         NEW o,
         o = Outcome(schedule(w, Candidates(w), total, silent).verdict,
                     IF recipe[w].solo THEN <<>> ELSE schedule(w, Candidates(w), total, silent).slots,
                     schedule(w, Candidates(w), total, silent).hosts, silent)
  PROVE  ByScheduler(w, silent, o)
<1> DEFINE r == schedule(w, Candidates(w), total, silent)
<1>1. PICK ask : /\ IsAsk(ask) /\ ask.total = total
                 /\ policy # "greedy" => ByStatus(ask, w, Range(Candidates(w)), silent)
                 /\ Packed(ask, Range(Candidates(w)), r)
  BY CandidatesAre, ScheduleIs
<1> HIDE DEF r
<1>2. Answers(w, silent, o, ask, r)
  BY <1>1 DEF Answers, r
<1> QED
  BY <1>2 DEF ByScheduler

LEMMA OneCandidate ==
  ASSUME TypeOK, NEW w \in Workload, Len(Candidates(w)) = 1, Len(Hosts) > 1
  PROVE  recipe[w].maxNodes = 1
<1>1. Candidates(w) # Hosts
  <2>1. PICK n \in Nat : n = Len(Hosts)
    BY ConstantFacts
  <2>2. n # 1
    BY <2>1
  <2> QED
    BY <2>1, <2>2
<1>2. Cut(w) /\ Candidates(w) = Take(Hosts, recipe[w].maxNodes)
  BY <1>1 DEF Candidates
<1> QED
  BY <1>2, RecipeIs, TakeHosts DEF Cut

LEMMA SingleIs ==
  ASSUME TypeOK, NEW w \in Workload, NEW silent, recipe[w].solo, NEW o,
         o = IF Len(Candidates(w)) = 1 THEN Outcome("ok", <<>>, Candidates(w), silent)
             ELSE Outcome(schedule(w, Candidates(w), 1, silent).verdict, <<>>,
                          schedule(w, Candidates(w), 1, silent).hosts, silent)
  PROVE  Direct(w, silent, o) \/ ByScheduler(w, silent, o)
<1>1. CASE Len(Candidates(w)) = 1
  <2>1. Len(Hosts) > 1 => recipe[w].maxNodes = 1
    BY <1>1, OneCandidate
  <2>2. o = Outcome("ok", <<>>, Candidates(w), silent)
    BY <1>1
  <2>3. Direct(w, silent, o)
    BY <2>1, <2>2, CandidatesAre DEF Direct, Outcome
  <2> QED
    BY <2>3
<1>2. CASE Len(Candidates(w)) # 1
  <2>1. Wanted(w) = 1
    BY DEF Wanted
  <2>2. o = Outcome(schedule(w, Candidates(w), 1, silent).verdict,
                    IF recipe[w].solo THEN <<>> ELSE schedule(w, Candidates(w), 1, silent).slots,
                    schedule(w, Candidates(w), 1, silent).hosts, silent)
    BY <1>2
  <2> QED
    BY <2>1, <2>2, AskedOf
<1> QED
  BY <1>1, <1>2

LEMMA ResolveIs ==
  ASSUME TypeOK, NEW w \in Workload, NEW silent
  PROVE  \/ Direct(w, silent, resolve_effective_hosts(w, silent))
         \/ ByScheduler(w, silent, resolve_effective_hosts(w, silent))
<1> DEFINE o == resolve_effective_hosts(w, silent)
           max == recipe[w].maxNodes
           r == IF recipe[w].layout # <<>> THEN _placement_from_layout(w)
                ELSE schedule(w, Hosts, recipe[w].ranks, silent)
           trim == schedule(w, Hosts, max, silent)
           single(hosts) ==
             IF Len(hosts) = 1 THEN Outcome("ok", <<>>, hosts, silent)
             ELSE Outcome(schedule(w, hosts, 1, silent).verdict, <<>>, schedule(w, hosts, 1, silent).hosts, silent)
<1>1. /\ recipe[w].ranks \in Nat /\ max \in Nat /\ recipe[w].layout \in Seq(Slot)
      /\ recipe[w].solo \in BOOLEAN
  BY RecipeIs
<1>2. o = IF ~recipe[w].solo /\ recipe[w].ranks > 0 /\ Len(Hosts) > 1
          THEN IF r.verdict = "ok" /\ max # 0 /\ Len(r.hosts) > max
               THEN Outcome("error", <<>>, <<>>, silent)
               ELSE Outcome(r.verdict, r.slots, r.hosts, silent)
          ELSE IF Cut(w)
          THEN IF recipe[w].ranks > max THEN Outcome("error", <<>>, <<>>, silent)
               ELSE IF recipe[w].solo THEN single(Take(Hosts, max))
               ELSE IF trim.verdict = "ok" THEN Outcome(trim.verdict, trim.slots, trim.hosts, silent)
               ELSE Outcome("ok", <<>>, Take(Hosts, max), silent)
          ELSE IF recipe[w].solo THEN single(Hosts) ELSE Outcome("ok", <<>>, Hosts, silent)
  BY DEF resolve_effective_hosts, OfSchedule, Outcome, Cut
<1> HIDE DEF o
<1>3. CASE max # 0 /\ o = Outcome("error", <<>>, <<>>, silent)
  <2>1. Direct(w, silent, o)
    BY <1>3 DEF Direct, Outcome, Range
  <2> QED
    BY <2>1 DEF o
<1>4. CASE /\ ~recipe[w].solo /\ recipe[w].ranks > 0 /\ recipe[w].layout # <<>>
           /\ o = Outcome(r.verdict, r.slots, r.hosts, silent)
  <2>1. Direct(w, silent, o)
    BY <1>1, <1>4, LayoutIs DEF Direct, Outcome
  <2> QED
    BY <2>1 DEF o
<1>5. CASE /\ ~recipe[w].solo /\ recipe[w].ranks > 0 /\ recipe[w].layout = <<>>
           /\ o = Outcome(r.verdict, r.slots, r.hosts, silent)
  <2>1. Candidates(w) = Hosts /\ Wanted(w) = recipe[w].ranks
    BY <1>5 DEF Candidates, Wanted
  <2>2. ByScheduler(w, silent, o)
    BY <1>1, <1>5, <2>1, AskedOf
  <2> QED
    BY <2>2 DEF o
<1>6. CASE /\ Cut(w) /\ ~recipe[w].solo /\ ~(recipe[w].ranks > max) /\ trim.verdict = "ok"
           /\ o = Outcome(trim.verdict, trim.slots, trim.hosts, silent)
  <2>1. Candidates(w) = Hosts /\ Wanted(w) = recipe[w].ranks /\ max > 0
    BY <1>1, <1>6 DEF Candidates, Wanted, Cut
  <2>2. ByScheduler(w, silent, o)
    BY <1>1, <1>6, <2>1, AskedOf
  <2> QED
    BY <2>2 DEF o
<1>7. CASE recipe[w].solo /\ o = single(Candidates(w))
  BY <1>7, SingleIs DEF o
<1>8. CASE ~recipe[w].solo /\ Cut(w) /\ o = Outcome("ok", <<>>, Take(Hosts, max), silent)
  <2>1. Range(Take(Hosts, max)) \subseteq Host
    BY <1>1, <1>8, TakeHosts DEF Cut
  <2>2. Direct(w, silent, o)
    BY <1>8, <2>1 DEF Direct, Outcome
  <2> QED
    BY <2>2 DEF o
<1>9. CASE ~recipe[w].solo /\ o = Outcome("ok", <<>>, Hosts, silent)
  <2>1. Direct(w, silent, o)
    BY <1>9 DEF Direct, Outcome, Host
  <2> QED
    BY <2>1 DEF o
<1>10. Candidates(w) = IF recipe[w].solo /\ Cut(w) THEN Take(Hosts, max) ELSE Hosts
  BY DEF Candidates
<1>11. Cut(w) => max # 0
  BY DEF Cut
<1> HIDE DEF r, trim, single, max
<1> QED
  BY <1>1, <1>2, <1>3, <1>4, <1>5, <1>6, <1>7, <1>8, <1>9, <1>10, <1>11

-----------------------------------------------------------------------------
(* A host that is chosen runs nothing of another workload, as far as it is *)
(* known: several accelerators of which some are used are ambiguous, and   *)
(* all of them used leave none.                                            *)
LEMMA ChosenIsFree ==
  ASSUME NEW ask, IsAsk(ask), NEW h \in Host, Chosen(ask, h)
  PROVE  ask.used[h] = 0 /\ Free(ask, h) = Eligible(h, 0, ask.need)
<1>1. PICK g \in DOMAIN Gpus[h] : g > ask.used[h]
  BY DEF Chosen, Free, Eligible
<1>2. ask.used[h] \in Nat /\ Len(Gpus[h]) \in Nat /\ g \in 1 .. Len(Gpus[h])
  BY ConstantFacts DEF IsAsk
<1>3. ask.used[h] = 0
  BY <1>1, <1>2 DEF Chosen, _is_ambiguous_host_level
<1> QED
  BY <1>3 DEF Free

(* What a planning by status promises of its hosts: the ranks have an      *)
(* accelerator each when the hosts are idle, and no host that answered     *)
(* runs anything else.                                                     *)
Seat(w, hosts, f) ==
    /\ f \in [1 .. Wanted(w) -> Slot]
    /\ \A i, j \in 1 .. Wanted(w) : i # j => f[i] # f[j]
    /\ \A i \in 1 .. Wanted(w) : f[i][1] \in hosts /\ f[i][2] \in Eligible(f[i][1], 0, recipe[w].memory)

Seated(w, hosts) ==
    /\ hosts # {} /\ hosts \subseteq Range(Candidates(w))
    /\ \A h \in hosts : vendor[h] # Mixed
    /\ \E f : Seat(w, hosts, f)

LEMMA ChoiceIs ==
  ASSUME TypeOK, NEW w \in Workload, NEW silent, NEW o, o = resolve_effective_hosts(w, silent),
         o.verdict = "ok", Choice(w, o).byStatus
  PROVE  /\ Seated(w, Range(o.hosts))
         /\ \A h \in Range(o.hosts) \ silent : Others(w, h) = {}
<1>1. policy # "greedy" /\ recipe[w].layout = <<>>
  BY DEF Choice
<1>2. ~Direct(w, silent, o)
  BY DEF Choice, Direct
<1>3. PICK ask, r : Answers(w, silent, o, ask, r)
  BY <1>2, ResolveIs DEF ByScheduler
<1>4. /\ o.verdict = r.verdict /\ o.hosts = r.hosts
      /\ IsAsk(ask) /\ ask.total > 0 /\ ask.total \in Nat /\ Packed(ask, Range(Candidates(w)), r)
      /\ ask.need = recipe[w].memory
      /\ \A h \in Range(Candidates(w)) : ask.used[h] = IF h \in silent THEN 0 ELSE _status_excluding_intent(w, h)
      /\ Wanted(w) <= ask.total
  BY <1>1, <1>3, RecipeIs DEF Answers, Outcome, ByStatus, IsAsk
<1>5. /\ r.slots \in Seq(Slot) /\ Len(r.slots) = ask.total /\ r.hosts \in Seq(Host)
      /\ OnChosen(ask, Range(Candidates(w)), r) /\ Alone(r)
  BY <1>4 DEF Packed
<1>6. ASSUME NEW h \in Range(r.hosts)
      PROVE  /\ h \in Range(Candidates(w)) /\ h \in Host /\ vendor[h] # Mixed
             /\ ask.used[h] = 0 /\ Free(ask, h) = Eligible(h, 0, recipe[w].memory)
  <2>1. h \in Range(Candidates(w)) /\ Chosen(ask, h)
    BY <1>5 DEF OnChosen, Range
  <2>2. h \in Host
    BY <2>1, CandidatesAre
  <2> QED
    BY <1>4, <2>1, <2>2, ChosenIsFree DEF Chosen
<1>7. ASSUME NEW h \in Range(o.hosts) \ silent
      PROVE  Others(w, h) = {}
  <2>1. ask.used[h] = 0 /\ h \in Range(Candidates(w))
    BY <1>4, <1>6
  <2>2. _status_excluding_intent(w, h) = 0
    BY <1>4, <2>1
  <2> QED
    BY <2>2, StatusCounts
<1>8. Range(r.hosts) # {}
  <2>1. r.slots # <<>>
    BY <1>4, <1>5
  <2>2. r.hosts # <<>>
    BY <1>5, <2>1 DEF OnChosen
  <2>3. 1 \in DOMAIN r.hosts
    BY <1>5, <2>2
  <2>4. r.hosts[1] \in Range(r.hosts)
    BY <2>3 DEF Range
  <2> QED
    BY <2>4
<1> DEFINE f == [k \in 1 .. Wanted(w) |-> r.slots[k]]
<1>9. \A k \in 1 .. Wanted(w) : k \in DOMAIN r.slots /\ r.slots[k] \in Slot
  BY <1>4, <1>5, RecipeIs
<1>10. f \in [1 .. Wanted(w) -> Slot] /\ \A k \in 1 .. Wanted(w) : f[k] = r.slots[k]
  BY <1>9
<1> HIDE DEF f
<1>11. ASSUME NEW k \in 1 .. Wanted(w)
       PROVE  f[k][1] \in Range(r.hosts) /\ f[k][2] \in Eligible(f[k][1], 0, recipe[w].memory)
  <2>1. /\ r.slots[k][2] \in Free(ask, r.slots[k][1])
        /\ r.slots[k][1] \in Range(r.hosts)
    BY <1>5, <1>9 DEF OnChosen, Range
  <2> QED
    BY <1>6, <1>10, <2>1
<1>12. Seat(w, Range(r.hosts), f)
  BY <1>5, <1>9, <1>10, <1>11 DEF Seat, Alone
<1> QED
  BY <1>4, <1>6, <1>7, <1>8, <1>12 DEF Seated

-----------------------------------------------------------------------------
(* The inductive invariant.  A deployment whose hosts were chosen by       *)
(* status could be packed on them if they were idle; who plans meanwhile   *)
(* knows of the other; and on a host that answered, whoever has appeared   *)
(* since planned meanwhile.                                                *)
ByStatusPlansSeated ==
    \A w \in Workload : plan[w].byStatus =>
        policy # "greedy" /\ recipe[w].layout = <<>> /\ Seated(w, plan[w].hosts)

PlannersMeet ==
    \A w, v \in Workload : w # v /\ pc[w] = "planned" /\ pc[v] = "planned" => v \in with[w]

NewcomersPlanned ==
    \A w, v \in Workload : \A h \in plan[w].hosts \ plan[w].silent :
        w # v /\ pc[w] = "planned" /\ plan[w].byStatus /\ h \in on[v] => v \in with[w]

Inv == TypeOK /\ ByStatusPlansSeated /\ PlannersMeet /\ NewcomersPlanned /\ Exclusive

LEMMA Initially ==
  ASSUME Init
  PROVE  Inv
<1>1. TypeOK
  <2>1. answer[1] \in Workload /\ answer[2] = Nowhere
    BY PlacementAssumption DEF Init, None
  <2>2. /\ answer[2].verdict \in {"ok", "infeasible", "conflict", "error"}
        /\ Range(answer[2].slots) \subseteq Slot /\ Range(answer[2].hosts) \subseteq Host
    BY <2>1 DEF Nowhere, Outcome, Range
  <2>3. faults \in 0 .. MaxFaults
    BY PlacementAssumption DEF Init
  <2>4. plan \in [Workload -> [hosts : SUBSET Host, silent : SUBSET Host, byStatus : BOOLEAN]]
    BY DEF Init, Unplanned
  <2>5. excuse \in [Workload -> [Host -> SUBSET Workload]]
    BY DEF Init
  <2> QED
    BY <2>1, <2>2, <2>3, <2>4, <2>5 DEF Init, TypeOK
<1>2. ByStatusPlansSeated
  BY DEF Init, ByStatusPlansSeated, Unplanned
<1>3. PlannersMeet /\ NewcomersPlanned /\ Exclusive
  BY DEF Init, PlannersMeet, NewcomersPlanned, Exclusive
<1> QED
  BY <1>1, <1>2, <1>3 DEF Inv

LEMMA LostIs ==
  ASSUME NEW hosts, NEW missed \in Lost(hosts)
  PROVE  missed \in SUBSET hosts
BY DEF Lost

LEMMA FaultCounts ==
  ASSUME TypeOK, NEW c, IF c THEN UNCHANGED faults ELSE Fault
  PROVE  faults' \in 0 .. MaxFaults
BY PlacementAssumption DEF TypeOK, Fault

(* What an answer is made of. *)
LEMMA AnswerIs ==
  ASSUME TypeOK, NEW w \in Workload, NEW silent, NEW o, o = resolve_effective_hosts(w, silent)
  PROVE  /\ o.verdict \in {"ok", "infeasible", "conflict", "error"} /\ o.silent = silent
         /\ Range(o.slots) \subseteq Slot /\ Range(o.hosts) \subseteq Host
<1>1. CASE Direct(w, silent, o)
  <2>1. o.slots \in Seq(Slot)
    BY <1>1 DEF Direct
  <2> QED
    BY <1>1, <2>1 DEF Direct, Range
<1>2. CASE ByScheduler(w, silent, o)
  <2>1. PICK ask, r : Answers(w, silent, o, ask, r)
    BY <1>2 DEF ByScheduler
  <2>2. /\ o.verdict = r.verdict /\ o.silent = silent /\ o.hosts = r.hosts
        /\ o.slots = <<>> \/ o.slots = r.slots
        /\ Packed(ask, Range(Candidates(w)), r)
    BY <2>1 DEF Answers, Outcome
  <2>3. r.slots \in Seq(Slot) /\ r.hosts \in Seq(Host) /\ r.verdict \in {"ok", "infeasible", "conflict"}
    BY <2>2 DEF Packed
  <2> QED
    BY <2>2, <2>3 DEF Range
<1> QED
  BY <1>1, <1>2, ResolveIs

(* Seats depend on what never changes. *)
LEMMA SeatedStays ==
  ASSUME UNCHANGED <<policy, vendor, recipe>>, NEW w, NEW hosts, Seated(w, hosts)
  PROVE  Seated(w, hosts)'
BY DEF Seated, Seat, Candidates, Cut, Wanted, Eligible

LEMMA PlanKeeps ==
  ASSUME Inv, NEW w \in Workload, Plan(w)
  PROVE  Inv'
<1>1. TypeOK /\ ByStatusPlansSeated /\ PlannersMeet /\ NewcomersPlanned /\ Exclusive
  BY DEF Inv
<1>2. PICK silent \in Lost(Host) :
           /\ IF silent = {} THEN UNCHANGED faults ELSE Fault
           /\ answer' = <<w, resolve_effective_hosts(w, silent)>>
  BY DEF Plan
<1> DEFINE o == resolve_effective_hosts(w, silent)
           others == {v \in Workload : pc[v] = "planned"}
<1>3. answer'[1] = w /\ answer'[2] = o
  BY <1>2
<1>4. UNCHANGED <<policy, vendor, recipe, on, excuse>> /\ pc[w] # "planned"
  BY DEF Plan
<1>5. /\ o.verdict \in {"ok", "infeasible", "conflict", "error"} /\ o.silent = silent
      /\ Range(o.slots) \subseteq Slot /\ Range(o.hosts) \subseteq Host
  BY <1>1, AnswerIs
<1>6. faults' \in 0 .. MaxFaults
  BY <1>1, <1>2, FaultCounts
<1>7. silent \in SUBSET Host
  BY <1>2, LostIs
<1> HIDE DEF o
<1>8. CASE o.verdict # "ok"
  <2>1. UNCHANGED <<pc, plan, with>>
    BY <1>3, <1>8 DEF Plan
  <2>2. TypeOK'
    BY <1>1, <1>3, <1>4, <1>5, <1>6, <2>1 DEF TypeOK
  <2>3. ByStatusPlansSeated'
    BY <1>1, <1>4, <2>1, SeatedStays DEF ByStatusPlansSeated
  <2>4. PlannersMeet' /\ NewcomersPlanned' /\ Exclusive'
    BY <1>1, <1>4, <2>1 DEF PlannersMeet, NewcomersPlanned, Exclusive
  <2> QED
    BY <2>2, <2>3, <2>4 DEF Inv
<1>9. CASE o.verdict = "ok"
  <2>1. /\ pc' = [pc EXCEPT ![w] = "planned"]
        /\ plan' = [plan EXCEPT ![w] = Choice(w, o)]
        /\ with' = [v \in Workload |-> CASE v = w        -> others
                                         [] v \in others -> with[v] \cup {w}
                                         [] OTHER        -> with[v]]
    BY <1>3, <1>9 DEF Plan
  <2>2. w \notin others /\ others \in SUBSET Workload
    BY <1>4
  <2>3. /\ with'[w] = others
        /\ \A v \in Workload : v # w /\ v \in others => with'[v] = with[v] \cup {w}
        /\ \A v \in Workload : with[v] \subseteq with'[v] \/ v = w
    BY <2>1, <2>2
  <2>4. with' \in [Workload -> SUBSET Workload]
    BY <1>1, <2>1, <2>2 DEF TypeOK
  <2>5. Choice(w, o) \in [hosts : SUBSET Host, silent : SUBSET Host, byStatus : BOOLEAN]
    BY <1>5, <1>7 DEF Choice
  <2>6. /\ pc'[w] = "planned" /\ plan'[w] = Choice(w, o)
        /\ \A v \in Workload : v # w => pc'[v] = pc[v] /\ plan'[v] = plan[v]
        /\ pc' \in [Workload -> {"idle", "planned", "running"}]
        /\ plan' \in [Workload -> [hosts : SUBSET Host, silent : SUBSET Host, byStatus : BOOLEAN]]
    BY <1>1, <2>1, <2>5 DEF TypeOK
  <2>7. TypeOK'
    BY <1>1, <1>3, <1>4, <1>5, <1>6, <2>4, <2>6 DEF TypeOK
  <2>8. Choice(w, o).hosts = Range(o.hosts) /\ Choice(w, o).silent = silent
    BY <1>5 DEF Choice
  <2>9. Choice(w, o).byStatus =>
          /\ policy # "greedy" /\ recipe[w].layout = <<>> /\ Seated(w, Range(o.hosts))
          /\ \A h \in Range(o.hosts) \ silent : Others(w, h) = {}
    BY <1>1, <1>9, ChoiceIs DEF o, Choice
  <2>10. ASSUME NEW v \in Workload, plan'[v].byStatus
         PROVE  policy # "greedy" /\ recipe[v].layout = <<>> /\ Seated(v, plan'[v].hosts)
    <3>1. CASE v = w
      BY <2>6, <2>8, <2>9, <2>10, <3>1
    <3>2. CASE v # w
      BY <1>1, <2>6, <2>10, <3>2 DEF ByStatusPlansSeated
    <3> QED
      BY <3>1, <3>2
  <2>11. ByStatusPlansSeated'
    <3> SUFFICES ASSUME NEW v \in Workload, plan'[v].byStatus
                 PROVE  (policy # "greedy")' /\ (recipe[v].layout = <<>>)' /\ Seated(v, plan[v].hosts)'
      BY DEF ByStatusPlansSeated
    <3>1. policy # "greedy" /\ recipe[v].layout = <<>> /\ Seated(v, plan'[v].hosts)
      BY <2>10
    <3> QED
      BY <1>4, <3>1 DEF Seated, Seat, Candidates, Cut, Wanted, Eligible
  <2>12. PlannersMeet'
    <3> SUFFICES ASSUME NEW x \in Workload, NEW v \in Workload, x # v,
                        pc'[x] = "planned", pc'[v] = "planned"
                 PROVE  v \in with'[x]
      BY DEF PlannersMeet
    <3>1. CASE x = w
      BY <2>3, <2>6, <3>1
    <3>2. CASE v = w
      BY <2>3, <2>6, <3>2
    <3>3. CASE x # w /\ v # w
      BY <1>1, <2>3, <2>6, <3>3 DEF PlannersMeet
    <3> QED
      BY <3>1, <3>2, <3>3
  <2>13. NewcomersPlanned'
    <3> SUFFICES ASSUME NEW x \in Workload, NEW v \in Workload, NEW h \in plan'[x].hosts \ plan'[x].silent,
                        x # v, pc'[x] = "planned", plan'[x].byStatus, h \in on[v]
                 PROVE  v \in with'[x]
      BY <1>4 DEF NewcomersPlanned
    <3>1. CASE x = w
      <4>1. Others(w, h) = {}
        BY <2>6, <2>8, <2>9, <3>1
      <4> QED
        BY <3>1, <4>1 DEF Others
    <3>2. CASE x # w
      <4>1. v \in with[x]
        BY <1>1, <2>6, <3>2 DEF NewcomersPlanned
      <4> QED
        BY <2>3, <3>2, <4>1
    <3> QED
      BY <3>1, <3>2
  <2>14. Exclusive'
    BY <1>1, <1>4 DEF Exclusive
  <2> QED
    BY <2>7, <2>11, <2>12, <2>13, <2>14 DEF Inv
<1> QED
  BY <1>8, <1>9

LEMMA LaunchKeeps ==
  ASSUME Inv, NEW w \in Workload, Launch(w)
  PROVE  Inv'
<1>1. TypeOK /\ ByStatusPlansSeated /\ PlannersMeet /\ NewcomersPlanned /\ Exclusive
  BY DEF Inv
<1>2. PICK missed \in Lost(on[w] \ plan[w].hosts) :
           /\ IF missed = {} THEN UNCHANGED faults ELSE Fault
           /\ on' = [on EXCEPT ![w] = plan[w].hosts \cup missed]
  BY DEF Launch
<1>3. /\ excuse' = [excuse EXCEPT ![w] = [h \in Host |->
                      IF h \notin on'[w] THEN {}
                      ELSE IF h \notin plan[w].hosts THEN @[h]
                      ELSE IF h \in plan[w].silent \/ ~plan[w].byStatus THEN Workload
                      ELSE with[w]]]
      /\ pc[w] = "planned" /\ pc' = [pc EXCEPT ![w] = "running"]
      /\ with' = [with EXCEPT ![w] = {}] /\ answer' = None
      /\ UNCHANGED <<policy, vendor, recipe, plan>>
  BY DEF Launch
<1>4. missed \in SUBSET (on[w] \ plan[w].hosts)
  BY <1>2, LostIs
<1>5. /\ on'[w] = plan[w].hosts \cup missed /\ \A v \in Workload : v # w => on'[v] = on[v]
      /\ pc'[w] = "running" /\ \A v \in Workload : v # w => pc'[v] = pc[v]
      /\ \A v \in Workload : v # w => with'[v] = with[v]
      /\ \A v \in Workload : v # w => excuse'[v] = excuse[v]
      /\ plan[w].hosts \in SUBSET Host
  BY <1>1, <1>2, <1>3 DEF TypeOK
<1>6. ASSUME NEW h \in on'[w]
      PROVE  /\ h \in Host
             /\ h \notin plan[w].hosts => h \in on[w] /\ excuse'[w][h] = excuse[w][h]
             /\ h \in plan[w].hosts =>
                  excuse'[w][h] = IF h \in plan[w].silent \/ ~plan[w].byStatus THEN Workload ELSE with[w]
  <2>1. h \in Host
    BY <1>1, <1>4, <1>5 DEF TypeOK
  <2>2. excuse'[w][h] = IF h \notin plan[w].hosts THEN excuse[w][h]
                        ELSE IF h \in plan[w].silent \/ ~plan[w].byStatus THEN Workload
                        ELSE with[w]
    BY <1>1, <1>3, <2>1 DEF TypeOK
  <2>3. h \notin plan[w].hosts => h \in on[w]
    BY <1>4, <1>5
  <2> QED
    BY <2>1, <2>2, <2>3
<1>7. TypeOK'
  <2>1. on' \in [Workload -> SUBSET Host]
    BY <1>1, <1>2, <1>4, <1>5 DEF TypeOK
  <2>2. excuse' \in [Workload -> [Host -> SUBSET Workload]]
    <3> DEFINE e == [h \in Host |-> IF h \notin on'[w] THEN {}
                      ELSE IF h \notin plan[w].hosts THEN excuse[w][h]
                      ELSE IF h \in plan[w].silent \/ ~plan[w].byStatus THEN Workload
                      ELSE with[w]]
    <3>1. e \in [Host -> SUBSET Workload]
      BY <1>1 DEF TypeOK
    <3>2. excuse' = [excuse EXCEPT ![w] = e]
      BY <1>1, <1>3 DEF TypeOK
    <3> HIDE DEF e
    <3> QED
      BY <1>1, <3>1, <3>2 DEF TypeOK
  <2>3. /\ answer'[1] \in Workload /\ answer'[2].verdict = "ok"
        /\ answer'[2].slots = <<>> /\ answer'[2].hosts = <<>>
    BY <1>3, PlacementAssumption DEF None, Nowhere, Outcome
  <2>4. Range(answer'[2].slots) \subseteq Slot /\ Range(answer'[2].hosts) \subseteq Host
    BY <2>3 DEF Range
  <2>5. faults' \in 0 .. MaxFaults
    BY <1>1, <1>2, FaultCounts
  <2>6. /\ pc' \in [Workload -> {"idle", "planned", "running"}]
        /\ with' \in [Workload -> SUBSET Workload]
    BY <1>1, <1>3 DEF TypeOK
  <2> QED
    BY <1>1, <1>3, <2>1, <2>2, <2>3, <2>4, <2>5, <2>6 DEF TypeOK
<1>8. ByStatusPlansSeated'
  BY <1>1, <1>3, SeatedStays DEF ByStatusPlansSeated
<1>9. PlannersMeet'
  BY <1>1, <1>5 DEF PlannersMeet
<1>10. NewcomersPlanned'
  <2> SUFFICES ASSUME NEW x \in Workload, NEW v \in Workload, NEW h \in plan[x].hosts \ plan[x].silent,
                      x # v, pc'[x] = "planned", plan[x].byStatus, h \in on'[v]
               PROVE  v \in with'[x]
    BY <1>3 DEF NewcomersPlanned
  <2>1. x # w /\ pc[x] = "planned"
    BY <1>5
  <2>2. v \in with[x]
    BY <1>1, <1>3, <1>5, <2>1 DEF PlannersMeet, NewcomersPlanned
  <2> QED
    BY <1>5, <2>1, <2>2
<1>11. ASSUME NEW v \in Workload, v # w, NEW h \in on'[w] \cap on[v]
       PROVE  v \in excuse'[w][h] \/ w \in excuse'[v][h]
  <2>1. CASE h \notin plan[w].hosts
    BY <1>1, <1>5, <1>6, <1>11, <2>1 DEF Exclusive
  <2>2. CASE h \in plan[w].hosts /\ (h \in plan[w].silent \/ ~plan[w].byStatus)
    BY <1>6, <2>2
  <2>3. CASE h \in plan[w].hosts /\ h \notin plan[w].silent /\ plan[w].byStatus
    <3>1. v \in with[w]
      BY <1>1, <1>3, <1>11, <2>3 DEF NewcomersPlanned
    <3> QED
      BY <1>6, <2>3, <3>1
  <2> QED
    BY <2>1, <2>2, <2>3
<1>12. Exclusive'
  <2> SUFFICES ASSUME NEW x \in Workload, NEW v \in Workload, NEW h \in on'[x] \cap on'[v], x # v
               PROVE  v \in excuse'[x][h] \/ x \in excuse'[v][h]
    BY DEF Exclusive
  <2>1. CASE x = w
    BY <1>5, <1>11, <2>1
  <2>2. CASE v = w
    BY <1>5, <1>11, <2>2
  <2>3. CASE x # w /\ v # w
    BY <1>1, <1>5, <2>3 DEF Exclusive
  <2> QED
    BY <2>1, <2>2, <2>3
<1> QED
  BY <1>7, <1>8, <1>9, <1>10, <1>12 DEF Inv

LEMMA StopKeeps ==
  ASSUME Inv, NEW w \in Workload, Stop(w)
  PROVE  Inv'
<1>1. TypeOK /\ ByStatusPlansSeated /\ PlannersMeet /\ NewcomersPlanned /\ Exclusive
  BY DEF Inv
<1>2. PICK missed \in Lost(on[w]) :
           /\ IF missed = {} THEN UNCHANGED faults ELSE Fault
           /\ on' = [on EXCEPT ![w] = missed]
  BY DEF Stop
<1>3. /\ excuse' = [excuse EXCEPT ![w] = [h \in Host |-> IF h \in on'[w] THEN @[h] ELSE {}]]
      /\ pc[w] = "running" /\ pc' = [pc EXCEPT ![w] = "idle"]
      /\ plan' = [plan EXCEPT ![w] = Unplanned] /\ answer' = None
      /\ UNCHANGED <<policy, vendor, recipe, with>>
  BY DEF Stop
<1>4. missed \in SUBSET on[w]
  BY <1>2, LostIs
<1>5. /\ on'[w] = missed /\ \A v \in Workload : v # w => on'[v] = on[v]
      /\ pc'[w] = "idle" /\ \A v \in Workload : v # w => pc'[v] = pc[v]
      /\ plan'[w] = Unplanned /\ \A v \in Workload : v # w => plan'[v] = plan[v]
      /\ \A v \in Workload : v # w => excuse'[v] = excuse[v]
      /\ excuse'[w] = [h \in Host |-> IF h \in on'[w] THEN excuse[w][h] ELSE {}]
      /\ \A v \in Workload : on'[v] \subseteq on[v] /\ on[v] \subseteq Host
  BY <1>1, <1>2, <1>3, <1>4 DEF TypeOK
<1>6. \A h \in on'[w] : excuse'[w][h] = excuse[w][h]
  BY <1>5
<1>7. TypeOK'
  <2>1. on' \in [Workload -> SUBSET Host]
    BY <1>1, <1>2, <1>4, <1>5 DEF TypeOK
  <2>2. excuse' \in [Workload -> [Host -> SUBSET Workload]]
    <3> DEFINE e == [h \in Host |-> IF h \in on'[w] THEN excuse[w][h] ELSE {}]
    <3>1. e \in [Host -> SUBSET Workload]
      BY <1>1 DEF TypeOK
    <3>2. excuse' = [excuse EXCEPT ![w] = e]
      BY <1>1, <1>3 DEF TypeOK
    <3> HIDE DEF e
    <3> QED
      BY <1>1, <3>1, <3>2 DEF TypeOK
  <2>3. /\ answer'[1] \in Workload /\ answer'[2].verdict = "ok"
        /\ answer'[2].slots = <<>> /\ answer'[2].hosts = <<>>
    BY <1>3, PlacementAssumption DEF None, Nowhere, Outcome
  <2>4. Range(answer'[2].slots) \subseteq Slot /\ Range(answer'[2].hosts) \subseteq Host
    BY <2>3 DEF Range
  <2>5. faults' \in 0 .. MaxFaults
    BY <1>1, <1>2, FaultCounts
  <2>6. pc' \in [Workload -> {"idle", "planned", "running"}]
    BY <1>1, <1>3 DEF TypeOK
  <2>7. plan' \in [Workload -> [hosts : SUBSET Host, silent : SUBSET Host, byStatus : BOOLEAN]]
    BY <1>1, <1>3 DEF TypeOK, Unplanned
  <2> QED
    BY <1>1, <1>3, <2>1, <2>2, <2>3, <2>4, <2>5, <2>6, <2>7 DEF TypeOK
<1>8. ~plan'[w].byStatus
  BY <1>5 DEF Unplanned
<1>9. ByStatusPlansSeated'
  <2> SUFFICES ASSUME NEW v \in Workload, plan'[v].byStatus
               PROVE  (policy # "greedy")' /\ (recipe[v].layout = <<>>)' /\ Seated(v, plan[v].hosts)'
    BY DEF ByStatusPlansSeated
  <2>1. plan'[v] = plan[v]
    BY <1>5, <1>8
  <2>2. policy # "greedy" /\ recipe[v].layout = <<>> /\ Seated(v, plan'[v].hosts)
    BY <1>1, <2>1 DEF ByStatusPlansSeated
  <2> QED
    BY <1>3, <2>2 DEF Seated, Seat, Candidates, Cut, Wanted, Eligible
<1>10. PlannersMeet'
  BY <1>1, <1>3, <1>5 DEF PlannersMeet
<1>11. NewcomersPlanned'
  <2> SUFFICES ASSUME NEW x \in Workload, NEW v \in Workload, NEW h \in plan'[x].hosts \ plan'[x].silent,
                      x # v, pc'[x] = "planned", plan'[x].byStatus, h \in on'[v]
               PROVE  v \in with'[x]
    BY DEF NewcomersPlanned
  <2>1. x # w /\ h \in on[v]
    BY <1>5
  <2> QED
    BY <1>1, <1>3, <1>5, <2>1 DEF NewcomersPlanned
<1>12. Exclusive'
  <2> SUFFICES ASSUME NEW x \in Workload, NEW v \in Workload, NEW h \in on'[x] \cap on'[v], x # v
               PROVE  v \in excuse'[x][h] \/ x \in excuse'[v][h]
    BY DEF Exclusive
  <2>1. excuse'[x][h] = excuse[x][h] /\ excuse'[v][h] = excuse[v][h]
    BY <1>5, <1>6
  <2>2. h \in on[x] \cap on[v]
    BY <1>5
  <2> QED
    BY <1>1, <2>1, <2>2 DEF Exclusive
<1> QED
  BY <1>7, <1>9, <1>10, <1>11, <1>12 DEF Inv

LEMMA StepKeeps ==
  ASSUME Inv, [Next]_vars
  PROVE  Inv'
<1>1. CASE UNCHANGED vars
  <2>1. TypeOK'
    BY <1>1 DEF vars, Inv, TypeOK
  <2>2. ByStatusPlansSeated'
    BY <1>1, SeatedStays DEF vars, Inv, ByStatusPlansSeated
  <2>3. PlannersMeet' /\ NewcomersPlanned' /\ Exclusive'
    BY <1>1 DEF vars, Inv, PlannersMeet, NewcomersPlanned, Exclusive
  <2> QED
    BY <2>1, <2>2, <2>3 DEF Inv
<1> QED
  BY <1>1, PlanKeeps, LaunchKeeps, StopKeeps DEF Next

THEOREM Invariant == Spec => []Inv
<1>1. Init => Inv
  BY Initially
<1>2. Inv /\ [Next]_vars => Inv'
  BY StepKeeps
<1> QED
  BY <1>1, <1>2, PTL DEF Spec

(* Every variable stays in its domain: hosts and accelerators that a       *)
(* scheduler answers with are those of the cluster.                        *)
THEOREM TypeCorrect == Spec => []TypeOK
<1>1. Inv => TypeOK
  BY DEF Inv
<1> QED
  BY <1>1, Invariant, PTL

(* Whole accelerators are shared only by those that could not know of each *)
(* other: a host kept silent, both planned at the same time, or nobody     *)
(* looked at a status.                                                     *)
THEOREM NeverSharedUnaware == Spec => []Exclusive
<1>1. Inv => Exclusive
  BY DEF Inv
<1> QED
  BY <1>1, Invariant, PTL

-----------------------------------------------------------------------------
(* What a planning that has just been done answers. *)
LEMMA PlannedIs ==
  ASSUME TypeOK, Next, NEW w \in Workload, Planned(w)
  PROVE  /\ Plan(w) /\ UNCHANGED <<policy, vendor, recipe, on>>
         /\ \E silent : Got = resolve_effective_hosts(w, silent)
<1>1. PICK v \in Workload : Plan(v) \/ Launch(v) \/ Stop(v)
  BY DEF Next
<1>2. Plan(v)
  BY <1>1 DEF Planned, Launch, Stop
<1>3. PICK silent : answer' = <<v, resolve_effective_hosts(v, silent)>>
  BY <1>2 DEF Plan
<1>4. v = w
  BY <1>3 DEF Planned
<1> QED
  BY <1>2, <1>3, <1>4 DEF Plan, Got

(* As many accelerators as ranks that are on them. *)
LEMMA SlotsCount ==
  ASSUME NEW slots \in Seq(Slot), NEW S, \A x \in S : \E k \in DOMAIN slots : slots[k] = x
  PROVE  IsFiniteSet(S) /\ Cardinality(S) <= Len(slots)
<1> DEFINE n == Len(slots)
           f == [x \in S |-> CHOOSE k \in 1 .. n : slots[k] = x]
<1>1. n \in Nat /\ DOMAIN slots = 1 .. n
  OBVIOUS
<1>2. ASSUME NEW x \in S
      PROVE  f[x] \in 1 .. n /\ slots[f[x]] = x
  <2>1. \E k \in 1 .. n : slots[k] = x
    BY <1>1
  <2> QED
    BY <2>1
<1>3. f \in [S -> 1 .. n]
  BY <1>2
<1> HIDE DEF f
<1>4. f \in Injection(S, 1 .. n)
  BY <1>2, <1>3 DEF Injection, IsInjective
<1>5. IsFiniteSet(1 .. n) /\ Cardinality(1 .. n) = n
  BY <1>1, Interval
<1>6. IsFiniteSet(S) /\ Cardinality(S) <= Cardinality(1 .. n)
  BY <1>4, <1>5, FS_Injection
<1> QED
  BY <1>5, <1>6

(* A rank is turned away when there is no room: a filling that falls short *)
(* has taken all of it.                                                    *)
LEMMA FullMeansNoRoom ==
  ASSUME TypeOK, NEW w \in Workload, NEW silent, NEW ask, NEW r, IsAsk(ask),
         r.slots \in Seq(Slot), Candidates(w) = Hosts,
         ByStatus(ask, w, Range(Candidates(w)), silent), Full(ask, Range(Candidates(w)), r)
  PROVE  Cardinality(Rooms(w, silent)) < ask.total
<1>1. ASSUME NEW s \in Rooms(w, silent)
      PROVE  \E k \in DOMAIN r.slots : r.slots[k] = s
  <2>1. s[1] \in Host /\ s[2] \in DOMAIN Gpus[s[1]] /\ s = <<s[1], s[2]>>
    BY SlotIs DEF Rooms
  <2>2. s[1] \in Range(Candidates(w))
    BY <2>1 DEF Host
  <2>3. ask.used[s[1]] = IF s[1] \in silent THEN 0 ELSE _status_excluding_intent(w, s[1])
    BY <2>2 DEF ByStatus
  <2>4. /\ ~_is_ambiguous_host_level(s[1], ask.used[s[1]])
        /\ s[2] > ask.used[s[1]] /\ Gpus[s[1]][s[2]] >= ask.need
    BY <2>3 DEF Rooms, ByStatus
  <2>5. s[2] \in Free(ask, s[1])
    BY <2>1, <2>4 DEF Free, Eligible
  <2> QED
    BY <2>1, <2>2, <2>4, <2>5 DEF Full
<1>2. IsFiniteSet(Rooms(w, silent)) /\ Cardinality(Rooms(w, silent)) <= Len(r.slots)
  BY <1>1, SlotsCount
<1>3. Cardinality(Rooms(w, silent)) \in Nat /\ Len(r.slots) \in Nat /\ Len(r.slots) < ask.total
  BY <1>2, FS_CardinalityType DEF Full
<1> QED
  BY <1>2, <1>3 DEF IsAsk

LEMMA FitsOrFullStep ==
  ASSUME TypeOK, Next, NEW w \in Workload, Planned(w), policy # "greedy",
         recipe[w].layout = <<>>, Everywhere(w)
  PROVE  /\ Got.verdict = "infeasible" =>
              Cardinality(Rooms(w, Got.silent)) < IF recipe[w].solo THEN 1 ELSE recipe[w].ranks
         /\ \A i, j \in DOMAIN Got.slots : i # j => Got.slots[i] # Got.slots[j]
         /\ \A i \in DOMAIN Got.slots : Gpus[Got.slots[i][1]][Got.slots[i][2]] >= recipe[w].memory
         /\ Got.slots # <<>> => Got.slots[1][1] = Got.hosts[1]
<1> DEFINE o == Got
<1>1. PICK silent : o = resolve_effective_hosts(w, silent)
  BY PlannedIs
<1> HIDE DEF o
<1>2. CASE Direct(w, silent, o)
  <2>1. o.slots = <<>> /\ o.verdict # "infeasible"
    BY <1>2 DEF Direct
  <2> QED
    BY <2>1 DEF o
<1>3. CASE ByScheduler(w, silent, o)
  <2>1. PICK ask, r : Answers(w, silent, o, ask, r)
    BY <1>3 DEF ByScheduler
  <2>2. /\ o.verdict = r.verdict /\ o.hosts = r.hosts /\ o.silent = silent
        /\ o.slots = <<>> \/ o.slots = r.slots
        /\ IsAsk(ask) /\ Packed(ask, Range(Candidates(w)), r)
        /\ ByStatus(ask, w, Range(Candidates(w)), silent)
        /\ r.verdict = "infeasible" => ask.total = Wanted(w)
    BY <2>1 DEF Answers, Outcome
  <2>3. /\ r.slots \in Seq(Slot) /\ OnChosen(ask, Range(Candidates(w)), r) /\ Alone(r)
        /\ r.verdict = "infeasible" => Full(ask, Range(Candidates(w)), r)
    BY <2>2 DEF Packed
  <2>4. Candidates(w) = Hosts
    BY DEF Everywhere, Candidates, Cut
  <2>5. o.verdict = "infeasible" => Cardinality(Rooms(w, o.silent)) < Wanted(w)
    BY <2>2, <2>3, <2>4, FullMeansNoRoom
  <2>6. \A i \in DOMAIN o.slots : Gpus[o.slots[i][1]][o.slots[i][2]] >= recipe[w].memory
    BY <2>2, <2>3 DEF OnChosen, Free, Eligible, ByStatus
  <2>7. \A i, j \in DOMAIN o.slots : i # j => o.slots[i] # o.slots[j]
    BY <2>2, <2>3 DEF Alone
  <2>8. o.slots # <<>> => o.slots[1][1] = o.hosts[1]
    BY <2>2, <2>3 DEF OnChosen
  <2> QED
    BY <2>5, <2>6, <2>7, <2>8 DEF o, Wanted
<1> QED
  BY <1>1, <1>2, <1>3, ResolveIs

(* No rank is turned away while there is room for all, and no two ranks    *)
(* get the same accelerator or one that is too small, for any cluster.     *)
THEOREM PacksAll == Spec => FitsOrFull
<1>1. TypeOK /\ [Next]_vars =>
        [\A w \in Workload : Planned(w) /\ policy # "greedy" /\ recipe[w].layout = <<>> /\ Everywhere(w) =>
           /\ Got.verdict = "infeasible" => Cardinality(Rooms(w, Got.silent)) < IF recipe[w].solo THEN 1 ELSE recipe[w].ranks
           /\ \A i, j \in DOMAIN Got.slots : i # j => Got.slots[i] # Got.slots[j]
           /\ \A i \in DOMAIN Got.slots : Gpus[Got.slots[i][1]][Got.slots[i][2]] >= recipe[w].memory
           /\ Got.slots # <<>> => Got.slots[1][1] = Got.hosts[1]]_vars
  BY FitsOrFullStep
<1> QED
  BY <1>1, TypeCorrect, PTL DEF Spec, FitsOrFull

-----------------------------------------------------------------------------
(* Hosts of a single vendor are uniform when one of them has no mixture.   *)
LEMMA OneVendor ==
  ASSUME Cardinality({vendor[h] : h \in Host}) = 1, NEW h \in Host, vendor[h] # Mixed
  PROVE  Uniform
<1> DEFINE V == {vendor[g] : g \in Host}
           f == [i \in 1 .. Len(Hosts) |-> vendor[Hosts[i]]]
<1>1. /\ Len(Hosts) \in Nat /\ \A i \in 1 .. Len(Hosts) : Hosts[i] \in Host
      /\ \A g \in Host : \E i \in 1 .. Len(Hosts) : Hosts[i] = g
  BY ConstantFacts
<1>2. f \in [1 .. Len(Hosts) -> V]
  BY <1>1
<1>3. ASSUME NEW v \in V
      PROVE  \E i \in 1 .. Len(Hosts) : f[i] = v
  <2>1. PICK g \in Host : v = vendor[g]
    OBVIOUS
  <2>2. PICK i \in 1 .. Len(Hosts) : Hosts[i] = g
    BY <1>1
  <2> QED
    BY <2>1, <2>2
<1>4. \A g \in Host : vendor[g] \in V
  OBVIOUS
<1>5. Cardinality(V) = 1
  OBVIOUS
<1> HIDE DEF V, f
<1>6. f \in Surjection(1 .. Len(Hosts), V)
  BY <1>2, <1>3 DEF Surjection
<1>7. IsFiniteSet(1 .. Len(Hosts))
  BY <1>1, FS_Interval
<1>8. IsFiniteSet(V)
  BY <1>6, <1>7, FS_Surjection
<1>9. PICK x : V = {x}
  BY <1>5, <1>8, FS_Singleton
<1> QED
  BY <1>4, <1>9 DEF Uniform

(* A deployment whose own hosts are idle otherwise finds its seats again.  *)
LEMMA SeatsAreLeft ==
  ASSUME TypeOK, NEW w \in Workload, NEW hosts, Seated(w, hosts),
         NEW silent, \A h \in hosts : Others(w, h) = {},
         NEW ask, NEW r, IsAsk(ask), ask.total = Wanted(w), r.slots \in Seq(Slot),
         ByStatus(ask, w, Range(Candidates(w)), silent)
  PROVE  ~Full(ask, Range(Candidates(w)), r)
<1> SUFFICES ASSUME Full(ask, Range(Candidates(w)), r)
             PROVE  FALSE
  OBVIOUS
<1>1. PICK f : Seat(w, hosts, f)
  BY DEF Seated
<1> DEFINE n == Wanted(w)
           S == {f[i] : i \in 1 .. n}
<1>2. ASSUME NEW i \in 1 .. n
      PROVE  \E k \in DOMAIN r.slots : r.slots[k] = f[i]
  <2>1. f[i] \in Slot /\ f[i][1] \in hosts /\ f[i][2] \in Eligible(f[i][1], 0, recipe[w].memory)
    BY <1>1 DEF Seat
  <2>2. f[i][1] \in Range(Candidates(w)) /\ f[i] = <<f[i][1], f[i][2]>>
    BY <2>1, SlotIs DEF Seated
  <2>3. ask.used[f[i][1]] = 0
    <3>1. _status_excluding_intent(w, f[i][1]) = 0
      BY <2>1, StatusCounts
    <3> QED
      BY <2>2, <3>1 DEF ByStatus
  <2>4. f[i][2] \in Free(ask, f[i][1]) /\ ~_is_ambiguous_host_level(f[i][1], ask.used[f[i][1]])
    BY <2>1, <2>3 DEF Free, ByStatus, _is_ambiguous_host_level
  <2> QED
    BY <2>2, <2>4 DEF Full
<1>3. IsFiniteSet(S) /\ Cardinality(S) <= Len(r.slots)
  <2>1. \A x \in S : \E k \in DOMAIN r.slots : r.slots[k] = x
    BY <1>2
  <2> HIDE DEF S
  <2> QED
    BY <2>1, SlotsCount
<1>4. n \in Nat
  BY RecipeIs
<1>5. f \in [1 .. n -> S]
  BY <1>1 DEF Seat
<1>6. \A i, j \in 1 .. n : i # j => f[i] # f[j]
  BY <1>1 DEF Seat
<1> HIDE DEF S, n
<1>7. f \in Injection(1 .. n, S)
  BY <1>5, <1>6 DEF Injection, IsInjective
<1>8. IsFiniteSet(1 .. n) /\ Cardinality(1 .. n) = n
  BY <1>4, FS_Interval
<1>9. Cardinality(1 .. n) <= Cardinality(S)
  BY <1>3, <1>7, FS_Injection
<1>10. Cardinality(S) \in Nat /\ Len(r.slots) \in Nat /\ Len(r.slots) < n
  BY <1>3, FS_CardinalityType DEF Full, n
<1> QED
  BY <1>3, <1>4, <1>8, <1>9, <1>10

LEMMA RelaunchFitsStep ==
  ASSUME Inv, Next, NEW w \in Workload, Planned(w), plan[w].byStatus, on[w] = plan[w].hosts,
         \A v \in Workload \ {w} : on[v] \cap on[w] = {},
         Cardinality({vendor[h] : h \in Host}) = 1
  PROVE  Got.verdict = "ok" \/ (Got.verdict = "error" /\ recipe[w].maxNodes # 0)
<1> DEFINE o == Got
<1>1. PICK silent : o = resolve_effective_hosts(w, silent)
  BY PlannedIs DEF Inv
<1>2. TypeOK /\ policy # "greedy" /\ recipe[w].layout = <<>> /\ Seated(w, plan[w].hosts)
  BY DEF Inv, ByStatusPlansSeated
<1> HIDE DEF o
<1>3. CASE Direct(w, silent, o)
  BY <1>2, <1>3 DEF Direct, o
<1>4. CASE ByScheduler(w, silent, o)
  <2>1. PICK ask, r : Answers(w, silent, o, ask, r)
    BY <1>4 DEF ByScheduler
  <2>2. /\ o.verdict = r.verdict /\ IsAsk(ask) /\ Packed(ask, Range(Candidates(w)), r)
        /\ ByStatus(ask, w, Range(Candidates(w)), silent)
        /\ ask.total = Wanted(w) \/ r.verdict = "ok"
    BY <1>2, <2>1 DEF Answers, Outcome
  <2>3. Uniform
    <3>1. PICK h \in plan[w].hosts : vendor[h] # Mixed
      BY <1>2 DEF Seated
    <3>2. h \in Host
      BY <1>2, CandidatesAre DEF Seated
    <3> QED
      BY <3>1, <3>2, OneVendor
  <2>4. \A h \in plan[w].hosts : Others(w, h) = {}
    BY DEF Others
  <2>5. ask.total = Wanted(w) => ~Full(ask, Range(Candidates(w)), r)
    BY <1>2, <2>2, <2>4, SeatsAreLeft DEF Packed
  <2>6. r.verdict = "ok"
    BY <2>2, <2>3, <2>5 DEF Packed
  <2> QED
    BY <2>2, <2>6 DEF o
<1> QED
  BY <1>1, <1>2, <1>3, <1>4, ResolveIs

(* A deployment that runs can be launched again on a cluster of one        *)
(* vendor: nothing but the limit on its hosts can refuse it.               *)
THEOREM RelaunchIsPlaced == Spec => RelaunchFits
<1>1. Inv /\ [Next]_vars =>
        [\A w \in Workload :
           (/\ Planned(w) /\ pc[w] = "running" /\ plan[w].byStatus
            /\ on[w] = plan[w].hosts
            /\ \A v \in Workload \ {w} : on[v] \cap on[w] = {}
            /\ Cardinality({vendor[h] : h \in Host}) = 1)
           => Got.verdict = "ok" \/ (Got.verdict = "error" /\ recipe[w].maxNodes # 0)]_vars
  BY RelaunchFitsStep
<1> QED
  BY <1>1, Invariant, PTL DEF Spec, RelaunchFits
=============================================================================
