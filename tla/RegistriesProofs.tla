-------------------------- MODULE RegistriesProofs --------------------------
(***************************************************************************)
(* Theorems about the registries, for any names, URLs, manifests, tables   *)
(* of moved and deprecated URLs, and any processes, commands and faults.   *)
(***************************************************************************)
EXTENDS Registries, FiniteSetTheorems, SequenceTheorems, WellFoundedInduction, TLAPS

-----------------------------------------------------------------------------
(* A list of registries is a function from some names to entries. *)
LEMMA ListIs ==
  ASSUME NEW e
  PROVE  e \in Entries <=> /\ e = [n \in DOMAIN e |-> e[n]] /\ DOMAIN e \subseteq Name
                           /\ \A n \in DOMAIN e : e[n] \in Entry
<1>1. ASSUME e \in Entries
      PROVE  /\ e = [n \in DOMAIN e |-> e[n]] /\ DOMAIN e \subseteq Name
             /\ \A n \in DOMAIN e : e[n] \in Entry
  <2>1. PICK S \in SUBSET Name : e \in [S -> Entry]
    BY <1>1 DEF Entries
  <2> QED
    BY <2>1
<1>2. ASSUME e = [n \in DOMAIN e |-> e[n]] /\ DOMAIN e \subseteq Name,
             \A n \in DOMAIN e : e[n] \in Entry
      PROVE  e \in Entries
  <2>1. e \in [DOMAIN e -> Entry]
    BY <1>2
  <2> QED
    BY <1>2, <2>1 DEF Entries
<1> QED
  BY <1>1, <1>2

LEMMA EmptyList == <<>> \in Entries /\ DOMAIN <<>> = {}
<1>1. DOMAIN <<>> = {}
  OBVIOUS
<1>2. <<>> = [n \in DOMAIN <<>> |-> <<>>[n]]
  BY <1>1
<1> QED
  BY <1>1, <1>2, ListIs

(* No registry of the list is to be moved or dropped any more. *)
Settled(ent) == \A n \in DOMAIN ent : ent[n].url \notin Deprecated \cup DOMAIN Moved

LEMMA DefaultsList == FALLBACK_DEFAULT_REGISTRIES \in Entries /\ Settled(FALLBACK_DEFAULT_REGISTRIES)
<1>1. \A n \in DOMAIN Shipped : Default(n) \in Entry
  BY RegistriesAssumption DEF Default, Entry
<1>2. FALLBACK_DEFAULT_REGISTRIES \in [DOMAIN Shipped -> Entry]
  BY <1>1 DEF FALLBACK_DEFAULT_REGISTRIES
<1>3. FALLBACK_DEFAULT_REGISTRIES \in Entries
  BY <1>2, RegistriesAssumption DEF Entries
<1>4. Settled(FALLBACK_DEFAULT_REGISTRIES)
  BY RegistriesAssumption DEF Settled, FALLBACK_DEFAULT_REGISTRIES, Default
<1> QED
  BY <1>3, <1>4

Yaml(f) == f \in [is: {"yaml"}, version: 0 .. 1, ent: Entries]

(* A migrated list is a list, without URLs to be moved or dropped. *)
LEMMA MigratedList ==
  ASSUME NEW f, Yaml(f)
  PROVE  Migrated(f) \in Entries /\ Settled(Migrated(f))
<1> DEFINE moved(n) == f.ent[n].url \in DOMAIN Moved
           url(n) == IF moved(n) THEN Moved[f.ent[n].url] ELSE f.ent[n].url
           ships(n) == url(n) \in _default_trusted_urls
           S == {m \in DOMAIN f.ent : url(m) \notin Deprecated}
           entry(n) == [url |-> url(n), enabled |-> f.ent[n].enabled,
                        trusted |-> IF f.version = 0 THEN ships(n)
                                    ELSE f.ent[n].trusted \/ (moved(n) /\ ships(n))]
<1>1. Migrated(f) = [n \in S |-> entry(n)]
  BY DEF Migrated
<1>2. /\ DOMAIN f.ent \subseteq Name
      /\ \A n \in DOMAIN f.ent : f.ent[n].url \in Url /\ f.ent[n].enabled \in BOOLEAN
                                 /\ f.ent[n].trusted \in BOOLEAN
  BY ListIs DEF Yaml, Entry
<1>3. \A n \in DOMAIN f.ent : url(n) \in Url \ DOMAIN Moved
  BY <1>2, RegistriesAssumption
<1>4. \A n \in S : entry(n) \in Entry
  <2> SUFFICES ASSUME NEW n \in S
               PROVE  entry(n) \in Entry
    OBVIOUS
  <2>1. ships(n) \in BOOLEAN /\ (f.ent[n].trusted \/ (moved(n) /\ ships(n))) \in BOOLEAN
    OBVIOUS
  <2>2. url(n) \in Url /\ f.ent[n].enabled \in BOOLEAN
    BY <1>2, <1>3
  <2> HIDE DEF url, ships, moved
  <2> QED
    BY <2>1, <2>2 DEF Entry
<1>5. Migrated(f) \in [S -> Entry] /\ S \subseteq Name
  BY <1>1, <1>2, <1>4
<1>6. Migrated(f) \in Entries
  BY <1>5 DEF Entries
<1>7. \A n \in S : entry(n).url = url(n) /\ url(n) \in Url \ (DOMAIN Moved \cup Deprecated)
  BY <1>3
<1> HIDE DEF entry, S, url
<1>8. DOMAIN Migrated(f) = S /\ \A n \in S : Migrated(f)[n] = entry(n)
  BY <1>1
<1>9. Settled(Migrated(f))
  BY <1>7, <1>8 DEF Settled
<1> QED
  BY <1>6, <1>9

(* What is not moved or dropped stays as it is, where nothing is to be saved. *)
LEMMA MigratedSame ==
  ASSUME NEW f, Yaml(f), ~NeedsSaving(f)
  PROVE  /\ DOMAIN Migrated(f) = {n \in DOMAIN f.ent : f.ent[n].url \notin Deprecated}
         /\ \A n \in DOMAIN Migrated(f) : Migrated(f)[n] = f.ent[n]
<1>1. \A n \in DOMAIN f.ent : f.ent[n] \in Entry
  BY ListIs DEF Yaml
<1>2. \A n \in DOMAIN f.ent :
        f.ent[n] = [url |-> f.ent[n].url, enabled |-> f.ent[n].enabled, trusted |-> f.ent[n].trusted]
  BY <1>1 DEF Entry
<1>3. f.version = 1 /\ \A n \in DOMAIN f.ent : f.ent[n].url \notin DOMAIN Moved
  BY DEF NeedsSaving, Yaml
<1>4. \A n \in DOMAIN f.ent : f.ent[n].trusted \in BOOLEAN
  BY <1>1 DEF Entry
<1> QED
  BY <1>2, <1>3, <1>4 DEF Migrated

(* A list that was saved after a migration reads as it was written. *)
LEMMA MigratedStays ==
  ASSUME NEW f, Yaml(f), f.version = 1, Settled(f.ent)
  PROVE  Migrated(f) = f.ent /\ ~NeedsSaving(f)
<1>1. ~NeedsSaving(f)
  BY DEF NeedsSaving, Settled
<1>2. f.ent = [n \in DOMAIN f.ent |-> f.ent[n]]
  BY ListIs DEF Yaml
<1>3. Migrated(f) = [n \in DOMAIN Migrated(f) |-> Migrated(f)[n]]
  BY MigratedList, ListIs
<1>4. DOMAIN Migrated(f) = DOMAIN f.ent
  BY <1>1, MigratedSame DEF Settled
<1>5. \A n \in DOMAIN f.ent : Migrated(f)[n] = f.ent[n]
  BY <1>1, <1>4, MigratedSame
<1>6. [n \in DOMAIN Migrated(f) |-> Migrated(f)[n]] = [n \in DOMAIN f.ent |-> f.ent[n]]
  BY <1>4, <1>5
<1> QED
  BY <1>1, <1>2, <1>3, <1>6

(* Reading the list gives a list. *)
LEMMA ReadIs ==
  ASSUME TypeOK, NEW tried \in BOOLEAN, NEW r \in _load_registries(tried)
  PROVE  /\ r.ent \in Entries /\ r.dirty \in BOOLEAN
         /\ r.dirty => Settled(r.ent)
         /\ file.is = "yaml" => r.ent = Migrated(file) /\ r.dirty = NeedsSaving(file)
         /\ file.is = "torn" /\ file.parses => r.ent = <<>> /\ ~r.dirty
         /\ file.is # "yaml" /\ ~(file.is = "torn" /\ file.parses) =>
               r.ent = FALLBACK_DEFAULT_REGISTRIES
<1>1. CASE file.is = "yaml"
  <2>1. Yaml(file)
    BY <1>1 DEF TypeOK, File, Yaml
  <2>2. r = Read(Migrated(file), NeedsSaving(file))
    BY <1>1 DEF _load_registries
  <2>3. r.ent = Migrated(file) /\ r.dirty = NeedsSaving(file)
    BY <2>2 DEF Read
  <2>4. NeedsSaving(file) \in BOOLEAN
    BY DEF NeedsSaving
  <2> QED
    BY <1>1, <2>1, <2>3, <2>4, MigratedList
<1>2. CASE file.is = "torn" /\ file.parses
  <2>1. r = Read(<<>>, FALSE)
    BY <1>2 DEF _load_registries
  <2> QED
    BY <1>2, <2>1, EmptyList DEF Read
<1>3. CASE file.is # "yaml" /\ ~(file.is = "torn" /\ file.parses)
  <2>1. r \in _default_registries(tried)
    BY <1>3 DEF _load_registries
  <2>2. PICK d \in {FALSE} \cup {~tried} : r = Read(FALLBACK_DEFAULT_REGISTRIES, d)
    BY <2>1 DEF _default_registries
  <2>3. r.ent = FALLBACK_DEFAULT_REGISTRIES /\ r.dirty = d
    BY <2>2 DEF Read
  <2>4. d \in BOOLEAN
    OBVIOUS
  <2> QED
    BY <1>3, <2>3, <2>4, DefaultsList
<1> QED
  BY <1>1, <1>2, <1>3

LEMMA ReadForMutationIs ==
  ASSUME TypeOK, NEW tried \in BOOLEAN, NEW r \in _load_entries_for_mutation(tried)
  PROVE  /\ r.ent \in Entries /\ r.dirty \in BOOLEAN
         /\ r.dirty => Settled(r.ent)
         /\ file.is = "yaml" => \/ r.ent = file.ent /\ file.version = 1 /\ ~r.dirty
                                \/ r.ent = Migrated(file) /\ r.dirty /\ file.version = 0
         /\ file.is = "torn" /\ file.parses => r.ent = <<>> /\ ~r.dirty
         /\ file.is # "yaml" /\ ~(file.is = "torn" /\ file.parses) =>
               r.ent = FALLBACK_DEFAULT_REGISTRIES
<1>1. CASE file.is = "yaml" /\ file.version = 1
  <2>1. r = Read(file.ent, FALSE)
    BY <1>1 DEF _load_entries_for_mutation
  <2>2. file.ent \in Entries
    BY <1>1 DEF TypeOK, File
  <2> QED
    BY <1>1, <2>1, <2>2 DEF Read
<1>2. CASE ~(file.is = "yaml" /\ file.version = 1)
  <2>1. r \in _load_registries(tried)
    BY <1>2 DEF _load_entries_for_mutation
  <2>2. file.is = "yaml" => file.version = 0
    BY <1>2 DEF TypeOK, File
  <2>3. file.is = "yaml" => NeedsSaving(file)
    BY <2>2 DEF NeedsSaving
  <2> QED
    BY <2>1, <2>2, <2>3, ReadIs
<1> QED
  BY <1>1, <1>2

-----------------------------------------------------------------------------
(* The least of some positions. *)
LEMMA LeastIs ==
  ASSUME NEW S \in SUBSET Nat, S # {}
  PROVE  (CHOOSE i \in S : \A k \in S : i <= k) \in S
<1> DEFINE Less == {pair \in Nat \X Nat : pair[1] < pair[2]}
<1>1. IsWellFoundedOn(Less, Nat)
  BY NatLessThanWellFounded DEF OpToRel
<1>2. PICK p \in S : \A q \in S : <<q, p>> \notin Less
  BY <1>1, WFMin
<1>3. \A q \in S : p <= q
  <2> SUFFICES ASSUME NEW q \in S
               PROVE  p <= q
    OBVIOUS
  <2>1. q < p => <<q, p>> \in Less
    OBVIOUS
  <2> QED
    BY <1>2, <2>1
<1> QED
  BY <1>3

(* The commands are sequences of phases. *)
LEMMA PhasesOf ==
  ASSUME NEW c \in Command \cup {registry_update}
  PROVE  c \in Seq(Phases) \ {<<>>}
<1>1. ASSUME NEW what \in {"add", "trust", "update"}, NEW u \in DOMAIN Manifest
      PROVE  Each(what, u) \in Seq(Phases) \ {<<>>}
  <2>1. /\ Manifest[u] \in Seq(Name) /\ Len(Manifest[u]) \in Nat \ {0}
        /\ DOMAIN Manifest[u] = 1 .. Len(Manifest[u]) /\ u \in Url
    BY RegistriesAssumption
  <2>2. \A i \in DOMAIN Manifest[u] : Phase(what, Manifest[u][i], u) \in Phases
    BY <2>1 DEF Phase, Phases
  <2>3. Each(what, u) \in [1 .. Len(Manifest[u]) -> Phases]
    BY <2>1, <2>2 DEF Each
  <2>4. Each(what, u) \in Seq(Phases) /\ Len(Each(what, u)) = Len(Manifest[u])
    BY <2>1, <2>3
  <2> QED
    BY <2>1, <2>4
<1>2. ASSUME NEW what \in {"cleanup", "restore", "reset", "update", "ensure"}
      PROVE  Whole(what) \in Seq(Phases) \ {<<>>}
  BY DEF Whole, Phase, Phases
<1>3. \A s, t \in Seq(Phases) : s # <<>> => s \o t \in Seq(Phases) \ {<<>>}
  <2> SUFFICES ASSUME NEW s \in Seq(Phases), NEW t \in Seq(Phases), s # <<>>
               PROVE  s \o t \in Seq(Phases) \ {<<>>}
    OBVIOUS
  <2>1. s \o t \in Seq(Phases) /\ Len(s \o t) = Len(s) + Len(t)
    BY ConcatProperties
  <2>2. Len(s) \in Nat \ {0} /\ Len(t) \in Nat
    OBVIOUS
  <2> QED
    BY <2>1, <2>2
<1>4. ASSUME NEW u \in DOMAIN Manifest, NEW t \in BOOLEAN
      PROVE  registry_add(u, t) \in Seq(Phases) \ {<<>>}
  <2> DEFINE a == Each("add", u)
             b == IF t THEN Each("trust", u) ELSE <<>>
             d == Each("update", u)
  <2>1. a \in Seq(Phases) \ {<<>>} /\ b \in Seq(Phases) /\ d \in Seq(Phases)
    BY <1>1
  <2>2. registry_add(u, t) = (a \o b) \o d
    BY DEF registry_add
  <2> HIDE DEF a, b, d
  <2>3. a \o b \in Seq(Phases) \ {<<>>}
    BY <1>3, <2>1
  <2> QED
    BY <1>3, <2>1, <2>2, <2>3
<1>5. registry_update \in Seq(Phases) \ {<<>>}
  <2>1. Whole("cleanup") \o Whole("restore") \in Seq(Phases) \ {<<>>}
    BY <1>2, <1>3
  <2> QED
    BY <1>2, <1>3, <2>1 DEF registry_update
<1>6. Whole("reset") \o registry_update \in Seq(Phases) \ {<<>>}
  BY <1>2, <1>3, <1>5
<1>7. ASSUME NEW what \in {"remove", "enable", "disable", "trust", "untrust", "update"}, NEW n \in Name
      PROVE  <<Phase(what, n, Nothing)>> \in Seq(Phases) \ {<<>>}
  BY DEF Phase, Phases
<1>8. \/ \E u \in DOMAIN Manifest, t \in BOOLEAN : c = registry_add(u, t)
      \/ \E what \in {"remove", "enable", "disable", "trust", "untrust", "update"}, n \in Name :
           c = <<Phase(what, n, Nothing)>>
      \/ c = Whole("reset") \o registry_update
      \/ c = Whole("ensure")
      \/ c = registry_update
  BY DEF Command
<1> QED
  BY <1>2, <1>4, <1>5, <1>6, <1>7, <1>8

-----------------------------------------------------------------------------
(* What a job has of its own at each step, whatever other processes do: it *)
(* syncs enabled registries, each once, in the phases that update.         *)
phase(j) == Head(j.phases)

Local(j) ==
    /\ j.todo \cup j.good \subseteq Enabled(j.ent) /\ j.todo \cap j.good = {}
    /\ j.pc \notin Syncing \cup {"next"} => j.todo = {} /\ j.good = {} /\ j.blind = {}
    /\ j.pc \in Syncing => j.n \in j.todo /\ j.url = j.ent[j.n].url
    /\ j.pc \in Syncing \cup {"next"} => phase(j).op \in {"update", "ensure"}
    /\ j.pc \in {"save", "saving"} => phase(j).op \notin {"update", "ensure"}
    /\ j.pc = "orphans" => phase(j).op = "cleanup"
    /\ j.pc \in {"unlink_file", "clear"} => phase(j).op = "reset"

Sound(j) == j = Idle \/ (j \in Job /\ Local(j))

JobsInv ==
    /\ \A p \in Process : Sound(job[p])
    /\ \A p \in Process : job[p] # Idle => \A u \in Url : job[p].since[u] <= head[u]

LEMMA NotIdle == \A j \in Job : j # Idle /\ j.pc # "idle"
BY DEF Job, Idle, Syncing

(* The phase a job is in. *)
LEMMA PhaseIs ==
  ASSUME NEW j \in Job
  PROVE  /\ phase(j) \in Phases
         /\ phase(j).op = "add" => phase(j).n \in Name /\ phase(j).url \in Url
         /\ phase(j).op \in {"remove", "enable", "disable", "trust", "untrust"} => phase(j).n \in Name
         /\ phase(j).op \in {"cleanup", "restore", "reset", "ensure"} => phase(j).n = Nothing
         /\ phase(j).n \in Name \cup {Nothing}
<1>1. j.phases \in Seq(Phases) /\ j.phases # <<>>
  BY DEF Job
<1>2. phase(j) \in Phases
  BY <1>1, HeadTailProperties DEF phase
<1> QED
  BY <1>2 DEF Phases

LEMMA AdvanceIs ==
  ASSUME NEW j \in Job
  PROVE  \/ Advance(j) = Idle
         \/ /\ Advance(j) \in Job /\ Advance(j).pc = "load" /\ Local(Advance(j))
            /\ Advance(j).since = j.since
<1> DEFINE rest == {i \in 2 .. Len(j.phases) : j.phases[i].n \notin j.skip}
           next == CHOOSE i \in rest : \A k \in rest : i <= k
           later == SubSeq(j.phases, next, Len(j.phases))
           a == [j EXCEPT !.phases = later, !.pc = "load", !.todo = {}, !.good = {}, !.blind = {}]
<1>1. Advance(j) = IF rest = {} THEN Idle ELSE a
  BY DEF Advance
<1>2. CASE rest # {}
  <2>1. j.phases \in Seq(Phases) /\ Len(j.phases) \in Nat /\ rest \in SUBSET Nat
    BY DEF Job
  <2>2. next \in rest
    BY <1>2, <2>1, LeastIs
  <2> HIDE DEF next
  <2>3. next \in 2 .. Len(j.phases) /\ \A i \in next .. Len(j.phases) : j.phases[i] \in Phases
    BY <2>1, <2>2
  <2>4. later \in Seq(Phases) /\ Len(later) = Len(j.phases) - next + 1
    BY <2>1, <2>3, SubSeqProperties
  <2>5. later # <<>>
    BY <2>1, <2>3, <2>4
  <2> HIDE DEF later
  <2>6. a \in Job
    BY <2>4, <2>5 DEF Job
  <2>7. a.pc = "load" /\ a.todo = {} /\ a.good = {} /\ a.blind = {} /\ a.since = j.since
    BY DEF Job
  <2> HIDE DEF a
  <2>8. Local(a)
    BY <2>7 DEF Local, Syncing
  <2> QED
    BY <1>1, <1>2, <2>6, <2>7, <2>8
<1> QED
  BY <1>1, <1>2

-----------------------------------------------------------------------------
(* The records the steps make are jobs. *)
Places == Syncing \cup {"load", "persist", "persisting", "act", "save", "saving", "orphans",
                        "unlink_file", "clear", "next"}

LEMMA Shapes ==
  ASSUME NEW j \in Job, NEW c \in Places
  PROVE  /\ [j EXCEPT !.pc = c] \in Job
         /\ \A e \in Entries : [j EXCEPT !.pc = c, !.ent = e] \in Job
         /\ \A e \in Entries, b \in BOOLEAN : [j EXCEPT !.ent = e, !.tried = b, !.pc = c] \in Job
         /\ \A S \in SUBSET Name : [j EXCEPT !.pc = c, !.todo = S] \in Job
         /\ \A S \in SUBSET Name : [j EXCEPT !.pc = c, !.blind = S] \in Job
         /\ \A K \in SUBSET (Name \cup Url) : [j EXCEPT !.pc = c, !.kids = K] \in Job
<1>1. [j EXCEPT !.pc = c] \in Job
  BY DEF Job, Places
<1>2. ASSUME NEW e \in Entries PROVE [j EXCEPT !.pc = c, !.ent = e] \in Job
  BY DEF Job, Places
<1>3. ASSUME NEW e \in Entries, NEW b \in BOOLEAN
      PROVE  [j EXCEPT !.ent = e, !.tried = b, !.pc = c] \in Job
  BY DEF Job, Places
<1>4. ASSUME NEW S \in SUBSET Name PROVE [j EXCEPT !.pc = c, !.todo = S] \in Job
  BY DEF Job, Places
<1>5. ASSUME NEW S \in SUBSET Name PROVE [j EXCEPT !.pc = c, !.blind = S] \in Job
  BY DEF Job, Places
<1>6. ASSUME NEW K \in SUBSET (Name \cup Url) PROVE [j EXCEPT !.pc = c, !.kids = K] \in Job
  BY DEF Job, Places
<1> QED
  BY <1>1, <1>2, <1>3, <1>4, <1>5, <1>6

LEMMA ChosenShape ==
  ASSUME NEW j \in Job, NEW n \in Name, NEW u \in Url, NEW m \in {"single", "shared"},
         NEW S \in SUBSET Name, NEW c \in Places
  PROVE  [j EXCEPT !.n = n, !.url = u, !.mode = m, !.paths = S, !.pc = c] \in Job
<1>1. n \in Name \cup {Nothing} /\ u \in Url \cup {Nothing}
  OBVIOUS
<1> QED
  BY <1>1 DEF Job, Places

(* A synced registry leaves the list of those to sync. *)
LEMMA SyncedIs ==
  ASSUME NEW j \in Job, Local(j), j.pc \in Syncing, NEW ok \in BOOLEAN
  PROVE  /\ Synced(j, ok) \in Job /\ Local(Synced(j, ok))
         /\ Synced(j, ok).pc = "next" /\ Synced(j, ok).todo = j.todo \ {j.n}
         /\ Synced(j, ok).good = IF ok THEN j.good \cup {j.n} ELSE j.good \ {j.n}
         /\ Synced(j, ok).since = j.since /\ Synced(j, ok).ent = j.ent
         /\ Synced(j, ok).blind = j.blind /\ Synced(j, ok).phases = j.phases
         /\ Synced(j, ok).n = j.n /\ Synced(j, ok).url = j.url
         /\ Synced(j, ok).mode = j.mode /\ Synced(j, ok).paths = j.paths
<1> DEFINE good == IF ok THEN j.good \cup {j.n} ELSE j.good \ {j.n}
           a == [j EXCEPT !.pc = "next", !.todo = j.todo \ {j.n}, !.good = good]
<1>1. Synced(j, ok) = a
  BY DEF Synced
<1>2. j.n \in Name /\ j.n \in Enabled(j.ent) /\ j.todo \subseteq Name /\ j.good \subseteq Name
  BY DEF Job, Local, Enabled
<1>3. good \subseteq Name
  BY <1>2
<1> HIDE DEF good
<1>4. a \in Job
  BY <1>2, <1>3 DEF Job
<1>5. /\ a.pc = "next" /\ a.todo = j.todo \ {j.n} /\ a.good = good /\ a.since = j.since
      /\ a.ent = j.ent /\ a.blind = j.blind /\ a.phases = j.phases
      /\ a.n = j.n /\ a.url = j.url /\ a.mode = j.mode /\ a.paths = j.paths
  BY DEF Job
<1> HIDE DEF a
<1>6. Local(a)
  BY <1>2, <1>5 DEF Local, Syncing, phase, good
<1> QED
  BY <1>1, <1>4, <1>5, <1>6 DEF good

LEMMA Working ==
  ASSUME JobsInv, NEW p \in Process, job[p].pc # "idle"
  PROVE  job[p] \in Job /\ Local(job[p])
BY DEF JobsInv, Sound, Idle

(* A process goes from job to job. *)
Moves(p) == \E x : Goto(p, x) /\ Sound(x) /\ (x # Idle => x.since = job[p].since)

LEMMA LoadMoves ==
  ASSUME TypeOK, JobsInv, NEW p \in Process, Load(p)
  PROVE  Moves(p)
<1> DEFINE j == job[p]
<1>1. j \in Job /\ Local(j) /\ j.pc = "load"
  BY Working DEF Load, At
<1>2. PICK r : /\ r.ent \in Entries
               /\ Goto(p, [j EXCEPT !.ent = r.ent,
                             !.tried = (@ \/ file.is = "absent" \/ (file.is = "torn" /\ ~file.parses)),
                             !.pc = IF r.dirty THEN "persist" ELSE "act"])
  <2>1. j.tried \in BOOLEAN
    BY <1>1 DEF Job
  <2>2. PICK r \in IF op(p) \in {"cleanup", "restore"} THEN _load_entries_for_mutation(j.tried)
                   ELSE _load_registries(j.tried) :
          Goto(p, [j EXCEPT !.ent = r.ent,
                     !.tried = (@ \/ file.is = "absent" \/ (file.is = "torn" /\ ~file.parses)),
                     !.pc = IF r.dirty THEN "persist" ELSE "act"])
    BY Zenon DEF Load
  <2>3. r.ent \in Entries
    BY <2>1, <2>2, ReadIs, ReadForMutationIs
  <2> QED
    BY <2>2, <2>3
<1> DEFINE b == j.tried \/ file.is = "absent" \/ (file.is = "torn" /\ ~file.parses)
           c == IF r.dirty THEN "persist" ELSE "act"
           x == [j EXCEPT !.ent = r.ent, !.tried = b, !.pc = c]
<1>3. b \in BOOLEAN /\ c \in {"persist", "act"}
  OBVIOUS
<1> HIDE DEF b, c
<1>4. Goto(p, x)
  BY <1>2 DEF b, c
<1>5. x \in Job
  <2>1. c \in Places
    BY <1>3 DEF Places
  <2> QED
    BY <1>1, <1>2, <1>3, <2>1, Shapes
<1>6. x.pc = c /\ x.todo = j.todo /\ x.good = j.good /\ x.blind = j.blind /\ x.since = j.since
  BY <1>1 DEF Job
<1> HIDE DEF x
<1>7. Local(x)
  BY <1>1, <1>3, <1>6 DEF Local, Syncing
<1> QED
  BY <1>4, <1>5, <1>6, <1>7 DEF Moves, Sound


(* What a phase about an entry does: the next place with another list. *)
LEMMA Rewritten ==
  ASSUME NEW j \in Job, Local(j), j.pc \in {"act", "clear"}, NEW e \in Entries,
         phase(j).op \notin {"update", "ensure"}
  PROVE  LET x == [j EXCEPT !.pc = "save", !.ent = e]
         IN  /\ x \in Job /\ Local(x) /\ x.since = j.since /\ x.ent = e /\ x.pc = "save"
             /\ x.phases = j.phases
<1> DEFINE x == [j EXCEPT !.pc = "save", !.ent = e]
<1>1. x \in Job
  BY Shapes DEF Places
<1>2. /\ x.pc = "save" /\ x.ent = e /\ x.phases = j.phases /\ x.since = j.since
      /\ x.todo = j.todo /\ x.good = j.good /\ x.blind = j.blind
  BY DEF Job
<1> HIDE DEF x
<1>3. Local(x)
  BY <1>2 DEF Local, Syncing, phase
<1> QED
  BY <1>1, <1>2, <1>3 DEF x

LEMMA TruncateMoves ==
  ASSUME TypeOK, JobsInv, NEW p \in Process, Truncate(p)
  PROVE  Moves(p)
<1> DEFINE j == job[p]
           c == IF j.pc = "persist" THEN "persisting" ELSE "saving"
           x == [j EXCEPT !.pc = c]
<1>1. j \in Job /\ Local(j) /\ j.pc \in {"persist", "save"}
  BY Working DEF Truncate
<1>2. Goto(p, x)
  BY Zenon DEF Truncate
<1>3. x \in Job
  BY <1>1, Shapes DEF Places
<1>4. /\ x.pc = c /\ x.phases = j.phases /\ x.since = j.since /\ x.ent = j.ent
      /\ x.todo = j.todo /\ x.good = j.good /\ x.blind = j.blind
  BY <1>1 DEF Job
<1> HIDE DEF x
<1>5. Local(x)
  BY <1>1, <1>4 DEF Local, Syncing, phase
<1> QED
  BY <1>2, <1>3, <1>4, <1>5 DEF Moves, Sound

LEMMA SaveMoves ==
  ASSUME TypeOK, JobsInv, NEW p \in Process, _save_registries(p)
  PROVE  Moves(p)
<1> DEFINE j == job[p]
           x == [j EXCEPT !.pc = "act"]
           y == [j EXCEPT !.pc = "orphans"]
<1>1. j \in Job /\ Local(j) /\ j.pc \in {"persisting", "saving"}
  BY Working DEF _save_registries
<1>2. Goto(p, IF j.pc = "persisting" THEN x
              ELSE IF phase(j).op = "cleanup" THEN y ELSE Advance(j))
  BY Zenon DEF _save_registries, op, phase
<1>3. x \in Job /\ y \in Job
  BY <1>1, Shapes DEF Places
<1>4. /\ x.pc = "act" /\ x.since = j.since /\ x.todo = j.todo /\ x.good = j.good
      /\ x.blind = j.blind
      /\ y.pc = "orphans" /\ y.since = j.since /\ y.todo = j.todo /\ y.good = j.good
      /\ y.blind = j.blind /\ y.phases = j.phases
  BY <1>1 DEF Job
<1> HIDE DEF x, y
<1>5. Local(x) /\ (phase(j).op = "cleanup" => Local(y))
  BY <1>1, <1>4 DEF Local, Syncing, phase
<1> QED
  BY <1>1, <1>2, <1>3, <1>4, <1>5, AdvanceIs DEF Moves, Sound

LEMMA AddMoves ==
  ASSUME TypeOK, JobsInv, NEW p \in Process, add_registry(p)
  PROVE  Moves(p)
<1> DEFINE j == job[p]
           n == phase(j).n
           y == [j EXCEPT !.skip = j.skip \cup {n}]
           e == [m \in DOMAIN j.ent \cup {n} |->
                   IF m # n THEN j.ent[m]
                   ELSE [url |-> phase(j).url, enabled |-> TRUE, trusted |-> FALSE]]
           x == [j EXCEPT !.pc = "save", !.ent = e]
<1>1. j \in Job /\ Local(j) /\ j.pc = "act" /\ phase(j).op = "add"
  BY Working DEF add_registry, At, op, phase
<1>2. Goto(p, IF n \in Reserved THEN Idle
              ELSE IF n \in DOMAIN j.ent THEN Advance(y) ELSE x)
  BY <1>1 DEF add_registry, phase
<1>3. n \in Name /\ phase(j).url \in Url
  BY <1>1, PhaseIs
<1>4. y \in Job /\ y.since = j.since
  BY <1>1, <1>3 DEF Job
<1>5. e \in Entries
  <2>1. j.ent \in Entries
    BY <1>1 DEF Job
  <2>2. DOMAIN j.ent \subseteq Name /\ \A m \in DOMAIN j.ent : j.ent[m] \in Entry
    BY <2>1, ListIs
  <2>3. [url |-> phase(j).url, enabled |-> TRUE, trusted |-> FALSE] \in Entry
    BY <1>3 DEF Entry
  <2>4. e \in [DOMAIN j.ent \cup {n} -> Entry]
    BY <2>2, <2>3
  <2> QED
    BY <1>3, <2>2, <2>4 DEF Entries
<1> HIDE DEF e, y
<1>6. x \in Job /\ Local(x) /\ x.since = j.since
  BY <1>1, <1>5, Rewritten
<1> HIDE DEF x
<1> QED
  BY <1>2, <1>4, <1>6, AdvanceIs DEF Moves, Sound

(* Without or with the changed entry, a list is a list. *)
LEMMA EditedList ==
  ASSUME NEW ent \in Entries, NEW n \in DOMAIN ent,
         NEW what \in {"remove", "enable", "disable", "trust", "untrust"}
  PROVE  [m \in IF what = "remove" THEN DOMAIN ent \ {n} ELSE DOMAIN ent |->
            IF m = n THEN Edited(ent[m], what) ELSE ent[m]] \in Entries
<1> DEFINE D == IF what = "remove" THEN DOMAIN ent \ {n} ELSE DOMAIN ent
<1>1. DOMAIN ent \subseteq Name /\ \A m \in DOMAIN ent : ent[m] \in Entry
  BY ListIs
<1>2. what # "remove" => Edited(ent[n], what) \in Entry
  BY <1>1 DEF Edited, Entry
<1>3. what = "remove" => n \notin D
  OBVIOUS
<1>4. D \subseteq DOMAIN ent
  OBVIOUS
<1> HIDE DEF D
<1>5. [m \in D |-> IF m = n THEN Edited(ent[m], what) ELSE ent[m]] \in [D -> Entry]
  BY <1>1, <1>2, <1>3, <1>4
<1>6. [m \in D |-> IF m = n THEN Edited(ent[m], what) ELSE ent[m]] \in Entries
  BY <1>1, <1>4, <1>5 DEF Entries
<1> QED
  BY <1>6 DEF D

LEMMA EditMoves ==
  ASSUME TypeOK, JobsInv, NEW p \in Process, Edit(p)
  PROVE  Moves(p)
<1> DEFINE j == job[p]
           n == phase(j).n
           what == phase(j).op
           e == [m \in IF what = "remove" THEN DOMAIN j.ent \ {n} ELSE DOMAIN j.ent |->
                   IF m = n THEN Edited(j.ent[m], what) ELSE j.ent[m]]
           x == [j EXCEPT !.pc = "save", !.ent = e]
<1>1. /\ j \in Job /\ Local(j) /\ j.pc = "act"
      /\ what \in {"remove", "enable", "disable", "trust", "untrust"}
  BY Working DEF Edit, At, op, phase
<1>2. Goto(p, IF n \notin DOMAIN j.ent THEN Idle ELSE x)
  BY <1>1 DEF Edit, phase, op
<1>3. n \in DOMAIN j.ent => e \in Entries
  <2>1. j.ent \in Entries
    BY <1>1 DEF Job
  <2> QED
    BY <1>1, <2>1, EditedList
<1> HIDE DEF e
<1>4. n \in DOMAIN j.ent => x \in Job /\ Local(x) /\ x.since = j.since
  BY <1>1, <1>3, Rewritten
<1> HIDE DEF x
<1> QED
  BY <1>2, <1>4 DEF Moves, Sound

LEMMA RestoreMoves ==
  ASSUME TypeOK, JobsInv, NEW p \in Process, restore_missing_defaults(p)
  PROVE  Moves(p)
<1> DEFINE j == job[p]
           e == [m \in DOMAIN j.ent \cup DOMAIN Shipped |->
                   IF m \in DOMAIN j.ent THEN j.ent[m] ELSE Default(m)]
           x == [j EXCEPT !.pc = "save", !.ent = e]
<1>1. j \in Job /\ Local(j) /\ j.pc = "act" /\ phase(j).op = "restore"
  BY Working DEF restore_missing_defaults, At, op, phase
<1>2. Goto(p, IF DOMAIN Shipped \subseteq DOMAIN j.ent THEN Advance(j) ELSE x)
  BY <1>1 DEF restore_missing_defaults
<1>3. e \in Entries
  <2>1. DOMAIN j.ent \subseteq Name /\ \A m \in DOMAIN j.ent : j.ent[m] \in Entry
    BY <1>1, ListIs DEF Job
  <2>2. \A m \in DOMAIN Shipped : m \in Name /\ Default(m) \in Entry
    BY RegistriesAssumption DEF Default, Entry
  <2>3. e \in [DOMAIN j.ent \cup DOMAIN Shipped -> Entry]
    BY <2>1, <2>2
  <2> QED
    BY <2>1, <2>2, <2>3 DEF Entries
<1> HIDE DEF e
<1>4. x \in Job /\ Local(x) /\ x.since = j.since
  BY <1>1, <1>3, Rewritten
<1> HIDE DEF x
<1> QED
  BY <1>1, <1>2, <1>4, AdvanceIs DEF Moves, Sound

LEMMA CleanupMoves ==
  ASSUME TypeOK, JobsInv, NEW p \in Process, cleanup_deprecated(p)
  PROVE  Moves(p)
<1> DEFINE j == job[p]
           old == {n \in DOMAIN j.ent : j.ent[n].url \in Deprecated}
           e == [n \in DOMAIN j.ent \ old |-> j.ent[n]]
           x == [j EXCEPT !.pc = "save", !.ent = e]
<1>1. j \in Job /\ Local(j) /\ j.pc = "act" /\ phase(j).op = "cleanup"
  BY Working DEF cleanup_deprecated, At, op, phase
<1>2. Goto(p, IF old = {} THEN Advance(j) ELSE x)
  BY <1>1 DEF cleanup_deprecated
<1>3. e \in Entries
  <2>1. DOMAIN j.ent \subseteq Name /\ \A m \in DOMAIN j.ent : j.ent[m] \in Entry
    BY <1>1, ListIs DEF Job
  <2>2. e \in [DOMAIN j.ent \ old -> Entry]
    BY <2>1
  <2> QED
    BY <2>1, <2>2 DEF Entries
<1> HIDE DEF e
<1>4. x \in Job /\ Local(x) /\ x.since = j.since
  BY <1>1, <1>3, Rewritten
<1> HIDE DEF x
<1> QED
  BY <1>1, <1>2, <1>4, AdvanceIs DEF Moves, Sound

LEMMA OrphansMoves ==
  ASSUME TypeOK, JobsInv, NEW p \in Process, RemoveOrphans(p)
  PROVE  Moves(p)
<1>1. job[p] \in Job /\ Goto(p, Advance(job[p]))
  BY Working DEF RemoveOrphans, At
<1> QED
  BY <1>1, AdvanceIs DEF Moves, Sound

LEMMA UnlinkFileMoves ==
  ASSUME TypeOK, JobsInv, NEW p \in Process, UnlinkFile(p)
  PROVE  Moves(p)
<1> DEFINE j == job[p]
           K == {n \in Name : own[n] # Nothing \/ link[n] # Nothing} \cup {u \in Url : shared[u] # Nothing}
           x == [j EXCEPT !.pc = "clear", !.kids = K]
<1>1. j \in Job /\ Local(j) /\ j.pc = "unlink_file"
  BY Working DEF UnlinkFile, At
<1>2. Goto(p, x)
  BY Zenon DEF UnlinkFile
<1>3. K \in SUBSET (Name \cup Url)
  OBVIOUS
<1> HIDE DEF K
<1>4. x \in Job
  BY <1>1, <1>3, Shapes DEF Places
<1>5. /\ x.pc = "clear" /\ x.phases = j.phases /\ x.since = j.since
      /\ x.todo = j.todo /\ x.good = j.good /\ x.blind = j.blind
  BY <1>1 DEF Job
<1> HIDE DEF x
<1>6. Local(x)
  BY <1>1, <1>5 DEF Local, Syncing, phase
<1> QED
  BY <1>2, <1>4, <1>5, <1>6 DEF Moves, Sound

LEMMA ClearMoves ==
  ASSUME TypeOK, JobsInv, NEW p \in Process, clear_cache(p)
  PROVE  Moves(p)
<1> DEFINE j == job[p]
           x(k) == [j EXCEPT !.kids = j.kids \ {k}]
           y == [j EXCEPT !.pc = "save", !.ent = FALLBACK_DEFAULT_REGISTRIES]
<1>1. j \in Job /\ Local(j) /\ j.pc = "clear"
  BY Working DEF clear_cache, At
<1>2. Goto(p, y) \/ \E k \in j.kids : Goto(p, x(k))
  BY Zenon DEF clear_cache
<1>3. ASSUME NEW k \in j.kids
      PROVE  x(k) \in Job /\ Local(x(k)) /\ x(k).since = j.since
  <2>1. x(k) \in Job
    BY <1>1 DEF Job
  <2>2. /\ x(k).pc = "clear" /\ x(k).phases = j.phases /\ x(k).since = j.since
        /\ x(k).todo = j.todo /\ x(k).good = j.good /\ x(k).blind = j.blind
    BY <1>1 DEF Job
  <2> HIDE DEF x
  <2>3. Local(x(k))
    BY <1>1, <2>2 DEF Local, Syncing, phase
  <2> QED
    BY <2>1, <2>2, <2>3
<1>4. y \in Job /\ Local(y) /\ y.since = j.since
  <2>1. phase(j).op = "reset"
    BY <1>1 DEF Local
  <2> QED
    BY <1>1, <2>1, DefaultsList, Rewritten
<1> HIDE DEF x, y
<1> QED
  BY <1>2, <1>3, <1>4 DEF Moves, Sound


(* A step of a sync leaves the process syncing, or ready to read the list. *)
Syncs(p) ==
    \E x : /\ Goto(p, x) /\ Sound(x) /\ (x # Idle => x.since = job[p].since)
           /\ x.pc \in Syncing \cup {"next", "load", "idle"}

LEMMA UpdateMoves ==
  ASSUME TypeOK, JobsInv, NEW p \in Process, update(p)
  PROVE  Syncs(p)
<1> DEFINE j == job[p]
           n == phase(j).n
           all == Enabled(j.ent)
           S == IF op(p) = "ensure" /\ ~(\E m \in all : Checkout(m) = Nothing) THEN {}
                ELSE IF n = Nothing THEN all ELSE all \cap {n}
           x == [j EXCEPT !.pc = "next", !.todo = S]
<1>1. j \in Job /\ Local(j) /\ j.pc = "act" /\ phase(j).op \in {"update", "ensure"}
  BY Working DEF update, At, op, phase
<1>2. Goto(p, x)
  BY <1>1, Zenon DEF update, phase
<1>3. S \subseteq all /\ all \subseteq Name
  BY <1>1, ListIs DEF Enabled, Job
<1> HIDE DEF S
<1>4. x \in Job
  <2>1. S \in SUBSET Name
    BY <1>3
  <2> QED
    BY <1>1, <2>1, Shapes DEF Places
<1>5. /\ x.pc = "next" /\ x.phases = j.phases /\ x.since = j.since /\ x.ent = j.ent
      /\ x.todo = S /\ x.good = j.good /\ x.blind = j.blind
  BY <1>1 DEF Job
<1> HIDE DEF x
<1>6. Local(x)
  BY <1>1, <1>3, <1>5 DEF Local, Syncing, phase
<1> QED
  BY <1>2, <1>4, <1>5, <1>6 DEF Syncs, Sound

(* The registry that is synced next, as the list that is read again has it. *)
Picked(p, n, ent) ==
    LET j == job[p]
        u == j.ent[n].url
        many == Cardinality(SameUrl(ent, u)) > 1
    IN  [j EXCEPT !.n = n, !.url = u,
                  !.mode = IF many THEN "shared" ELSE "single",
                  !.paths = IF many THEN SameUrl(ent, u) ELSE {n},
                  !.pc = IF ~many THEN "drop" ELSE IF shared[u] = Nothing THEN "clone" ELSE "fetch"]

LEMMA PickedIs ==
  ASSUME TypeOK, JobsInv, NEW p \in Process, job[p].pc = "next", NEW n \in job[p].todo,
         NEW ent \in Entries
  PROVE  LET j == job[p]
             x == Picked(p, n, ent)
             u == j.ent[n].url
             many == Cardinality(SameUrl(ent, u)) > 1
         IN  /\ x \in Job /\ Local(x) /\ x.n = n /\ x.url = u
             /\ x.mode = (IF many THEN "shared" ELSE "single")
             /\ x.paths = (IF many THEN SameUrl(ent, u) ELSE {n})
             /\ x.pc = (IF ~many THEN "drop" ELSE IF shared[u] = Nothing THEN "clone" ELSE "fetch")
             /\ x.ent = j.ent /\ x.todo = j.todo /\ x.good = j.good /\ x.blind = j.blind
             /\ x.since = j.since /\ x.phases = j.phases
<1> DEFINE j == job[p]
           u == j.ent[n].url
           many == Cardinality(SameUrl(ent, u)) > 1
           S == IF many THEN SameUrl(ent, u) ELSE {n}
           m == IF many THEN "shared" ELSE "single"
           c == IF ~many THEN "drop" ELSE IF shared[u] = Nothing THEN "clone" ELSE "fetch"
           x == [j EXCEPT !.n = n, !.url = u, !.mode = m, !.paths = S, !.pc = c]
<1>1. j \in Job /\ Local(j)
  BY Working
<1>2. n \in Name /\ n \in Enabled(j.ent) /\ u \in Url
  <2>1. n \in Name /\ n \in Enabled(j.ent)
    BY <1>1 DEF Job, Local
  <2>2. j.ent[n] \in Entry
    BY <1>1, <2>1, ListIs DEF Job, Enabled
  <2> QED
    BY <2>1, <2>2 DEF Entry
<1>3. S \in SUBSET Name /\ m \in {"single", "shared"} /\ c \in Places
  <2>1. SameUrl(ent, u) \subseteq Name
    BY ListIs DEF SameUrl, Enabled
  <2> QED
    BY <1>2, <2>1 DEF Places, Syncing
<1>4. x = Picked(p, n, ent)
  BY Zenon DEF Picked
<1> HIDE DEF S, m, c
<1>5. x \in Job
  BY <1>1, <1>2, <1>3, ChosenShape
<1>6. /\ x.n = n /\ x.url = u /\ x.mode = m /\ x.paths = S /\ x.pc = c
      /\ x.ent = j.ent /\ x.todo = j.todo /\ x.good = j.good /\ x.blind = j.blind
      /\ x.since = j.since /\ x.phases = j.phases
  BY <1>1 DEF Job
<1> HIDE DEF x
<1>7. c \in {"drop", "clone", "fetch"}
  BY DEF c
<1>8. Local(x)
  BY <1>1, <1>6, <1>7 DEF Local, Syncing, phase
<1> QED
  BY <1>4, <1>5, <1>6, <1>8 DEF c, m, S

LEMMA PickStep ==
  ASSUME NEW p \in Process, _clone_or_pull(p)
  PROVE  /\ job[p].pc = "next"
         /\ \E n \in job[p].todo, r \in _load_registries(TRUE) : Goto(p, Picked(p, n, r.ent))
<1> QED
  BY Zenon DEF _clone_or_pull, Picked, _sparse_checkout_paths_for_url, At

LEMMA PickMoves ==
  ASSUME TypeOK, JobsInv, NEW p \in Process, _clone_or_pull(p)
  PROVE  Syncs(p)
<1>1. PICK n \in job[p].todo, r \in _load_registries(TRUE) : Goto(p, Picked(p, n, r.ent))
  BY PickStep
<1>2. job[p].pc = "next" /\ r.ent \in Entries
  BY PickStep, ReadIs
<1> DEFINE x == Picked(p, n, r.ent)
<1>3. /\ x \in Job /\ Local(x) /\ x.since = job[p].since
      /\ x.pc = "drop" \/ x.pc = "clone" \/ x.pc = "fetch"
  <2>1. x \in Job /\ Local(x) /\ x.since = job[p].since
    BY <1>2, PickedIs
  <2> DEFINE many == Cardinality(SameUrl(r.ent, job[p].ent[n].url)) > 1
  <2>2. x.pc = (IF ~many THEN "drop" ELSE IF shared[job[p].ent[n].url] = Nothing THEN "clone" ELSE "fetch")
    BY <1>2, PickedIs
  <2> HIDE DEF x, many
  <2> QED
    BY <2>1, <2>2
<1> HIDE DEF x
<1> QED
  BY <1>1, <1>3 DEF Syncs, Sound, Syncing, x

LEMMA UpdateEndsMoves ==
  ASSUME TypeOK, JobsInv, NEW p \in Process, UpdateEnds(p)
  PROVE  Syncs(p)
<1>1. job[p] \in Job /\ Goto(p, Advance(job[p]))
  BY Working DEF UpdateEnds, At
<1> QED
  BY <1>1, AdvanceIs DEF Syncs, Sound, Idle

(* The next step for the registry that is being synced. *)
LEMMA Onwards ==
  ASSUME NEW j \in Job, Local(j), j.pc \in Syncing, NEW c \in Syncing
  PROVE  LET x == [j EXCEPT !.pc = c]
         IN  /\ x \in Job /\ Local(x) /\ x.pc = c /\ x.blind = j.blind
             /\ x.since = j.since /\ x.ent = j.ent /\ x.phases = j.phases /\ x.todo = j.todo
             /\ x.good = j.good /\ x.n = j.n /\ x.url = j.url /\ x.mode = j.mode /\ x.paths = j.paths
<1> DEFINE x == [j EXCEPT !.pc = c]
<1>1. c \in Places
  BY DEF Places
<1>2. x \in Job
  BY <1>1, Shapes
<1>3. /\ x.pc = c /\ x.blind = j.blind
      /\ x.since = j.since /\ x.ent = j.ent /\ x.phases = j.phases /\ x.todo = j.todo
      /\ x.good = j.good /\ x.n = j.n /\ x.url = j.url /\ x.mode = j.mode /\ x.paths = j.paths
  BY DEF Job
<1> HIDE DEF x
<1>4. Local(x)
  BY <1>3 DEF Local, phase, Syncing
<1> QED
  BY <1>2, <1>3, <1>4 DEF x

Blindly(j, c, S) == [j EXCEPT !.pc = c, !.blind = S]

LEMMA BlindlyOn ==
  ASSUME NEW j \in Job, Local(j), j.pc \in Syncing, NEW c \in Syncing, NEW S \in SUBSET Name,
         NEW y, y = Blindly(j, c, S)
  PROVE  /\ y \in Job /\ Local(y) /\ y.pc = c /\ y.blind = S
         /\ y.since = j.since /\ y.ent = j.ent /\ y.phases = j.phases /\ y.todo = j.todo
         /\ y.good = j.good /\ y.n = j.n /\ y.url = j.url /\ y.mode = j.mode /\ y.paths = j.paths
<1>1. c \in Places
  BY DEF Places
<1>2. y \in Job
  BY <1>1, Shapes DEF Blindly
<1>3. /\ y.pc = c /\ y.blind = S
      /\ y.since = j.since /\ y.ent = j.ent /\ y.phases = j.phases /\ y.todo = j.todo
      /\ y.good = j.good /\ y.n = j.n /\ y.url = j.url /\ y.mode = j.mode /\ y.paths = j.paths
  BY DEF Job, Blindly
<1>4. Local(y)
  BY <1>3 DEF Local, phase, Syncing
<1> QED
  BY <1>2, <1>3, <1>4

(* A process goes on with its registry, or leaves it. *)
Further(p, x) ==
    \/ \E c \in Syncing, S \in {job[p].blind, job[p].blind \cup {job[p].n}} :
          x = [job[p] EXCEPT !.pc = c, !.blind = S]
    \/ \E c \in Syncing : x = [job[p] EXCEPT !.pc = c]
    \/ \E ok \in BOOLEAN : x = Synced(job[p], ok)

LEMMA FurtherMoves ==
  ASSUME JobsInv, NEW p \in Process, job[p].pc \in Syncing,
         \E x : Goto(p, x) /\ (Further(p, x) \/ x = Idle)
  PROVE  Syncs(p)
<1>1. job[p] \in Job /\ Local(job[p])
  BY Working DEF Syncing
<1>2. PICK x : Goto(p, x) /\ (Further(p, x) \/ x = Idle)
  OBVIOUS
<1>3. job[p].blind \in SUBSET Name /\ job[p].n \in Name
  BY <1>1 DEF Job, Local
<1>4. ASSUME NEW c \in Syncing, NEW S \in {job[p].blind, job[p].blind \cup {job[p].n}},
             x = [job[p] EXCEPT !.pc = c, !.blind = S]
      PROVE  Syncs(p)
  <2>1. S \in SUBSET Name
    BY <1>3
  <2>2. x = Blindly(job[p], c, S)
    BY <1>4 DEF Blindly
  <2>3. x \in Job /\ Local(x) /\ x.since = job[p].since /\ x.pc \in Syncing
    BY <1>1, <2>1, <2>2, BlindlyOn
  <2> QED
    BY <1>2, <2>3 DEF Syncs, Sound
<1>5. ASSUME NEW c \in Syncing, x = [job[p] EXCEPT !.pc = c]
      PROVE  Syncs(p)
  <2>1. x \in Job /\ Local(x) /\ x.since = job[p].since /\ x.pc \in Syncing
    BY <1>1, <1>3, <1>5, Onwards
  <2> QED
    BY <1>2, <2>1 DEF Syncs, Sound
<1>6. ASSUME NEW ok \in BOOLEAN, x = Synced(job[p], ok)
      PROVE  Syncs(p)
  <2>1. x \in Job /\ Local(x) /\ x.since = job[p].since /\ x.pc = "next"
    BY <1>1, <1>6, SyncedIs
  <2> QED
    BY <1>2, <2>1 DEF Syncs, Sound
<1>7. CASE x = Idle
  BY <1>2, <1>7 DEF Syncs, Sound, Idle
<1> QED
  BY <1>2, <1>4, <1>5, <1>6, <1>7 DEF Further

SyncsOne(p) ==
    \/ _drop_cache_if_url_changed(p) \/ SparseSet(p) \/ Fetch(p) \/ Clone(p)
    \/ Unlink(p) \/ Link(p)

LEMMA SyncGoes ==
  ASSUME NEW p \in Process, SyncsOne(p)
  PROVE  job[p].pc \in Syncing /\ \E x : Goto(p, x) /\ (Further(p, x) \/ x = Idle)
<1> DEFINE j == job[p]
<1>1. {"clone", "set", "fetch", "cover", "unlink", "link"} \subseteq Syncing
  BY DEF Syncing
<1>2. CASE _drop_cache_if_url_changed(p)
  <2>1. j.pc \in Syncing
    BY <1>2 DEF _drop_cache_if_url_changed, At, Syncing
  <2>2. \/ \E c \in {"clone", "set"} : Goto(p, [j EXCEPT !.pc = c])
        \/ Goto(p, Synced(j, FALSE))
        \/ Goto(p, [j EXCEPT !.pc = "set", !.blind = j.blind \cup {j.n}])
    BY <1>2 DEF _drop_cache_if_url_changed
  <2>3. \E x : Goto(p, x) /\ (Further(p, x) \/ x = Idle)
    BY <1>1, <2>2, Zenon DEF Further
  <2> QED
    BY <2>1, <2>3
<1>3. CASE SparseSet(p)
  <2>1. j.pc \in Syncing
    BY <1>3 DEF SparseSet, Syncing
  <2>2. \/ \E c \in {"fetch", "unlink"}, S \in {j.blind, j.blind \cup {j.n}} :
             Goto(p, [j EXCEPT !.pc = c, !.blind = S])
        \/ \E ok \in BOOLEAN : Goto(p, Synced(j, ok))
    BY <1>3 DEF SparseSet
  <2>3. \E x : Goto(p, x) /\ (Further(p, x) \/ x = Idle)
    BY <1>1, <2>2, Zenon DEF Further
  <2> QED
    BY <2>1, <2>3
<1>4. CASE Fetch(p)
  <2>1. j.pc \in Syncing
    BY <1>4 DEF Fetch, At, Syncing
  <2>2. \/ Goto(p, [j EXCEPT !.pc = "cover"])
        \/ \E ok \in BOOLEAN : Goto(p, Synced(j, ok))
    BY <1>4 DEF Fetch
  <2>3. \E x : Goto(p, x) /\ (Further(p, x) \/ x = Idle)
    BY <1>1, <2>2, Zenon DEF Further
  <2> QED
    BY <2>1, <2>3
<1>5. CASE Clone(p)
  <2>1. j.pc \in Syncing
    BY <1>5 DEF Clone, At, Syncing
  <2>2. \/ Goto(p, [j EXCEPT !.pc = "cover"])
        \/ \E ok \in BOOLEAN : Goto(p, Synced(j, ok))
    BY <1>5 DEF Clone
  <2>3. \E x : Goto(p, x) /\ (Further(p, x) \/ x = Idle)
    BY <1>1, <2>2, Zenon DEF Further
  <2> QED
    BY <2>1, <2>3
<1>6. CASE Unlink(p) \/ Link(p)
  <2>1. j.pc \in Syncing
    BY <1>6 DEF Unlink, Link, At, Syncing
  <2>2. \/ Goto(p, [j EXCEPT !.pc = "link"])
        \/ \E ok \in BOOLEAN : Goto(p, Synced(j, ok))
        \/ Goto(p, Idle)
    BY <1>6 DEF Unlink, Link
  <2>3. \E x : Goto(p, x) /\ (Further(p, x) \/ x = Idle)
    BY <1>1, <2>2, Zenon DEF Further
  <2> QED
    BY <2>1, <2>3
<1> QED
  BY <1>2, <1>3, <1>4, <1>5, <1>6 DEF SyncsOne

LEMMA SyncMoves ==
  ASSUME JobsInv, NEW p \in Process, SyncsOne(p)
  PROVE  Syncs(p)
BY SyncGoes, FurtherMoves

(* Every step of a command takes its process to a sound job. *)
LEMMA StepMoves ==
  ASSUME TypeOK, JobsInv, NEW p \in Process, ConfigStep(p) \/ SyncStep(p) \/ Interrupt(p)
  PROVE  Moves(p)
<1>1. CASE ConfigStep(p)
  BY <1>1, LoadMoves, TruncateMoves, SaveMoves, AddMoves, EditMoves, RestoreMoves, CleanupMoves,
     OrphansMoves, UnlinkFileMoves, ClearMoves DEF ConfigStep
<1>2. CASE SyncStep(p)
  BY <1>2, UpdateMoves, PickMoves, UpdateEndsMoves, SyncMoves DEF SyncStep, SyncsOne, Syncs, Moves
<1>3. CASE Interrupt(p)
  BY <1>3 DEF Interrupt, Moves, Sound
<1> QED
  BY <1>1, <1>2, <1>3


-----------------------------------------------------------------------------
(* A command begins with its first phase. *)
LEMMA BeginIs ==
  ASSUME TypeOK, NEW p \in Process, NEW c \in Seq(Phases) \ {<<>>}, Begin(p, c)
  PROVE  \E x \in Job : /\ Goto(p, x) /\ Local(x) /\ x.since = head /\ x.pc \in {"load", "unlink_file"}
                        /\ x.phases = c
<1> DEFINE pc == IF Head(c).op = "reset" THEN "unlink_file" ELSE "load"
           x == [phases |-> c, pc |-> pc, ent |-> <<>>, tried |-> FALSE, skip |-> {},
                 todo |-> {}, good |-> {}, n |-> Nothing, url |-> Nothing, mode |-> "single",
                 paths |-> {}, since |-> head, blind |-> {}, kids |-> {}]
<1>1. Goto(p, x)
  BY Zenon DEF Begin
<1>2. pc \in {"load", "unlink_file"} /\ (pc = "unlink_file" => Head(c).op = "reset")
  OBVIOUS
<1> HIDE DEF pc
<1>3. x \in Job
  <2>1. head \in [Url -> 1 .. MaxVersion]
    BY DEF TypeOK
  <2>2. /\ {} \in SUBSET Name /\ {} \in SUBSET (Name \cup Url)
        /\ Nothing \in Name \cup {Nothing} /\ Nothing \in Url \cup {Nothing}
    OBVIOUS
  <2> QED
    BY <1>2, <2>1, <2>2, EmptyList DEF Job
<1>4. /\ x.pc = pc /\ x.phases = c /\ x.since = head /\ x.todo = {} /\ x.good = {} /\ x.blind = {}
      /\ x.ent = <<>>
  OBVIOUS
<1> HIDE DEF x
<1>5. Local(x)
  BY <1>2, <1>4 DEF Local, Syncing, phase
<1> QED
  BY <1>1, <1>2, <1>3, <1>4, <1>5

LEMMA Commands ==
  ASSUME NEW p \in Process, AnyCommand(p) \/ UpdateCommand(p)
  PROVE  \E c \in Seq(Phases) \ {<<>>} : Begin(p, c)
BY PhasesOf DEF AnyCommand, UpdateCommand

(* The directories hold checkouts, or links to shared ones. *)
DirsOK ==
    /\ own \in [Name -> Tree \cup {Nothing}]
    /\ link \in [Name -> Url \cup {Nothing}]
    /\ shared \in [Url -> Tree \cup {Nothing}]
    /\ \A n \in Name : own[n] = Nothing \/ link[n] = Nothing

(* What a syncing process works on. *)
LEMMA WorksOn ==
  ASSUME TypeOK, JobsInv, NEW p \in Process, job[p].pc \in Syncing
  PROVE  /\ job[p] \in Job /\ Local(job[p])
         /\ job[p].n \in Name /\ job[p].url \in Url /\ job[p].n \in job[p].todo
         /\ job[p].n \in Enabled(job[p].ent) /\ job[p].url = job[p].ent[job[p].n].url
         /\ job[p].mode \in {"single", "shared"} /\ job[p].paths \in SUBSET Name
         /\ Tree_of(p) \in Tree \cup {Nothing} /\ Checkout(job[p].n) \in Tree \cup {Nothing}
<1> DEFINE j == job[p]
<1>1. j \in Job /\ Local(j)
  BY Working DEF Syncing
<1>2. j.n \in Name /\ j.n \in Enabled(j.ent) /\ j.url = j.ent[j.n].url /\ j.n \in j.todo
  BY <1>1 DEF Job, Local
<1>3. j.url \in Url
  <2>1. j.ent \in Entries /\ j.n \in DOMAIN j.ent
    BY <1>1, <1>2 DEF Job, Enabled
  <2>2. j.ent[j.n] \in Entry
    BY <2>1, ListIs
  <2> QED
    BY <1>2, <2>2 DEF Entry
<1>4. Checkout(j.n) \in Tree \cup {Nothing}
  BY <1>2 DEF TypeOK, Checkout
<1>5. Tree_of(p) \in Tree \cup {Nothing}
  BY <1>3, <1>4 DEF Tree_of, TypeOK
<1>6. j.mode \in {"single", "shared"} /\ j.paths \in SUBSET Name
  BY <1>1 DEF Job
<1> QED
  BY <1>1, <1>2, <1>3, <1>4, <1>5, <1>6

LEMMA PutTyped ==
  ASSUME TypeOK, JobsInv, NEW p \in Process, job[p].pc \in Syncing, NEW t \in Tree, Put(p, t)
  PROVE  DirsOK'
<1> DEFINE j == job[p]
<1>1. j.n \in Name /\ j.url \in Url
  BY WorksOn
<1>2. CASE j.mode = "shared" \/ link[j.n] # Nothing
  <2> DEFINE u == IF j.mode = "shared" THEN j.url ELSE link[j.n]
  <2>1. u \in Url
    BY <1>1, <1>2 DEF TypeOK
  <2>2. shared' = [shared EXCEPT ![u] = t] /\ UNCHANGED <<own, link>>
    BY <1>2 DEF Put
  <2> HIDE DEF u
  <2> QED
    BY <2>1, <2>2 DEF TypeOK, DirsOK
<1>3. CASE ~(j.mode = "shared" \/ link[j.n] # Nothing)
  BY <1>1, <1>3 DEF Put, TypeOK, DirsOK
<1> QED
  BY <1>2, <1>3

(* What the steps put into a directory. *)
LEMMA Trees ==
  /\ \A t \in Tree, S \in SUBSET Name : [t EXCEPT !.paths = S] \in Tree
  /\ \A t \in Tree, v \in 1 .. MaxVersion : [t EXCEPT !.ver = v] \in Tree
  /\ \A o \in Url \cup {Nothing}, v \in 0 .. MaxVersion : [origin |-> o, ver |-> v, paths |-> {}] \in Tree
  /\ Wreck \in Tree
  /\ \A o \in Url \cup {Nothing} : [Wreck EXCEPT !.origin = o] \in Tree
<1>1. MaxVersion \in Nat
  BY RegistriesAssumption
<1>2. Wreck \in Tree
  BY <1>1 DEF Wreck, Tree
<1>3. \A o \in Url \cup {Nothing} : [Wreck EXCEPT !.origin = o] \in Tree
  BY <1>2 DEF Tree
<1>4. \A t \in Tree, S \in SUBSET Name : [t EXCEPT !.paths = S] \in Tree
  BY DEF Tree
<1>5. \A t \in Tree, v \in 1 .. MaxVersion : [t EXCEPT !.ver = v] \in Tree
  BY <1>1 DEF Tree
<1>6. \A o \in Url \cup {Nothing}, v \in 0 .. MaxVersion : [origin |-> o, ver |-> v, paths |-> {}] \in Tree
  BY DEF Tree
<1> QED
  BY <1>2, <1>3, <1>4, <1>5, <1>6

LEMMA SparseSetDirs ==
  ASSUME TypeOK, JobsInv, NEW p \in Process, SparseSet(p)
  PROVE  DirsOK'
<1> DEFINE t == Tree_of(p)
<1>1. job[p].pc \in Syncing
  BY DEF SparseSet, Syncing
<1>2. UNCHANGED dirs \/ (t # Nothing /\ Put(p, [t EXCEPT !.paths = job[p].paths]))
  BY DEF SparseSet
<1>3. t # Nothing => [t EXCEPT !.paths = job[p].paths] \in Tree
  BY <1>1, WorksOn, Trees
<1>4. CASE UNCHANGED dirs
  BY <1>4 DEF dirs, TypeOK, DirsOK
<1>5. CASE t # Nothing /\ Put(p, [t EXCEPT !.paths = job[p].paths])
  BY <1>1, <1>3, <1>5, PutTyped
<1> QED
  BY <1>2, <1>4, <1>5

LEMMA FetchDirs ==
  ASSUME TypeOK, JobsInv, NEW p \in Process, Fetch(p)
  PROVE  DirsOK'
<1> DEFINE t == Tree_of(p)
<1>1. job[p].pc \in Syncing
  BY DEF Fetch, At, Syncing
<1>2. \/ UNCHANGED dirs
      \/ t # Nothing /\ t.origin # Nothing /\ Put(p, [t EXCEPT !.ver = head[t.origin]])
  BY DEF Fetch
<1>3. CASE UNCHANGED dirs
  BY <1>3 DEF dirs, TypeOK, DirsOK
<1>4. CASE t # Nothing /\ t.origin # Nothing /\ Put(p, [t EXCEPT !.ver = head[t.origin]])
  <2>1. t \in Tree
    BY <1>1, <1>4, WorksOn
  <2>2. t.origin \in Url
    BY <1>4, <2>1 DEF Tree
  <2>3. head[t.origin] \in 1 .. MaxVersion
    BY <2>2 DEF TypeOK
  <2>4. [t EXCEPT !.ver = head[t.origin]] \in Tree
    BY <2>1, <2>3, Trees
  <2> QED
    BY <1>1, <1>4, <2>4, PutTyped
<1> QED
  BY <1>2, <1>3, <1>4

LEMMA CloneDirs ==
  ASSUME TypeOK, JobsInv, NEW p \in Process, Clone(p)
  PROVE  DirsOK'
<1> DEFINE j == job[p]
<1>1. j.pc \in Syncing
  BY DEF Clone, At, Syncing
<1>2. \/ UNCHANGED dirs
      \/ Put(p, [origin |-> j.url, ver |-> head[j.url], paths |-> {}])
      \/ \E o \in {j.url, Nothing} : Put(p, [Wreck EXCEPT !.origin = o])
  BY DEF Clone
<1>3. j.url \in Url
  BY <1>1, WorksOn
<1>4. head[j.url] \in 0 .. MaxVersion
  BY <1>3 DEF TypeOK
<1>5. [origin |-> j.url, ver |-> head[j.url], paths |-> {}] \in Tree
  BY <1>3, <1>4, Trees
<1>6. \A o \in {j.url, Nothing} : [Wreck EXCEPT !.origin = o] \in Tree
  BY <1>3, Trees
<1>7. CASE UNCHANGED dirs
  BY <1>7 DEF dirs, TypeOK, DirsOK
<1>8. CASE Put(p, [origin |-> j.url, ver |-> head[j.url], paths |-> {}])
  BY <1>1, <1>5, <1>8, PutTyped
<1>9. CASE \E o \in {j.url, Nothing} : Put(p, [Wreck EXCEPT !.origin = o])
  <2>1. PICK o \in {j.url, Nothing} : Put(p, [Wreck EXCEPT !.origin = o])
    BY <1>9
  <2>2. [Wreck EXCEPT !.origin = o] \in Tree
    BY <1>6
  <2> QED
    BY <1>1, <2>1, <2>2, PutTyped
<1> QED
  BY <1>2, <1>7, <1>8, <1>9

(* No step leaves a directory that is both a link and a checkout. *)
LEMMA StepDirs ==
  ASSUME TypeOK, JobsInv, NEW p \in Process, ConfigStep(p) \/ SyncStep(p) \/ Interrupt(p)
  PROVE  DirsOK'
<1> DEFINE j == job[p]
<1>1. DirsOK
  BY DEF TypeOK, DirsOK
<1>2. CASE UNCHANGED dirs
  BY <1>1, <1>2 DEF dirs, DirsOK
<1>3. CASE cleanup_deprecated(p) /\ ~UNCHANGED dirs
  <2> DEFINE old == {n \in DOMAIN j.ent : j.ent[n].url \in Deprecated}
  <2>1. /\ own' = [n \in Name |-> IF n \in old THEN Nothing ELSE own[n]]
        /\ link' = [n \in Name |-> IF n \in old /\ ~Dangling(n) THEN Nothing ELSE link[n]]
        /\ UNCHANGED shared
    BY <1>3 DEF cleanup_deprecated
  <2> HIDE DEF old
  <2> QED
    BY <1>1, <2>1 DEF DirsOK
<1>4. CASE RemoveOrphans(p)
  BY <1>1, <1>4 DEF RemoveOrphans, DirsOK
<1>5. CASE clear_cache(p) /\ ~UNCHANGED dirs
  <2>1. PICK x \in j.kids :
          /\ own' = [n \in Name |-> IF n = x THEN Nothing ELSE own[n]]
          /\ link' = [n \in Name |-> IF n = x THEN Nothing ELSE link[n]]
          /\ shared' = [u \in Url |-> IF u = x THEN Nothing ELSE shared[u]]
    BY <1>5 DEF clear_cache
  <2> QED
    BY <1>1, <2>1 DEF DirsOK
<1>6. CASE _drop_cache_if_url_changed(p) /\ ~UNCHANGED dirs
  <2>1. /\ link' = [link EXCEPT ![j.n] = Nothing]
        /\ own' = [own EXCEPT ![j.n] = Nothing]
        /\ UNCHANGED shared
    BY <1>6 DEF _drop_cache_if_url_changed, dirs
  <2> QED
    BY <1>1, <2>1 DEF DirsOK
<1>7. CASE Unlink(p)
  BY <1>1, <1>7 DEF Unlink, DirsOK
<1>8. CASE Link(p)
  <2>1. j.url \in Url /\ j.n \in Name
    BY <1>8, WorksOn DEF Link, At, Syncing
  <2>2. \/ UNCHANGED <<own, link, shared>>
        \/ own[j.n] = Nothing /\ link' = [link EXCEPT ![j.n] = j.url] /\ UNCHANGED <<own, shared>>
    BY <1>8 DEF Link
  <2> QED
    BY <1>1, <2>1, <2>2 DEF DirsOK
<1>9. CASE Interrupt(p) /\ ~UNCHANGED dirs
  <2>1. /\ j.pc = "unlink" /\ own[j.n] # Nothing
        /\ own' = [own EXCEPT ![j.n] = Wreck] /\ UNCHANGED <<link, shared>>
    BY <1>9 DEF Interrupt, At
  <2>2. j.n \in Name
    BY <2>1, WorksOn DEF Syncing
  <2> QED
    BY <1>1, <2>1, <2>2, Trees DEF DirsOK
<1>10. \/ UNCHANGED dirs \/ SparseSet(p) \/ Fetch(p) \/ Clone(p)
       \/ cleanup_deprecated(p) \/ RemoveOrphans(p) \/ clear_cache(p)
       \/ _drop_cache_if_url_changed(p) \/ Unlink(p) \/ Link(p) \/ Interrupt(p)
  BY DEF ConfigStep, SyncStep, Load, Truncate, _save_registries, add_registry, Edit,
         restore_missing_defaults, UnlinkFile, update, _clone_or_pull, UpdateEnds
<1> QED
  BY <1>2, <1>3, <1>4, <1>5, <1>6, <1>7, <1>8, <1>9, <1>10, SparseSetDirs, FetchDirs, CloneDirs


(* The file holds a whole list, or is torn or gone, and the history is typed. *)
FileOK ==
    /\ file \in File /\ chosen \in Entries /\ lossy \in BOOLEAN
    /\ faults \in 0 .. MaxFaults /\ commands \in 0 .. MaxCommands

(* What is saved is what was read and changed, and the history has the     *)
(* entry that the user changed.                                            *)
LEMMA SavedList ==
  ASSUME TypeOK, JobsInv, NEW p \in Process, _save_registries(p)
  PROVE  file' \in File /\ chosen' \in Entries
<1> DEFINE j == job[p]
           n == phase(j).n
           D == (DOMAIN chosen \ {n}) \cup ({n} \cap DOMAIN j.ent)
           e == [m \in D |-> IF m = n THEN j.ent[n] ELSE chosen[m]]
<1>1. j.ent \in Entries
  BY Working DEF _save_registries, Job
<1>2. file' = [is |-> "yaml", version |-> 1, ent |-> j.ent]
  BY Zenon DEF _save_registries, CONFIG_VERSION
<1>3. [is |-> "yaml", version |-> 1, ent |-> j.ent] \in [is: {"yaml"}, version: 0 .. 1, ent: Entries]
  BY <1>1
<1>4. chosen' = chosen \/ chosen' = e
  BY Zenon DEF _save_registries, phase
<1>5. e \in Entries
  <2>1. /\ DOMAIN chosen \subseteq Name /\ DOMAIN j.ent \subseteq Name
        /\ \A m \in DOMAIN chosen : chosen[m] \in Entry
        /\ \A m \in DOMAIN j.ent : j.ent[m] \in Entry
    BY <1>1, ListIs DEF TypeOK
  <2>2. D \subseteq Name /\ \A m \in D : IF m = n THEN m \in DOMAIN j.ent ELSE m \in DOMAIN chosen
    BY <2>1
  <2> HIDE DEF D
  <2>3. e \in [D -> Entry]
    BY <2>1, <2>2
  <2> QED
    BY <2>2, <2>3 DEF Entries
<1> HIDE DEF e
<1> QED
  BY <1>2, <1>3, <1>4, <1>5 DEF TypeOK, File

LEMMA StepFile ==
  ASSUME TypeOK, JobsInv, NEW p \in Process, ConfigStep(p) \/ SyncStep(p) \/ Interrupt(p)
  PROVE  FileOK'
<1>1. FileOK
  BY DEF TypeOK, FileOK
<1>2. faults' \in 0 .. MaxFaults /\ commands' = commands
  <2>1. \/ UNCHANGED bounds \/ Fault
    BY DEF ConfigStep, SyncStep, Interrupt, Load, Truncate, _save_registries, add_registry, Edit,
           restore_missing_defaults, cleanup_deprecated, RemoveOrphans, UnlinkFile, clear_cache,
           update, _clone_or_pull, UpdateEnds, _drop_cache_if_url_changed, SparseSet, Fetch, Clone,
           Unlink, Link
  <2>2. MaxFaults \in Nat
    BY RegistriesAssumption
  <2> QED
    BY <1>1, <2>1, <2>2 DEF bounds, Fault, FileOK
<1>3. CASE UNCHANGED <<file, chosen>> /\ lossy' \in BOOLEAN
  BY <1>1, <1>2, <1>3 DEF FileOK
<1>4. CASE Truncate(p)
  <2>1. lossy' \in BOOLEAN /\ chosen' = chosen
    BY <1>4 DEF Truncate
  <2>2. PICK b \in BOOLEAN : file' = [is |-> "torn", parses |-> b]
    BY <1>4 DEF Truncate
  <2>3. file' \in File
    BY <2>2 DEF File
  <2> QED
    BY <1>1, <1>2, <2>1, <2>3 DEF FileOK
<1>5. CASE _save_registries(p)
  <2>1. lossy' = lossy
    BY <1>5 DEF _save_registries
  <2> QED
    BY <1>1, <1>2, <1>5, <2>1, SavedList DEF FileOK
<1>6. CASE UnlinkFile(p)
  <2>1. lossy' \in BOOLEAN /\ chosen' \in Entries
    BY <1>6, EmptyList DEF UnlinkFile
  <2>2. file' \in File
    BY <1>6 DEF UnlinkFile, File
  <2> QED
    BY <1>1, <1>2, <2>1, <2>2 DEF FileOK
<1>7. CASE Load(p) \/ _clone_or_pull(p)
  <2>1. UNCHANGED <<file, chosen>> /\ lossy' = (lossy \/ file.is = "torn")
    BY <1>7 DEF Load, _clone_or_pull
  <2> QED
    BY <1>3, <2>1
<1>8. CASE SyncStep(p) \/ Interrupt(p)
  <2>1. CASE _clone_or_pull(p)
    BY <1>7, <2>1
  <2>2. CASE ~_clone_or_pull(p)
    <3>1. UNCHANGED <<file, chosen, lossy>>
      BY <1>8, <2>2 DEF SyncStep, Interrupt, update, UpdateEnds, _drop_cache_if_url_changed, SparseSet,
                        Fetch, Clone, Unlink, Link, history
    <3> QED
      BY <1>1, <1>3, <3>1 DEF FileOK
  <2> QED
    BY <2>1, <2>2
<1>9. CASE add_registry(p) \/ Edit(p) \/ restore_missing_defaults(p) \/ cleanup_deprecated(p)
           \/ RemoveOrphans(p) \/ clear_cache(p)
  <2>1. UNCHANGED <<file, chosen, lossy>>
    BY <1>9 DEF add_registry, Edit, restore_missing_defaults, cleanup_deprecated, RemoveOrphans,
                clear_cache, history
  <2> QED
    BY <1>1, <1>3, <2>1 DEF FileOK
<1> QED
  BY <1>4, <1>5, <1>6, <1>7, <1>8, <1>9 DEF ConfigStep

(* Only a new command changes who is alone, and only a push what a fetch gets. *)
LEMMA StepRest ==
  ASSUME NEW p \in Process, ConfigStep(p) \/ SyncStep(p) \/ Interrupt(p)
  PROVE  UNCHANGED <<head, alone>>
BY DEF ConfigStep, SyncStep, Interrupt, Load, Truncate, _save_registries, add_registry, Edit,
       restore_missing_defaults, cleanup_deprecated, RemoveOrphans, UnlinkFile, clear_cache,
       update, _clone_or_pull, UpdateEnds, _drop_cache_if_url_changed, SparseSet, Fetch, Clone,
       Unlink, Link, history

(* Only a process at work takes a step of a command. *)
LEMMA Busy ==
  ASSUME NEW p \in Process, ConfigStep(p) \/ SyncStep(p) \/ Interrupt(p)
  PROVE  job[p] # Idle
<1>1. CASE ConfigStep(p)
  <2>1. job[p].pc # "idle"
    BY <1>1 DEF ConfigStep, Load, Truncate, _save_registries, add_registry, Edit,
       restore_missing_defaults, cleanup_deprecated, RemoveOrphans, UnlinkFile, clear_cache, At
  <2> QED
    BY <2>1 DEF Idle
<1>2. CASE SyncStep(p)
  <2>1. job[p].pc # "idle"
    BY <1>2 DEF SyncStep, update, _clone_or_pull, UpdateEnds, _drop_cache_if_url_changed, SparseSet,
       Fetch, Clone, Unlink, Link, At
  <2> QED
    BY <2>1 DEF Idle
<1>3. CASE Interrupt(p)
  BY <1>3 DEF Interrupt
<1> QED
  BY <1>1, <1>2, <1>3

LEMMA SoundJobs ==
  ASSUME TypeOK, JobsInv, NEW p \in Process, NEW x, Goto(p, x), Sound(x),
         x # Idle => \A u \in Url : x.since[u] <= head[u], head' = head
  PROVE  /\ JobsInv'
         /\ job' \in [Process -> Job \cup {Idle}]
         /\ \A q \in Process : job'[q] # Idle => job'[q].todo \cup job'[q].good \subseteq DOMAIN job'[q].ent
<1>1. /\ job' = [job EXCEPT ![p] = x] /\ job \in [Process -> Job \cup {Idle}]
      /\ x \in Job \cup {Idle}
  BY DEF Goto, TypeOK, Sound
<1>2. \A q \in Process : job'[q] = IF q = p THEN x ELSE job[q]
  BY <1>1
<1>3. \A q \in Process : Sound(job'[q])
  BY <1>2 DEF JobsInv
<1>4. \A q \in Process : job'[q] # Idle => job'[q].todo \cup job'[q].good \subseteq DOMAIN job'[q].ent
  BY <1>3 DEF Sound, Local, Enabled
<1>5. JobsInv'
  BY <1>2, <1>3 DEF JobsInv
<1> QED
  BY <1>1, <1>4, <1>5

LEMMA InductiveTypes ==
  /\ Init => TypeOK /\ JobsInv
  /\ TypeOK /\ JobsInv /\ [Next]_vars => TypeOK' /\ JobsInv'
<1>1. ASSUME Init
      PROVE  TypeOK /\ JobsInv
  <2>1. PICK s \in Start : file = s.file /\ own = s.own /\ link = s.link /\ shared = s.shared
    BY <1>1 DEF Init
  <2>2. DirsOK /\ file \in File
    BY <2>1, RegistriesAssumption DEF DirsOK
  <2>3. \A q \in Process : job[q] = Idle
    BY <1>1 DEF Init
  <2>4. JobsInv
    BY <2>3 DEF JobsInv, Sound
  <2>5. /\ job \in [Process -> Job \cup {Idle}]
        /\ alone \in [Process -> BOOLEAN] /\ lossy \in BOOLEAN
    BY <1>1 DEF Init
  <2>7. MaxFaults \in Nat /\ MaxCommands \in Nat /\ MaxVersion \in Nat \ {0}
    BY RegistriesAssumption
  <2>8. /\ head \in [Url -> 1 .. MaxVersion]
        /\ faults \in 0 .. MaxFaults /\ commands \in 0 .. MaxCommands
    BY <1>1, <2>7 DEF Init
  <2>6. chosen \in Entries
    BY <1>1, EmptyList DEF Init
  <2> QED
    BY <2>2, <2>3, <2>4, <2>5, <2>6, <2>8 DEF TypeOK, DirsOK
<1>2. ASSUME TypeOK, JobsInv, [Next]_vars
      PROVE  TypeOK' /\ JobsInv'
  <2>1. CASE UNCHANGED vars
    BY <1>2, <2>1 DEF vars, dirs, history, bounds, TypeOK, JobsInv
  <2>2. CASE Publish
    <3>1. /\ UNCHANGED <<file, own, link, shared, job, alone, chosen, lossy, faults, commands>>
          /\ \E u \in Active : head[u] < MaxVersion /\ head' = [head EXCEPT ![u] = @ + 1]
      BY <2>2 DEF Publish, dirs, history, bounds
    <3>2. MaxVersion \in Nat /\ head \in [Url -> 1 .. MaxVersion] /\ Active \subseteq Url
      BY <1>2, RegistriesAssumption DEF TypeOK
    <3>3. head' \in [Url -> 1 .. MaxVersion] /\ \A v \in Url : head[v] <= head'[v]
      BY <3>1, <3>2
    <3>4. \A q \in Process : job[q] # Idle => \A v \in Url : job[q].since[v] \in Nat /\ job[q].since[v] <= head[v]
      BY <1>2 DEF JobsInv, TypeOK, Job
    <3>5. \A q \in Process : job[q] # Idle => \A v \in Url : job[q].since[v] <= head'[v]
      BY <3>2, <3>3, <3>4
    <3>6. JobsInv'
      BY <1>2, <3>1, <3>5 DEF JobsInv
    <3> QED
      BY <1>2, <3>1, <3>3, <3>6 DEF TypeOK
  <2>3. ASSUME NEW p \in Process, AnyCommand(p) \/ UpdateCommand(p)
        PROVE  TypeOK' /\ JobsInv'
    <3>1. PICK c \in Seq(Phases) \ {<<>>} : Begin(p, c)
      BY <2>3, Commands
    <3>2. PICK x \in Job : Goto(p, x) /\ Local(x) /\ x.since = head
      BY <1>2, <3>1, BeginIs
    <3>3. UNCHANGED <<file, own, link, shared, head, chosen, lossy, faults>>
      BY <3>1 DEF Begin, dirs
    <3>4. Sound(x) /\ \A u \in Url : x.since[u] <= head[u]
      BY <1>2, <3>2 DEF Sound, TypeOK
    <3>5. /\ JobsInv' /\ job' \in [Process -> Job \cup {Idle}]
          /\ \A q \in Process : job'[q] # Idle => job'[q].todo \cup job'[q].good \subseteq DOMAIN job'[q].ent
      BY <1>2, <3>2, <3>3, <3>4, SoundJobs
    <3>6. alone' \in [Process -> BOOLEAN]
      BY <3>1 DEF Begin
    <3>7. commands' \in 0 .. MaxCommands
      BY <1>2, <2>3, RegistriesAssumption DEF AnyCommand, UpdateCommand, TypeOK
    <3> QED
      BY <1>2, <3>3, <3>5, <3>6, <3>7 DEF TypeOK
  <2>4. ASSUME NEW p \in Process, ConfigStep(p) \/ SyncStep(p) \/ Interrupt(p)
        PROVE  TypeOK' /\ JobsInv'
    <3>1. Moves(p)
      BY <1>2, <2>4, StepMoves
    <3>2. PICK x : Goto(p, x) /\ Sound(x) /\ (x # Idle => x.since = job[p].since)
      BY <3>1 DEF Moves
    <3>3. UNCHANGED <<head, alone>>
      BY <2>4, StepRest
    <3>4. job[p] # Idle
      BY <2>4, Busy
    <3>5. x # Idle => \A u \in Url : x.since[u] <= head[u]
      BY <1>2, <3>2, <3>4 DEF JobsInv
    <3>6. /\ JobsInv' /\ job' \in [Process -> Job \cup {Idle}]
          /\ \A q \in Process : job'[q] # Idle => job'[q].todo \cup job'[q].good \subseteq DOMAIN job'[q].ent
      BY <1>2, <3>2, <3>3, <3>5, SoundJobs
    <3>7. DirsOK' /\ FileOK'
      BY <1>2, <2>4, StepDirs, StepFile
    <3> QED
      BY <1>2, <3>3, <3>6, <3>7 DEF TypeOK, DirsOK, FileOK
  <2> QED
    BY <1>2, <2>1, <2>2, <2>3, <2>4 DEF Next
<1> QED
  BY <1>1, <1>2

(* Every variable stays in its domain, and a directory is a link or a      *)
(* checkout, through commands, interrupts and rewritten files alike.       *)
THEOREM TypeCorrect == Spec => []TypeOK
<1>1. Spec => [](TypeOK /\ JobsInv)
  BY InductiveTypes, PTL DEF Spec
<1> QED
  BY <1>1, PTL


-----------------------------------------------------------------------------
(* What the user last chose, and who may still write the list over it.     *)
Keeps(choice, ent, but) ==
    \A n \in DOMAIN choice \ {but} :
        choice[n].url \in Deprecated \cup DOMAIN Moved \/ (n \in DOMAIN ent /\ ent[n] = choice[n])

Writing(p) == job[p].pc \in {"persisting", "saving"}

(* The list that a process has read, or changed in one entry, keeps it. *)
Carries(choice, j) ==
    /\ j.pc \in {"persist", "persisting", "act"} => Keeps(choice, j.ent, Nothing)
    /\ j.pc \in {"save", "saving"} => Keeps(choice, j.ent, phase(j).n)
    /\ j.pc = "clear" => DOMAIN choice = {}

FileKeeps ==
    /\ file.is = "yaml" => Keeps(chosen, file.ent, Nothing) /\ (file.version = 0 => DOMAIN chosen = {})
    /\ file.is = "absent" => DOMAIN chosen = {}

OneWriter ==
    /\ \A p \in Process : Writing(p) => file.is = "torn"
    /\ \A p, q \in Process : Writing(p) /\ (Writing(q) \/ Pending(q)) => p = q

ChoicesInv ==
    ~lossy => FileKeeps /\ OneWriter /\ \A p \in Process : Carries(chosen, job[p])

LEMMA KeepsAll ==
  ASSUME DOMAIN chosen = {}, NEW e, NEW n
  PROVE  Keeps(chosen, e, n)
BY DEF Keeps

(* A step that leaves the list and the choices alone. *)
LEMMA Untouched ==
  ASSUME TypeOK, ChoicesInv, NEW p \in Process, NEW x, Goto(p, x), UNCHANGED <<file, chosen>>,
         ~lossy, x.pc \notin {"persisting", "saving"}, Carries(chosen, x),
         x.pc \in {"persist", "act", "save", "clear"} => Pending(p) \/ \A q \in Process : ~Writing(q)
  PROVE  ChoicesInv'
<1>1. FileKeeps /\ OneWriter /\ \A q \in Process : Carries(chosen, job[q])
  BY DEF ChoicesInv
<1>2. \A q \in Process : job'[q] = IF q = p THEN x ELSE job[q]
  BY DEF Goto, TypeOK
<1>3. FileKeeps'
  BY <1>1 DEF FileKeeps, Keeps
<1>4. \A q \in Process : Carries(chosen', job'[q])
  BY <1>1, <1>2 DEF Carries, Keeps
<1>5. OneWriter'
  BY <1>1, <1>2 DEF OneWriter, Writing, Pending
<1> QED
  BY <1>3, <1>4, <1>5 DEF ChoicesInv

LEMMA SyncKeeps ==
  ASSUME TypeOK, JobsInv, ChoicesInv, NEW p \in Process, SyncStep(p) \/ Interrupt(p)
  PROVE  ChoicesInv'
<1>1. UNCHANGED <<file, chosen>> /\ (lossy => lossy')
  <2>1. CASE _clone_or_pull(p)
    BY <2>1 DEF _clone_or_pull
  <2>2. CASE ~_clone_or_pull(p)
    <3>1. UNCHANGED <<file, chosen, lossy>>
      BY <2>2 DEF SyncStep, Interrupt, update, UpdateEnds, _drop_cache_if_url_changed, SparseSet,
                  Fetch, Clone, Unlink, Link, history
    <3> QED
      BY <3>1
  <2> QED
    BY <2>1, <2>2
<1>2. PICK x : Goto(p, x) /\ x.pc \in Syncing \cup {"next", "load", "idle"}
  <2>1. CASE SyncStep(p)
    BY <2>1, UpdateMoves, PickMoves, UpdateEndsMoves, SyncMoves DEF SyncStep, SyncsOne, Syncs
  <2>2. CASE Interrupt(p)
    BY <2>2 DEF Interrupt, Idle
  <2> QED
    BY <2>1, <2>2
<1>3. CASE lossy
  BY <1>1, <1>3 DEF ChoicesInv
<1>4. CASE ~lossy
  <2>1. Carries(chosen, x) /\ x.pc \notin {"persist", "act", "save", "clear", "persisting", "saving"}
    BY <1>2 DEF Carries, Syncing
  <2> QED
    BY <1>1, <1>2, <1>4, <2>1, Untouched
<1> QED
  BY <1>3, <1>4

(* A migrated list has every entry that is not moved or dropped. *)
LEMMA MigratedKeeps ==
  ASSUME NEW f, Yaml(f), f.version = 1, NEW n \in DOMAIN f.ent,
         f.ent[n].url \notin Deprecated \cup DOMAIN Moved
  PROVE  n \in DOMAIN Migrated(f) /\ Migrated(f)[n] = f.ent[n]
<1>1. f.ent[n] \in Entry
  BY ListIs DEF Yaml
<1>2. f.ent[n] = [url |-> f.ent[n].url, enabled |-> f.ent[n].enabled, trusted |-> f.ent[n].trusted]
  BY <1>1 DEF Entry
<1>3. f.ent[n].trusted \in BOOLEAN
  BY <1>1 DEF Entry
<1> QED
  BY <1>2, <1>3 DEF Migrated

LEMMA LoadKeeps ==
  ASSUME TypeOK, JobsInv, ChoicesInv, NEW p \in Process, Load(p)
  PROVE  ChoicesInv'
<1> DEFINE j == job[p]
<1>1. UNCHANGED <<file, chosen>> /\ lossy' = (lossy \/ file.is = "torn")
  BY DEF Load
<1>2. CASE lossy \/ file.is = "torn"
  BY <1>1, <1>2 DEF ChoicesInv
<1>3. CASE ~lossy /\ file.is # "torn"
  <2>1. j \in Job /\ Local(j) /\ j.pc = "load"
    BY Working DEF Load, At
  <2>2. j.tried \in BOOLEAN
    BY <2>1 DEF Job
  <2> DEFINE x(r) == [j EXCEPT !.ent = r.ent,
                        !.tried = (@ \/ file.is = "absent" \/ (file.is = "torn" /\ ~file.parses)),
                        !.pc = IF r.dirty THEN "persist" ELSE "act"]
  <2>3. PICK r \in IF op(p) \in {"cleanup", "restore"} THEN _load_entries_for_mutation(j.tried)
                   ELSE _load_registries(j.tried) : Goto(p, x(r))
    BY Zenon DEF Load
  <2>4. x(r).ent = r.ent /\ x(r).pc = IF r.dirty THEN "persist" ELSE "act"
    BY <2>1 DEF Job
  <2>5. /\ file.is = "yaml" => r.ent = Migrated(file) \/ (r.ent = file.ent /\ file.version = 1)
        /\ file.is # "yaml" => file.is = "absent"
    BY <1>3, <2>2, <2>3, ReadIs, ReadForMutationIs DEF TypeOK, File
  <2>6. FileKeeps
    BY <1>3 DEF ChoicesInv
  <2>7. Keeps(chosen, r.ent, Nothing)
    <3>1. CASE DOMAIN chosen = {}
      BY <3>1, KeepsAll
    <3>2. CASE file.is = "yaml" /\ file.version = 1
      <4>1. Yaml(file) /\ Keeps(chosen, file.ent, Nothing)
        BY <2>6, <3>2 DEF FileKeeps, Yaml, TypeOK, File
      <4>2. \A n \in DOMAIN file.ent : file.ent[n].url \notin Deprecated \cup DOMAIN Moved =>
              n \in DOMAIN Migrated(file) /\ Migrated(file)[n] = file.ent[n]
        BY <3>2, <4>1, MigratedKeeps
      <4>3. Keeps(chosen, Migrated(file), Nothing)
        BY <4>1, <4>2 DEF Keeps
      <4> QED
        BY <2>5, <3>2, <4>1, <4>3
    <3>3. DOMAIN chosen = {} \/ (file.is = "yaml" /\ file.version = 1)
      BY <2>5, <2>6 DEF FileKeeps, TypeOK, File
    <3> QED
      BY <3>1, <3>2, <3>3
  <2> HIDE DEF x
  <2>8. Carries(chosen, x(r)) /\ x(r).pc \notin {"persisting", "saving"}
    BY <2>4, <2>7 DEF Carries
  <2>9. \A q \in Process : ~Writing(q)
    BY <1>3 DEF ChoicesInv, OneWriter
  <2> QED
    BY <1>1, <1>3, <2>3, <2>8, <2>9, Untouched
<1> QED
  BY <1>2, <1>3

LEMMA TruncateKeeps ==
  ASSUME TypeOK, JobsInv, ChoicesInv, NEW p \in Process, Truncate(p)
  PROVE  ChoicesInv'
<1> DEFINE j == job[p]
           c == IF j.pc = "persist" THEN "persisting" ELSE "saving"
           x == [j EXCEPT !.pc = c]
<1>1. j \in Job /\ j.pc \in {"persist", "save"}
  BY Working DEF Truncate
<1>2. /\ Goto(p, x) /\ chosen' = chosen /\ file'.is = "torn"
      /\ lossy' = (lossy \/ \E q \in Process \ {p} : Pending(q))
  <2>1. \E parses \in BOOLEAN : file' = [is |-> "torn", parses |-> parses]
    BY Zenon DEF Truncate
  <2>2. file'.is = "torn"
    BY <2>1
  <2> QED
    BY <2>2, Zenon DEF Truncate
<1>3. /\ x.pc = c /\ x.phases = j.phases /\ x.ent = j.ent
  BY <1>1 DEF Job
<1> HIDE DEF x
<1>4. CASE lossy'
  BY <1>4 DEF ChoicesInv
<1>5. CASE ~lossy'
  <2>1. ~lossy /\ \A q \in Process \ {p} : ~Pending(q)
    BY <1>2, <1>5
  <2>2. OneWriter /\ \A q \in Process : Carries(chosen, job[q])
    BY <2>1 DEF ChoicesInv
  <2>3. Pending(p)
    BY <1>1 DEF Pending
  <2>4. \A q \in Process \ {p} : ~Pending(q) /\ ~Writing(q)
    BY <2>1, <2>2, <2>3 DEF OneWriter
  <2>5. \A q \in Process : job'[q] = IF q = p THEN x ELSE job[q]
    BY <1>2 DEF Goto, TypeOK
  <2>6. Carries(chosen', x)
    BY <1>1, <1>2, <1>3, <2>2, <2>5 DEF Carries, Keeps, phase
  <2>7. \A q \in Process : Carries(chosen', job'[q])
    BY <1>2, <2>2, <2>5, <2>6 DEF Carries, Keeps
  <2>8. FileKeeps'
    BY <1>2 DEF FileKeeps
  <2>9. OneWriter'
    BY <1>2, <1>3, <2>4, <2>5 DEF OneWriter, Writing, Pending
  <2> QED
    BY <2>7, <2>8, <2>9 DEF ChoicesInv
<1> QED
  BY <1>4, <1>5

LEMMA SaveKeeps ==
  ASSUME TypeOK, JobsInv, ChoicesInv, NEW p \in Process, _save_registries(p)
  PROVE  ChoicesInv'
<1> DEFINE j == job[p]
           n == phase(j).n
           D == (DOMAIN chosen \ {n}) \cup ({n} \cap DOMAIN j.ent)
           now == [m \in D |-> IF m = n THEN j.ent[n] ELSE chosen[m]]
           x == [j EXCEPT !.pc = "act"]
           y == [j EXCEPT !.pc = "orphans"]
<1>1. j \in Job /\ Local(j) /\ j.pc \in {"persisting", "saving"}
  BY Working DEF _save_registries
<1>2. /\ Goto(p, IF j.pc = "persisting" THEN x
                 ELSE IF phase(j).op = "cleanup" THEN y ELSE Advance(j))
      /\ file' = [is |-> "yaml", version |-> 1, ent |-> j.ent]
      /\ chosen' = IF j.pc = "persisting" \/ n = Nothing THEN chosen ELSE now
      /\ lossy' = lossy
  BY Zenon DEF _save_registries, op, phase, CONFIG_VERSION
<1>3. /\ x.pc = "act" /\ x.ent = j.ent /\ y.pc = "orphans"
      /\ Advance(j).pc \in {"idle", "load"}
  BY <1>1, AdvanceIs DEF Job, Idle
<1> HIDE DEF x, y
<1>4. CASE lossy
  BY <1>2, <1>4 DEF ChoicesInv
<1>5. CASE ~lossy
  <2>1. OneWriter /\ Carries(chosen, j)
    BY <1>5 DEF ChoicesInv
  <2>2. \A q \in Process \ {p} : ~Pending(q) /\ ~Writing(q)
    BY <1>1, <2>1 DEF OneWriter, Writing
  <2>3. PICK z : Goto(p, z) /\ ((z.pc = "act" /\ z.ent = j.ent /\ j.pc = "persisting")
                                \/ z.pc \in {"orphans", "idle", "load"})
    BY <1>2, <1>3
  <2>4. \A q \in Process : job'[q] = IF q = p THEN z ELSE job[q]
    BY <2>3 DEF Goto, TypeOK
  <2>5. \A q \in Process : ~Writing(q)'
    BY <2>2, <2>3, <2>4 DEF Writing
  <2>6. Keeps(chosen', j.ent, Nothing)
    <3>1. CASE j.pc = "persisting" \/ n = Nothing
      <4>1. Keeps(chosen, j.ent, Nothing) /\ chosen' = chosen
        BY <1>1, <1>2, <2>1, <3>1 DEF Carries
      <4> QED
        BY <4>1 DEF Keeps
    <3>2. CASE ~(j.pc = "persisting" \/ n = Nothing)
      <4>1. Keeps(chosen, j.ent, n) /\ chosen' = now
        BY <1>1, <1>2, <2>1, <3>2 DEF Carries
      <4>2. DOMAIN chosen' = D /\ \A m \in D : chosen'[m] = IF m = n THEN j.ent[n] ELSE chosen[m]
        BY <4>1
      <4>3. \A m \in D : m = n \/ m \in DOMAIN chosen \ {n}
        OBVIOUS
      <4>4. n \in D => n \in DOMAIN j.ent
        OBVIOUS
      <4> HIDE DEF D
      <4> QED
        BY <4>1, <4>2, <4>3, <4>4 DEF Keeps
    <3> QED
      BY <3>1, <3>2
  <2>7. FileKeeps'
    <3>1. file'.is = "yaml" /\ file'.version = 1 /\ file'.ent = j.ent
      BY <1>2
    <3> QED
      BY <2>6, <3>1 DEF FileKeeps, Keeps
  <2>8. \A q \in Process : Carries(chosen', job'[q])
    <3> SUFFICES ASSUME NEW q \in Process
                 PROVE  Carries(chosen', job'[q])
      OBVIOUS
    <3>1. CASE q = p
      BY <2>3, <2>4, <2>6, <3>1 DEF Carries, Keeps
    <3>2. CASE q # p
      BY <2>2, <2>4, <3>2 DEF Carries, Pending, Writing
    <3> QED
      BY <3>1, <3>2
  <2> QED
    BY <2>5, <2>7, <2>8 DEF ChoicesInv, OneWriter
<1> QED
  BY <1>4, <1>5


(* A command that changes an entry keeps all the others. *)
LEMMA ActKeeps ==
  ASSUME TypeOK, JobsInv, ChoicesInv, NEW p \in Process,
         add_registry(p) \/ Edit(p) \/ restore_missing_defaults(p) \/ cleanup_deprecated(p)
  PROVE  ChoicesInv'
<1> DEFINE j == job[p]
           n == phase(j).n
           x(e) == [j EXCEPT !.pc = "save", !.ent = e]
<1>1. j \in Job /\ Local(j) /\ j.pc = "act"
  BY Working DEF add_registry, Edit, restore_missing_defaults, cleanup_deprecated, At
<1>2. UNCHANGED <<file, chosen, lossy>>
  BY DEF add_registry, Edit, restore_missing_defaults, cleanup_deprecated, history
<1>3. CASE lossy
  BY <1>2, <1>3 DEF ChoicesInv
<1>4. ASSUME ~lossy, NEW e, Keeps(chosen, e, n), Goto(p, x(e))
      PROVE  ChoicesInv'
  <2>1. x(e).pc = "save" /\ x(e).ent = e /\ x(e).phases = j.phases
    BY <1>1 DEF Job
  <2> HIDE DEF x
  <2>2. Carries(chosen, x(e))
    BY <1>4, <2>1 DEF Carries, phase
  <2> QED
    BY <1>1, <1>2, <1>4, <2>1, <2>2, Untouched DEF Pending
<1>5. ASSUME ~lossy, NEW z, Goto(p, z), z.pc \in {"idle", "load"}
      PROVE  ChoicesInv'
  BY <1>2, <1>5, Untouched DEF Carries
<1>6. ASSUME NEW k \in Job
      PROVE  Advance(k).pc \in {"idle", "load"}
  BY <1>6, AdvanceIs DEF Idle
<1>7. /\ ~lossy => Keeps(chosen, j.ent, Nothing)
      /\ Nothing \notin DOMAIN chosen
  <2>1. DOMAIN chosen \subseteq Name /\ Nothing \notin Name
    BY RegistriesAssumption, ListIs DEF TypeOK
  <2> QED
    BY <1>1, <2>1 DEF ChoicesInv, Carries
<1>8. CASE ~lossy /\ add_registry(p)
  <2> DEFINE e == [m \in DOMAIN j.ent \cup {n} |->
                     IF m # n THEN j.ent[m]
                     ELSE [url |-> phase(j).url, enabled |-> TRUE, trusted |-> FALSE]]
             y == [j EXCEPT !.skip = j.skip \cup {n}]
  <2>1. Goto(p, IF n \in Reserved THEN Idle ELSE IF n \in DOMAIN j.ent THEN Advance(y) ELSE x(e))
    BY <1>1, <1>8 DEF add_registry, phase
  <2>2. n \in Name
    BY <1>1, <1>8, PhaseIs DEF add_registry, phase, op
  <2>3. y \in Job
    BY <1>1, <2>2 DEF Job
  <2>5. \A m \in DOMAIN j.ent \ {n} : m \in DOMAIN e /\ e[m] = j.ent[m]
    OBVIOUS
  <2> HIDE DEF e, y, x
  <2>4. Keeps(chosen, e, n)
    BY <1>7, <1>8, <2>5 DEF Keeps
  <2> QED
    BY <1>4, <1>5, <1>6, <1>8, <2>1, <2>3, <2>4 DEF Idle
<1>9. CASE ~lossy /\ Edit(p)
  <2> DEFINE what == phase(j).op
             e == [m \in IF what = "remove" THEN DOMAIN j.ent \ {n} ELSE DOMAIN j.ent |->
                     IF m = n THEN Edited(j.ent[m], what) ELSE j.ent[m]]
  <2>1. Goto(p, IF n \notin DOMAIN j.ent THEN Idle ELSE x(e))
    BY <1>1, <1>9 DEF Edit, phase, op
  <2>3. \A m \in DOMAIN j.ent \ {n} : m \in DOMAIN e /\ e[m] = j.ent[m]
    OBVIOUS
  <2> HIDE DEF e, x
  <2>2. Keeps(chosen, e, n)
    BY <1>7, <1>9, <2>3 DEF Keeps
  <2> QED
    BY <1>4, <1>5, <1>9, <2>1, <2>2 DEF Idle
<1>10. CASE ~lossy /\ restore_missing_defaults(p)
  <2> DEFINE e == [m \in DOMAIN j.ent \cup DOMAIN Shipped |->
                     IF m \in DOMAIN j.ent THEN j.ent[m] ELSE Default(m)]
  <2>1. Goto(p, IF DOMAIN Shipped \subseteq DOMAIN j.ent THEN Advance(j) ELSE x(e))
    BY <1>1, <1>10 DEF restore_missing_defaults
  <2>2. n = Nothing
    BY <1>1, <1>10, PhaseIs DEF restore_missing_defaults, op, phase
  <2>3. Keeps(chosen, e, n)
    BY <1>7, <1>10, <2>2 DEF Keeps
  <2> HIDE DEF e, x
  <2> QED
    BY <1>1, <1>4, <1>5, <1>6, <1>10, <2>1, <2>3
<1>11. CASE ~lossy /\ cleanup_deprecated(p)
  <2> DEFINE old == {m \in DOMAIN j.ent : j.ent[m].url \in Deprecated}
             e == [m \in DOMAIN j.ent \ old |-> j.ent[m]]
  <2>1. Goto(p, IF old = {} THEN Advance(j) ELSE x(e))
    BY <1>1, <1>11 DEF cleanup_deprecated
  <2>2. n = Nothing
    BY <1>1, <1>11, PhaseIs DEF cleanup_deprecated, op, phase
  <2>3. Keeps(chosen, e, n)
    BY <1>7, <1>11, <2>2 DEF Keeps
  <2> HIDE DEF e, x, old
  <2> QED
    BY <1>1, <1>4, <1>5, <1>6, <1>11, <2>1, <2>3
<1> QED
  BY <1>3, <1>8, <1>9, <1>10, <1>11

LEMMA OrphansKeep ==
  ASSUME TypeOK, JobsInv, ChoicesInv, NEW p \in Process, RemoveOrphans(p)
  PROVE  ChoicesInv'
<1>1. /\ job[p] \in Job /\ Goto(p, Advance(job[p])) /\ UNCHANGED <<file, chosen, lossy>>
  BY Working DEF RemoveOrphans, At, history
<1>2. Advance(job[p]).pc \in {"idle", "load"}
  BY <1>1, AdvanceIs DEF Idle
<1>3. CASE lossy
  BY <1>1, <1>3 DEF ChoicesInv
<1>4. CASE ~lossy
  BY <1>1, <1>2, <1>4, Untouched DEF Carries
<1> QED
  BY <1>3, <1>4

LEMMA UnlinkFileKeeps ==
  ASSUME TypeOK, JobsInv, ChoicesInv, NEW p \in Process, UnlinkFile(p)
  PROVE  ChoicesInv'
<1>1. /\ file'.is = "absent" /\ chosen' = <<>> /\ DOMAIN chosen' = {}
      /\ lossy' = (lossy \/ \E q \in Process \ {p} : Pending(q) \/ job[q].pc \in {"persisting", "saving"})
  BY EmptyList DEF UnlinkFile
<1>2. CASE lossy'
  BY <1>2 DEF ChoicesInv
<1>3. CASE ~lossy'
  <2>1. PICK K : Goto(p, [job[p] EXCEPT !.pc = "clear", !.kids = K])
    BY Zenon DEF UnlinkFile
  <2>2. [job[p] EXCEPT !.pc = "clear", !.kids = K].pc = "clear"
    <3>1. job[p] \in Job
      BY Working DEF UnlinkFile, At
    <3> QED
      BY <3>1 DEF Job
  <2>3. \A q \in Process : job'[q] = IF q = p THEN [job[p] EXCEPT !.pc = "clear", !.kids = K] ELSE job[q]
    BY <2>1 DEF Goto, TypeOK
  <2>4. \A q \in Process : ~Writing(q)'
    BY <1>1, <1>3, <2>2, <2>3 DEF Writing
  <2>5. \A q \in Process : Carries(chosen', job'[q])
    BY <1>1 DEF Carries, Keeps
  <2>6. FileKeeps'
    BY <1>1 DEF FileKeeps
  <2> QED
    BY <2>4, <2>5, <2>6 DEF ChoicesInv, OneWriter
<1> QED
  BY <1>2, <1>3

LEMMA ClearKeeps ==
  ASSUME TypeOK, JobsInv, ChoicesInv, NEW p \in Process, clear_cache(p)
  PROVE  ChoicesInv'
<1> DEFINE j == job[p]
           x(k) == [j EXCEPT !.kids = j.kids \ {k}]
           y == [j EXCEPT !.pc = "save", !.ent = FALLBACK_DEFAULT_REGISTRIES]
<1>1. j \in Job /\ j.pc = "clear" /\ UNCHANGED <<file, chosen, lossy>>
  BY Working DEF clear_cache, At, history
<1>2. Goto(p, y) \/ \E k \in j.kids : Goto(p, x(k))
  BY Zenon DEF clear_cache
<1>3. (\A k : x(k).pc = "clear") /\ y.pc = "save"
  BY <1>1 DEF Job
<1> HIDE DEF x, y
<1>4. PICK z : Goto(p, z) /\ z.pc \in {"clear", "save"}
  BY <1>2, <1>3
<1>5. CASE lossy
  BY <1>1, <1>5 DEF ChoicesInv
<1>6. CASE ~lossy
  <2>1. DOMAIN chosen = {}
    BY <1>1, <1>6 DEF ChoicesInv, Carries
  <2>2. Carries(chosen, z)
    BY <1>4, <2>1, KeepsAll DEF Carries
  <2> QED
    BY <1>1, <1>4, <1>6, <2>2, Untouched DEF Pending
<1> QED
  BY <1>5, <1>6

LEMMA InductiveChoices ==
  /\ Init => ChoicesInv
  /\ TypeOK /\ JobsInv /\ ChoicesInv /\ [Next]_vars => ChoicesInv'
<1>1. ASSUME Init
      PROVE  ChoicesInv
  <2>1. DOMAIN chosen = {} /\ \A p \in Process : job[p].pc = "idle"
    BY <1>1, EmptyList DEF Init, Idle
  <2> QED
    BY <2>1 DEF ChoicesInv, FileKeeps, OneWriter, Carries, Keeps, Writing
<1>2. ASSUME TypeOK, JobsInv, ChoicesInv, [Next]_vars
      PROVE  ChoicesInv'
  <2>1. CASE UNCHANGED <<file, job, chosen, lossy>>
    BY <1>2, <2>1 DEF ChoicesInv, FileKeeps, OneWriter, Writing, Pending
  <2>2. ASSUME NEW p \in Process, AnyCommand(p) \/ UpdateCommand(p)
        PROVE  ChoicesInv'
    <3>1. PICK c \in Seq(Phases) \ {<<>>} : Begin(p, c)
      BY <2>2, Commands
    <3>2. PICK x \in Job : Goto(p, x) /\ x.pc \in {"load", "unlink_file"}
      BY <1>2, <3>1, BeginIs
    <3>3. UNCHANGED <<file, chosen, lossy>>
      BY <3>1 DEF Begin
    <3>4. CASE lossy
      BY <3>3, <3>4 DEF ChoicesInv
    <3>5. CASE ~lossy
      BY <1>2, <3>2, <3>3, <3>5, Untouched DEF Carries
    <3> QED
      BY <3>4, <3>5
  <2>3. ASSUME NEW p \in Process, ConfigStep(p)
        PROVE  ChoicesInv'
    BY <1>2, <2>3, LoadKeeps, TruncateKeeps, SaveKeeps, ActKeeps, OrphansKeep, UnlinkFileKeeps, ClearKeeps
       DEF ConfigStep
  <2>4. ASSUME NEW p \in Process, SyncStep(p) \/ Interrupt(p)
        PROVE  ChoicesInv'
    BY <1>2, <2>4, SyncKeeps
  <2>5. CASE Publish \/ UNCHANGED vars
    BY <2>1, <2>5 DEF Publish, vars, history
  <2> QED
    BY <1>2, <2>2, <2>3, <2>4, <2>5 DEF Next
<1> QED
  BY <1>1, <1>2

(* What the user last chose for a registry stays, through migrations,      *)
(* restored defaults, clean-ups, failed and interrupted commands of any    *)
(* number of processes: while nobody else may rewrite the list between its *)
(* reading and its writing, every list in flight keeps the choices.        *)
THEOREM ChoicesKept == Spec => []ChoicesStick
<1>1. TypeOK /\ ChoicesInv => ChoicesStick
  <2>1. Nothing \notin Name /\ (TypeOK => DOMAIN chosen \subseteq Name)
    BY RegistriesAssumption, ListIs DEF TypeOK
  <2> QED
    BY <2>1 DEF ChoicesInv, FileKeeps, Keeps, ChoicesStick
<1>2. Spec => [](TypeOK /\ JobsInv)
  BY InductiveTypes, PTL DEF Spec
<1>3. Spec => []ChoicesInv
  BY <1>2, InductiveChoices, PTL DEF Spec
<1> QED
  BY <1>1, <1>2, <1>3, PTL


-----------------------------------------------------------------------------
(* What holds of a process that nobody else disturbs: it works on the list *)
(* as the file still has it, and on the checkout its registry is served    *)
(* from.                                                                   *)
OriginsOfShared == \A u \in Url : shared[u] # Nothing => shared[u].origin \in {u, Nothing}

Listed(p) ==
    LET ent == job[p].ent IN
    /\ file.is = "yaml" => \/ phase(job[p]).op \in {"cleanup", "restore"} /\ ent = file.ent
                           \/ ent = Migrated(file) /\ ~NeedsSaving(file)
    /\ file.is = "torn" /\ file.parses => ent = <<>>
    /\ file.is # "yaml" /\ ~(file.is = "torn" /\ file.parses) => ent = FALLBACK_DEFAULT_REGISTRIES

ReadsOn(p) ==
    /\ job[p].pc \in Syncing \cup {"act", "next"} => Listed(p)
    /\ job[p].pc \in {"persist", "persisting"} => Settled(job[p].ent)
    /\ job[p].pc = "clear" => file.is = "absent"

Mode(p) ==
    LET j == job[p] IN
    j.pc \in Syncing =>
      /\ j.paths = SameUrl(j.ent, j.url)
      /\ j.mode = "shared" => j.pc \notin {"drop", "set"}
      /\ j.mode = "single" => j.pc \notin {"unlink", "link"}

Stage(p) ==
    LET j == job[p]
        t == Tree_of(p)
        told == j.n \notin j.blind => t.origin \in {j.url, Nothing}
        covered == j.n \notin j.blind => j.n \in t.paths
    IN
    /\ j.pc = "set" => t # Nothing /\ told
    /\ j.pc = "fetch" /\ j.mode = "single" => t # Nothing /\ told /\ covered
    /\ j.pc \in {"cover", "unlink", "link"} =>
          t # Nothing /\ t.origin = j.url /\ t.ver >= j.since[j.url]
    /\ j.pc \in {"unlink", "link"} => covered

Good(p) ==
    LET j == job[p] IN
    j.blind = {} => \A n \in j.good : Serves(n, j.ent[n].url, j.since[j.ent[n].url])

Own(p) == ReadsOn(p) /\ Mode(p) /\ Stage(p) /\ Good(p)

OwnInv == \A p \in Process : job[p] # Idle /\ alone[p] =>
              Own(p) /\ \A q \in Process \ {p} : job[q] = Idle

(* A job that is not syncing has only to do with the list. *)
LEMMA NotSyncing ==
  ASSUME NEW p \in Process, Local(job'[p]), job'[p].pc \notin Syncing \cup {"next"}, ReadsOn(p)'
  PROVE  Own(p)'
<1>1. job'[p].good = {}
  BY DEF Local
<1> QED
  BY <1>1 DEF Own, Mode, Stage, Good, Syncing

(* What Put changes: the trees that are the one the job works on. *)
LEMMA PutEffect ==
  ASSUME TypeOK, JobsInv, NEW p \in Process, job[p].pc \in Syncing, NEW t \in Tree, Put(p, t)
  PROVE  /\ \A m \in Name : \/ Checkout(m)' = Checkout(m)
                            \/ Checkout(m) = Tree_of(p) /\ Checkout(m)' = t
         /\ job[p].mode = "shared" => shared'[job[p].url] = t
         /\ job[p].mode # "shared" => \A m \in Name : m = job[p].n => Checkout(m)' = t
<1> DEFINE j == job[p]
<1>1. j.n \in Name /\ j.url \in Url /\ Nothing \notin Url
  BY WorksOn, RegistriesAssumption
<1>2. CASE j.mode = "shared"
  <2>1. shared' = [shared EXCEPT ![j.url] = t] /\ UNCHANGED <<own, link>>
    BY <1>2 DEF Put
  <2> QED
    BY <1>1, <1>2, <2>1 DEF TypeOK, Checkout, Tree_of
<1>3. CASE j.mode # "shared" /\ link[j.n] # Nothing
  <2>1. shared' = [shared EXCEPT ![link[j.n]] = t] /\ UNCHANGED <<own, link>>
    BY <1>3 DEF Put
  <2>2. link[j.n] \in Url
    BY <1>1, <1>3 DEF TypeOK
  <2>3. Tree_of(p) = shared[link[j.n]]
    BY <1>3 DEF Tree_of, Checkout
  <2>4. shared'[link[j.n]] = t /\ \A u \in Url : u # link[j.n] => shared'[u] = shared[u]
    BY <2>1, <2>2 DEF TypeOK
  <2>5. \A m \in Name : m = j.n => Checkout(m)' = t
    BY <1>3, <2>1, <2>4 DEF Checkout
  <2>6. ASSUME NEW m \in Name
        PROVE  \/ Checkout(m)' = Checkout(m)
               \/ Checkout(m) = Tree_of(p) /\ Checkout(m)' = t
    <3>1. link[m] \in Url \cup {Nothing} /\ own'[m] = own[m] /\ link'[m] = link[m]
      BY <2>1 DEF TypeOK
    <3>2. CASE link[m] = link[j.n]
      BY <1>3, <2>3, <2>4, <3>1, <3>2 DEF Checkout
    <3>3. CASE link[m] # link[j.n]
      BY <2>4, <3>1, <3>3 DEF Checkout
    <3> QED
      BY <3>2, <3>3
  <2> QED
    BY <1>3, <2>5, <2>6
<1>4. CASE j.mode # "shared" /\ link[j.n] = Nothing
  <2>1. own' = [own EXCEPT ![j.n] = t] /\ UNCHANGED <<link, shared>>
    BY <1>4 DEF Put
  <2>2. Tree_of(p) = own[j.n]
    BY <1>4 DEF Tree_of, Checkout
  <2>3. own'[j.n] = t /\ \A m \in Name : m # j.n => own'[m] = own[m]
    BY <1>1, <2>1 DEF TypeOK
  <2>4. \A m \in Name : m = j.n => Checkout(m)' = t /\ Checkout(m) = Tree_of(p)
    BY <1>4, <2>1, <2>2, <2>3 DEF Checkout
  <2>5. \A m \in Name : m # j.n => Checkout(m)' = Checkout(m)
    BY <2>1, <2>3 DEF Checkout
  <2> QED
    BY <1>4, <2>4, <2>5
<1> QED
  BY <1>2, <1>3, <1>4

(* The shared checkout of a URL is never one of another repository. *)
LEMMA PutOrigins ==
  ASSUME TypeOK, JobsInv, OriginsOfShared, NEW p \in Process, job[p].pc \in Syncing,
         NEW t \in Tree, Put(p, t),
         \/ Tree_of(p) # Nothing /\ t.origin = Tree_of(p).origin
         \/ /\ t.origin \in {job[p].url, Nothing}
            /\ job[p].mode # "shared" => link[job[p].n] = Nothing
  PROVE  OriginsOfShared'
<1> DEFINE j == job[p]
<1>1. j.n \in Name /\ j.url \in Url
  BY WorksOn
<1>2. CASE j.mode = "shared"
  <2>1. shared' = [shared EXCEPT ![j.url] = t] /\ UNCHANGED <<own, link>>
    BY <1>2 DEF Put
  <2>2. t.origin \in {j.url, Nothing}
    BY <1>1, <1>2 DEF OriginsOfShared, Tree_of
  <2> QED
    BY <1>1, <2>1, <2>2 DEF TypeOK, OriginsOfShared
<1>3. CASE j.mode # "shared" /\ link[j.n] # Nothing
  <2>1. shared' = [shared EXCEPT ![link[j.n]] = t] /\ UNCHANGED <<own, link>>
    BY <1>3 DEF Put
  <2>2. link[j.n] \in Url
    BY <1>1, <1>3 DEF TypeOK
  <2>3. t.origin \in {link[j.n], Nothing}
    BY <1>3, <2>2 DEF OriginsOfShared, Tree_of, Checkout
  <2> QED
    BY <2>1, <2>2, <2>3 DEF TypeOK, OriginsOfShared
<1>4. CASE j.mode # "shared" /\ link[j.n] = Nothing
  <2>1. UNCHANGED shared
    BY <1>4 DEF Put
  <2> QED
    BY <2>1 DEF OriginsOfShared
<1> QED
  BY <1>2, <1>3, <1>4

LEMMA OriginsStay ==
  ASSUME TypeOK, JobsInv, OriginsOfShared, NEW p \in Process,
         ConfigStep(p) \/ SyncStep(p) \/ Interrupt(p)
  PROVE  OriginsOfShared'
<1> DEFINE j == job[p]
           t == Tree_of(p)
<1>1. CASE \A u \in Url : shared'[u] \in {shared[u], Nothing}
  BY <1>1 DEF OriginsOfShared
<1>2. CASE SparseSet(p)
  <2>1. j.pc \in Syncing
    BY <1>2 DEF SparseSet, Syncing
  <2>2. UNCHANGED dirs \/ (t # Nothing /\ Put(p, [t EXCEPT !.paths = j.paths]))
    BY <1>2 DEF SparseSet
  <2>3. t # Nothing => /\ [t EXCEPT !.paths = j.paths] \in Tree
                       /\ [t EXCEPT !.paths = j.paths].origin = t.origin
    BY <2>1, WorksOn, Trees DEF Tree
  <2> QED
    BY <1>1, <2>1, <2>2, <2>3, PutOrigins DEF dirs
<1>3. CASE Fetch(p)
  <2>1. j.pc \in Syncing
    BY <1>3 DEF Fetch, At, Syncing
  <2>2. \/ UNCHANGED dirs
        \/ t # Nothing /\ t.origin # Nothing /\ Put(p, [t EXCEPT !.ver = head[t.origin]])
    BY <1>3 DEF Fetch
  <2>3. CASE UNCHANGED dirs
    BY <1>1, <2>3 DEF dirs
  <2>4. CASE t # Nothing /\ t.origin # Nothing /\ Put(p, [t EXCEPT !.ver = head[t.origin]])
    <3>1. t \in Tree
      BY <2>1, <2>4, WorksOn
    <3>2. t.origin \in Url
      BY <2>4, <3>1 DEF Tree
    <3>3. head[t.origin] \in 1 .. MaxVersion
      BY <3>2 DEF TypeOK
    <3>4. [t EXCEPT !.ver = head[t.origin]] \in Tree /\ [t EXCEPT !.ver = head[t.origin]].origin = t.origin
      BY <3>1, <3>3, Trees DEF Tree
    <3> QED
      BY <2>1, <2>4, <3>4, PutOrigins
  <2> QED
    BY <2>2, <2>3, <2>4
<1>4. CASE Clone(p)
  <2>1. j.pc \in Syncing
    BY <1>4 DEF Clone, At, Syncing
  <2> DEFINE made == [origin |-> j.url, ver |-> head[j.url], paths |-> {}]
             wreck(o) == [Wreck EXCEPT !.origin = o]
             room == t = Nothing /\ (j.mode = "single" => ~Dangling(j.n))
  <2>2. \/ UNCHANGED dirs
        \/ room /\ Put(p, made)
        \/ room /\ \E o \in {j.url, Nothing} : Put(p, wreck(o))
    BY <1>4 DEF Clone
  <2>3. j.url \in Url /\ j.mode \in {"single", "shared"}
    BY <2>1, WorksOn
  <2>4. head[j.url] \in 0 .. MaxVersion
    BY <2>3 DEF TypeOK
  <2>5. made \in Tree /\ made.origin = j.url
    BY <2>3, <2>4, Trees
  <2>6. \A o \in {j.url, Nothing} : wreck(o) \in Tree /\ wreck(o).origin = o
    BY <2>3, Trees DEF Wreck
  <2>7. room /\ j.mode # "shared" => link[j.n] = Nothing
    BY <2>3 DEF Tree_of, Dangling, Checkout
  <2> HIDE DEF made, wreck
  <2>8. CASE UNCHANGED dirs
    BY <1>1, <2>8 DEF dirs
  <2>9. CASE room /\ Put(p, made)
    BY <2>1, <2>5, <2>7, <2>9, PutOrigins
  <2>10. CASE room /\ \E o \in {j.url, Nothing} : Put(p, wreck(o))
    BY <2>1, <2>6, <2>7, <2>10, PutOrigins
  <2> QED
    BY <2>2, <2>8, <2>9, <2>10
<1>5. UNCHANGED shared \/ RemoveOrphans(p) \/ clear_cache(p) \/ SparseSet(p) \/ Fetch(p) \/ Clone(p)
  BY DEF ConfigStep, SyncStep, Interrupt, Load, Truncate, _save_registries, add_registry, Edit,
         restore_missing_defaults, cleanup_deprecated, UnlinkFile, update, _clone_or_pull, UpdateEnds,
         _drop_cache_if_url_changed, Unlink, Link, dirs
<1>6. RemoveOrphans(p) \/ clear_cache(p) => \A u \in Url : shared'[u] \in {shared[u], Nothing}
  BY DEF RemoveOrphans, clear_cache, dirs
<1> QED
  BY <1>1, <1>2, <1>3, <1>4, <1>5, <1>6


(* What a step of the sync of one registry does to its job. *)
Same(k, j) ==
    /\ k.ent = j.ent /\ k.since = j.since /\ k.phases = j.phases
    /\ k.n = j.n /\ k.url = j.url /\ k.mode = j.mode /\ k.paths = j.paths

Onto(p, c) == LET k == job'[p] IN
    Same(k, job[p]) /\ k.pc = c /\ k.blind = job[p].blind /\ k.good = job[p].good

Blind(p, c) == LET k == job'[p] IN
    Same(k, job[p]) /\ k.pc = c /\ k.blind = job[p].blind \cup {job[p].n} /\ k.good = job[p].good

Done(p, ok) == LET k == job'[p] IN
    /\ Same(k, job[p]) /\ k.pc = "next" /\ k.blind = job[p].blind
    /\ k.good = IF ok THEN job[p].good \cup {job[p].n} ELSE job[p].good \ {job[p].n}

LEMMA JobSteps ==
  ASSUME TypeOK, JobsInv, NEW p \in Process, job[p].pc \in Syncing
  PROVE  /\ \A c \in Syncing : Goto(p, [job[p] EXCEPT !.pc = c]) => Onto(p, c)
         /\ \A c \in Syncing : Goto(p, [job[p] EXCEPT !.pc = c, !.blind = job[p].blind]) => Onto(p, c)
         /\ \A c \in Syncing :
              Goto(p, [job[p] EXCEPT !.pc = c, !.blind = job[p].blind \cup {job[p].n}]) => Blind(p, c)
         /\ \A ok \in BOOLEAN : Goto(p, Synced(job[p], ok)) => Done(p, ok)
<1> DEFINE j == job[p]
<1>1. j \in Job /\ Local(j) /\ j.n \in Name
  BY WorksOn
<1>2. \A x : Goto(p, x) => job'[p] = x
  BY DEF Goto, TypeOK
<1>3. ASSUME NEW c \in Syncing, Goto(p, [j EXCEPT !.pc = c])
      PROVE  Onto(p, c)
  <2> DEFINE y == [j EXCEPT !.pc = c]
  <2>1. /\ y.pc = c /\ y.blind = j.blind /\ y.since = j.since /\ y.ent = j.ent /\ y.phases = j.phases
        /\ y.good = j.good /\ y.n = j.n /\ y.url = j.url /\ y.mode = j.mode /\ y.paths = j.paths
    BY <1>1 DEF Job
  <2>2. job'[p] = y
    BY <1>2, <1>3
  <2> HIDE DEF y
  <2> QED
    BY <2>1, <2>2 DEF Onto, Same
<1>4. ASSUME NEW c \in Syncing, NEW S \in SUBSET Name, Goto(p, [j EXCEPT !.pc = c, !.blind = S])
      PROVE  LET k == job'[p] IN Same(k, j) /\ k.pc = c /\ k.blind = S /\ k.good = j.good
  <2>1. job'[p] = Blindly(j, c, S)
    BY <1>2, <1>4 DEF Blindly
  <2> QED
    BY <1>1, <2>1, BlindlyOn DEF Same
<1>5. j.blind \in SUBSET Name /\ j.blind \cup {j.n} \in SUBSET Name
  BY <1>1 DEF Job
<1>6. ASSUME NEW c \in Syncing, Goto(p, [j EXCEPT !.pc = c, !.blind = j.blind])
      PROVE  Onto(p, c)
  BY <1>4, <1>5, <1>6 DEF Onto
<1>7. ASSUME NEW c \in Syncing, Goto(p, [j EXCEPT !.pc = c, !.blind = j.blind \cup {j.n}])
      PROVE  Blind(p, c)
  BY <1>4, <1>5, <1>7 DEF Blind
<1>8. ASSUME NEW ok \in BOOLEAN, Goto(p, Synced(j, ok))
      PROVE  Done(p, ok)
  <2>1. job'[p] = Synced(j, ok)
    BY <1>2, <1>8
  <2> DEFINE y == Synced(j, ok)
  <2>2. /\ y.pc = "next" /\ y.good = (IF ok THEN j.good \cup {j.n} ELSE j.good \ {j.n})
        /\ y.since = j.since /\ y.ent = j.ent /\ y.blind = j.blind /\ y.phases = j.phases
        /\ y.n = j.n /\ y.url = j.url /\ y.mode = j.mode /\ y.paths = j.paths
    <3>1. j \in Job /\ Local(j) /\ j.pc \in Syncing
      BY <1>1
    <3> HIDE DEF j
    <3> QED
      BY <3>1, SyncedIs
  <2> HIDE DEF y
  <2> QED
    BY <2>1, <2>2 DEF Done, Same, y
<1> QED
  BY <1>3, <1>6, <1>7, <1>8

(* What a step of the sync owes: the checkout of a registry that is        *)
(* reported as good, and what the other registries served.                 *)
Delivers(p) ==
    \A m \in Name : m = job[p].n /\ m \in job'[p].good /\ job'[p].blind = {} =>
        LET t == Checkout(m)' IN
        t # Nothing /\ t.origin = job[p].url /\ t.ver >= job[p].since[job[p].url] /\ m \in t.paths

Others(p) ==
    \A m \in Name, u \in Url, v \in Nat :
        m \in SameUrl(job[p].ent, u) /\ Serves(m, u, v) /\ v <= head[u] =>
            \/ Serves(m, u, v)'
            \/ job[p].pc = "unlink" /\ m = job[p].n
            \/ job[p].pc = "set" /\ job[p].n \in job[p].blind

LEMMA PutServes ==
  ASSUME TypeOK, JobsInv, NEW p \in Process, job[p].pc \in Syncing, NEW t \in Tree, Put(p, t),
         NEW m \in Name, NEW u \in Url, NEW v \in Nat, Serves(m, u, v),
         LET s == Tree_of(p) IN
         s # Nothing /\ s.origin = u /\ s.ver >= v /\ m \in s.paths =>
            t.origin = u /\ t.ver >= v /\ m \in t.paths
  PROVE  Serves(m, u, v)'
<1>1. \/ Checkout(m)' = Checkout(m)
      \/ Checkout(m) = Tree_of(p) /\ Checkout(m)' = t
  BY PutEffect
<1>2. t # Nothing
  BY RegistriesAssumption
<1> QED
  BY <1>1, <1>2 DEF Serves

(* Where the directories are as they were, every registry serves as before. *)
LEMMA StillServes ==
  ASSUME NEW p, UNCHANGED dirs
  PROVE  Others(p)
BY DEF Others, Serves, Checkout, dirs

LEMMA TreeStays ==
  ASSUME NEW p, UNCHANGED dirs, Same(job'[p], job[p])
  PROVE  Tree_of(p)' = Tree_of(p)
BY DEF Same, dirs, Tree_of, Checkout

LEMMA DropOwn ==
  ASSUME TypeOK, JobsInv, NEW p \in Process, Mode(p), _drop_cache_if_url_changed(p)
  PROVE  Mode(p)' /\ Stage(p)' /\ Delivers(p) /\ Others(p)
<1> DEFINE j == job[p]
           t == Checkout(j.n)
           foreign == t # Nothing /\ t.origin \notin {j.url, Nothing}
<1>1. j.pc = "drop" /\ j.pc \in Syncing
  BY DEF _drop_cache_if_url_changed, At, Syncing
<1>2. /\ j.n \in Name /\ j.n \in Enabled(j.ent) /\ j.url = j.ent[j.n].url /\ j.mode = "single"
      /\ j.n \notin j.good
  BY <1>1, WorksOn DEF Mode, Local
<1>3. Tree_of(p) = t
  BY <1>2 DEF Tree_of
<1>4. {"clone", "set", "fetch"} \subseteq Syncing
  BY DEF Syncing
<1>5. CASE foreign /\ UNCHANGED shared /\ link' = [link EXCEPT ![j.n] = Nothing]
           /\ own' = [own EXCEPT ![j.n] = Nothing] /\ Goto(p, [j EXCEPT !.pc = "clone"])
  <2>1. Onto(p, "clone")
    BY <1>1, <1>4, <1>5, JobSteps
  <2>2. Mode(p)'
    BY <1>1, <1>2, <2>1 DEF Mode, Onto, Same
  <2>3. Stage(p)'
    BY <2>1 DEF Stage, Onto
  <2>4. Delivers(p)
    BY <1>2, <2>1 DEF Delivers, Onto
  <2>5. \A m \in Name : m # j.n => Checkout(m)' = Checkout(m)
    BY <1>2, <1>5 DEF TypeOK, Checkout
  <2>6. \A u \in Url, v \in Nat : j.n \in SameUrl(j.ent, u) => ~Serves(j.n, u, v)
    BY <1>2, <1>5 DEF Serves, SameUrl
  <2>7. Others(p)
    BY <2>5, <2>6 DEF Others, Serves
  <2> QED
    BY <2>2, <2>3, <2>4, <2>7
<1>6. CASE UNCHANGED dirs /\ Goto(p, Synced(j, FALSE))
  <2>1. Done(p, FALSE)
    BY <1>1, <1>6, JobSteps
  <2>2. Mode(p)' /\ Stage(p)' /\ Delivers(p)
    BY <2>1 DEF Mode, Stage, Delivers, Done, Syncing
  <2> QED
    BY <1>6, <2>2, StillServes
<1>7. CASE UNCHANGED dirs /\ t = Nothing /\ Goto(p, [j EXCEPT !.pc = "clone"])
  <2>1. Onto(p, "clone")
    BY <1>1, <1>4, <1>7, JobSteps
  <2>2. Mode(p)' /\ Stage(p)' /\ Delivers(p)
    BY <1>1, <1>2, <2>1 DEF Mode, Stage, Delivers, Onto, Same
  <2> QED
    BY <1>7, <2>2, StillServes
<1>8. CASE UNCHANGED dirs /\ t # Nothing /\ t.origin \in {j.url, Nothing} /\ Goto(p, [j EXCEPT !.pc = "set"])
  <2>1. Onto(p, "set")
    BY <1>1, <1>4, <1>8, JobSteps
  <2>2. Tree_of(p)' = t
    BY <1>3, <1>8, <2>1, TreeStays DEF Onto
  <2>3. Mode(p)' /\ Delivers(p)
    BY <1>1, <1>2, <2>1 DEF Mode, Delivers, Onto, Same
  <2>4. Stage(p)'
    BY <1>8, <2>1, <2>2 DEF Stage, Onto, Same
  <2> QED
    BY <1>8, <2>3, <2>4, StillServes
<1>9. CASE foreign /\ UNCHANGED dirs /\ Goto(p, [j EXCEPT !.pc = "set", !.blind = j.blind \cup {j.n}])
  <2>1. Blind(p, "set")
    BY <1>1, <1>4, <1>9, JobSteps
  <2>2. Tree_of(p)' = t
    BY <1>3, <1>9, <2>1, TreeStays DEF Blind
  <2>3. Mode(p)' /\ Delivers(p)
    BY <1>1, <1>2, <2>1 DEF Mode, Delivers, Blind, Same
  <2>4. Stage(p)'
    BY <1>9, <2>1, <2>2 DEF Stage, Blind, Same
  <2> QED
    BY <1>9, <2>3, <2>4, StillServes
<1>10. foreign => ~Dangling(j.n)
  BY DEF Dangling, Checkout
<1> QED
  <2>1. UNCHANGED shared
    BY DEF _drop_cache_if_url_changed
  <2> DEFINE stay == UNCHANGED <<own, link>>
  <2>2. \/ /\ IF foreign
              THEN /\ link' = [link EXCEPT ![j.n] = Nothing]
                   /\ own' = [own EXCEPT ![j.n] = Nothing]
              ELSE stay
           /\ Goto(p, IF Dangling(j.n) THEN Synced(j, FALSE)
                      ELSE [j EXCEPT !.pc = IF t = Nothing \/ foreign THEN "clone" ELSE "set"])
        \/ foreign /\ stay /\ Goto(p, [j EXCEPT !.pc = "set", !.blind = j.blind \cup {j.n}])
    BY Zenon DEF _drop_cache_if_url_changed
  <2>3. stay => UNCHANGED dirs
    BY <2>1 DEF dirs
  <2> HIDE DEF stay
  <2> QED
    BY <1>5, <1>6, <1>7, <1>8, <1>9, <1>10, <2>1, <2>2, <2>3


LEMMA SparseSetOwn ==
  ASSUME TypeOK, JobsInv, NEW p \in Process, Mode(p), Stage(p), SparseSet(p)
  PROVE  Mode(p)' /\ Stage(p)' /\ Delivers(p) /\ Others(p)
<1> DEFINE j == job[p]
           t == Tree_of(p)
           new == [t EXCEPT !.paths = j.paths]
<1>1. j.pc \in {"set", "cover"} /\ j.pc \in Syncing
  BY DEF SparseSet, Syncing
<1>2. /\ j.n \in Name /\ j.n \in SameUrl(j.ent, j.url) /\ j.mode \in {"single", "shared"}
      /\ j.n \notin j.good /\ t \in Tree \cup {Nothing} /\ j.paths \in SUBSET Name /\ j.url \in Url
  BY <1>1, WorksOn DEF Local, SameUrl
<1>3. {"fetch", "unlink"} \subseteq Syncing
  BY DEF Syncing
<1>4. t # Nothing /\ j.paths = SameUrl(j.ent, j.url) /\ Nothing \notin Tree \cup Url
  BY <1>1, RegistriesAssumption DEF Stage, Mode
<1>5. new \in Tree /\ new.origin = t.origin /\ new.ver = t.ver /\ new.paths = j.paths
  BY <1>2, <1>4, Trees DEF Tree
<1>6. Put(p, new) => Others(p)
  <2> SUFFICES ASSUME Put(p, new), NEW m \in Name, NEW u \in Url, NEW v \in Nat,
                      m \in SameUrl(j.ent, u), Serves(m, u, v),
                      ~(j.pc = "set" /\ j.n \in j.blind)
               PROVE  Serves(m, u, v)'
    BY DEF Others
  <2>1. t.origin = u => u = j.url
    BY <1>1, <1>4 DEF Stage
  <2>2. t.origin = u => m \in j.paths
    BY <1>4, <2>1
  <2> HIDE DEF new
  <2> QED
    BY <1>1, <1>5, <2>2, PutServes
<1>7. Put(p, new) /\ Same(job'[p], j) => Tree_of(p)' = new
  BY <1>1, <1>2, <1>5, PutEffect DEF Tree_of, Same
<1>8. ASSUME ~(Put(p, new) \/ UNCHANGED dirs)
      PROVE  FALSE
  BY <1>8, Zenon DEF SparseSet
<1>9. CASE j.pc = "set"
  <2>1. j.mode = "single"
    BY <1>1, <1>2, <1>9 DEF Mode
  <2>2. CASE Put(p, new) /\ Goto(p, [j EXCEPT !.pc = "fetch", !.blind = j.blind])
    <3>1. Onto(p, "fetch")
      BY <1>1, <1>3, <2>2, JobSteps
    <3>2. Tree_of(p)' = new
      BY <1>7, <2>2, <3>1 DEF Onto
    <3>3. Mode(p)' /\ Delivers(p)
      BY <1>1, <1>2, <2>1, <3>1 DEF Mode, Delivers, Onto, Same
    <3>4. new # Nothing /\ (j.n \notin j.blind => new.origin \in {j.url, Nothing} /\ j.n \in new.paths)
      BY <1>2, <1>4, <1>5, <1>9 DEF Stage
    <3> HIDE DEF new
    <3>5. Stage(p)'
      BY <3>1, <3>2, <3>4 DEF Stage, Onto, Same
    <3> QED
      BY <1>6, <2>2, <3>3, <3>5
  <2>3. CASE UNCHANGED dirs /\ Goto(p, [j EXCEPT !.pc = "fetch", !.blind = j.blind \cup {j.n}])
    <3>1. Blind(p, "fetch")
      BY <1>1, <1>3, <2>3, JobSteps
    <3>2. Tree_of(p)' = t
      BY <2>3, <3>1, TreeStays DEF Blind
    <3>3. Mode(p)' /\ Delivers(p)
      BY <1>1, <1>2, <2>1, <3>1 DEF Mode, Delivers, Blind, Same
    <3>4. Stage(p)'
      BY <1>4, <3>1, <3>2 DEF Stage, Blind, Same
    <3> QED
      BY <2>3, <3>3, <3>4, StillServes
  <2>4. CASE UNCHANGED dirs /\ Goto(p, Synced(j, FALSE))
    <3>1. Done(p, FALSE)
      BY <1>1, <2>4, JobSteps
    <3>2. Mode(p)' /\ Stage(p)' /\ Delivers(p)
      BY <3>1 DEF Mode, Stage, Delivers, Done, Syncing
    <3> QED
      BY <2>4, <3>2, StillServes
  <2> QED
    BY <1>9, <2>2, <2>3, <2>4 DEF SparseSet
<1>10. CASE j.pc = "cover"
  <2>1. t.origin = j.url /\ t.ver >= j.since[j.url] /\ j.n \in j.paths
    BY <1>2, <1>4, <1>10 DEF Stage
  <2>2. CASE j.mode = "shared" /\ Put(p, new) /\ Goto(p, [j EXCEPT !.pc = "unlink", !.blind = j.blind])
    <3>1. Onto(p, "unlink")
      BY <1>1, <1>3, <2>2, JobSteps
    <3>2. Tree_of(p)' = new
      BY <1>7, <2>2, <3>1 DEF Onto
    <3>3. Mode(p)' /\ Delivers(p)
      BY <1>1, <1>2, <2>2, <3>1 DEF Mode, Delivers, Onto, Same
    <3>4. new # Nothing /\ new.origin = j.url /\ new.ver >= j.since[j.url] /\ j.n \in new.paths
      BY <1>4, <1>5, <2>1
    <3> HIDE DEF new
    <3>5. Stage(p)'
      BY <3>1, <3>2, <3>4 DEF Stage, Onto, Same
    <3> QED
      BY <1>6, <2>2, <3>3, <3>5
  <2>3. CASE j.mode = "shared" /\ UNCHANGED dirs
             /\ Goto(p, [j EXCEPT !.pc = "unlink", !.blind = j.blind \cup {j.n}])
    <3>1. Blind(p, "unlink")
      BY <1>1, <1>3, <2>3, JobSteps
    <3>2. Tree_of(p)' = t
      BY <2>3, <3>1, TreeStays DEF Blind
    <3>3. Mode(p)' /\ Delivers(p)
      BY <1>1, <1>2, <2>3, <3>1 DEF Mode, Delivers, Blind, Same
    <3>4. Stage(p)'
      BY <1>4, <2>1, <3>1, <3>2 DEF Stage, Blind, Same
    <3> QED
      BY <2>3, <3>3, <3>4, StillServes
  <2>4. CASE j.mode = "single" /\ Put(p, new) /\ Goto(p, Synced(j, TRUE))
    <3>1. Done(p, TRUE)
      BY <1>1, <2>4, JobSteps
    <3>2. Mode(p)' /\ Stage(p)'
      BY <3>1 DEF Mode, Stage, Done, Syncing
    <3>3. \A m \in Name : m = j.n => Checkout(m)' = new
      BY <1>1, <1>5, <2>4, PutEffect
    <3>4. new # Nothing /\ new.origin = j.url /\ new.ver >= j.since[j.url] /\ j.n \in new.paths
      BY <1>4, <1>5, <2>1
    <3> HIDE DEF new
    <3>5. Delivers(p)
      BY <3>3, <3>4 DEF Delivers
    <3> QED
      BY <1>6, <2>4, <3>2, <3>5
  <2>5. CASE UNCHANGED dirs /\ Goto(p, Synced(j, FALSE))
    <3>1. Done(p, FALSE)
      BY <1>1, <2>5, JobSteps
    <3>2. Mode(p)' /\ Stage(p)' /\ Delivers(p)
      BY <3>1 DEF Mode, Stage, Delivers, Done, Syncing
    <3> QED
      BY <2>5, <3>2, StillServes
  <2> QED
    BY <1>2, <1>10, <2>2, <2>3, <2>4, <2>5 DEF SparseSet
<1> QED
  BY <1>1, <1>9, <1>10

LEMMA FetchOwn ==
  ASSUME TypeOK, JobsInv, OriginsOfShared, NEW p \in Process, Mode(p), Stage(p), Fetch(p)
  PROVE  Mode(p)' /\ Stage(p)' /\ Delivers(p) /\ Others(p)
<1> DEFINE j == job[p]
           t == Tree_of(p)
           new == [t EXCEPT !.ver = head[t.origin]]
<1>1. j.pc = "fetch" /\ j.pc \in Syncing
  BY DEF Fetch, At, Syncing
<1>2. /\ j.n \in Name /\ j.mode \in {"single", "shared"} /\ j.n \notin j.good
      /\ t \in Tree \cup {Nothing} /\ j.url \in Url /\ job[p] # Idle
  BY <1>1, WorksOn, NotIdle DEF Local
<1>3. "cover" \in Syncing /\ Nothing \notin Tree \cup Url
  BY RegistriesAssumption DEF Syncing
<1>4. CASE UNCHANGED dirs /\ Goto(p, Synced(j, FALSE))
  <2>1. Done(p, FALSE)
    BY <1>1, <1>4, JobSteps
  <2>2. Mode(p)' /\ Stage(p)' /\ Delivers(p)
    BY <2>1 DEF Mode, Stage, Delivers, Done, Syncing
  <2> QED
    BY <1>4, <2>2, StillServes
<1>5. ASSUME t # Nothing, t.origin # Nothing, Put(p, new)
      PROVE  /\ new \in Tree /\ new.origin = t.origin /\ new.ver = head[t.origin] /\ new.paths = t.paths
             /\ t.origin \in Url /\ Others(p)
  <2>1. t.origin \in Url /\ t \in Tree
    BY <1>2, <1>5 DEF Tree
  <2>2. head[t.origin] \in 1 .. MaxVersion
    BY <2>1 DEF TypeOK
  <2>3. new \in Tree /\ new.origin = t.origin /\ new.ver = head[t.origin] /\ new.paths = t.paths
    BY <2>1, <2>2, Trees DEF Tree
  <2>4. Others(p)
    <3> SUFFICES ASSUME NEW m \in Name, NEW u \in Url, NEW v \in Nat, Serves(m, u, v), v <= head[u]
                 PROVE  Serves(m, u, v)'
      BY DEF Others
    <3> HIDE DEF new
    <3>1. t.origin = u => new.ver >= v
      BY <2>2, <2>3
    <3> QED
      BY <1>1, <1>5, <2>3, <3>1, PutServes
  <2> QED
    BY <2>1, <2>3, <2>4
<1>6. j.since[j.url] \in Nat /\ head[j.url] \in Nat /\ head[j.url] >= j.since[j.url]
  <2>1. j \in Job
    BY <1>1, WorksOn
  <2> QED
    BY <1>2, <2>1 DEF JobsInv, Job, TypeOK
<1>7. CASE j.mode = "shared" /\ t # Nothing /\ t.origin # Nothing /\ Put(p, new)
           /\ Goto(p, [j EXCEPT !.pc = "cover"])
  <2>1. Onto(p, "cover")
    BY <1>1, <1>3, <1>7, JobSteps
  <2>2. t.origin = j.url
    BY <1>2, <1>7 DEF OriginsOfShared, Tree_of
  <2>3. new \in Tree /\ new.origin = j.url /\ new.ver >= j.since[j.url]
    BY <1>5, <1>6, <1>7, <2>2
  <2>4. Tree_of(p)' = new
    BY <1>1, <1>7, <2>1, <2>3, PutEffect DEF Tree_of, Onto, Same
  <2>5. Mode(p)' /\ Delivers(p)
    BY <1>1, <1>2, <1>7, <2>1 DEF Mode, Delivers, Onto, Same
  <2> HIDE DEF new
  <2>6. Stage(p)'
    BY <1>3, <2>1, <2>3, <2>4 DEF Stage, Onto, Same
  <2> QED
    BY <1>5, <1>7, <2>5, <2>6
<1>8. CASE j.mode = "single" /\ t # Nothing /\ t.origin # Nothing /\ Put(p, new)
           /\ Goto(p, Synced(j, TRUE))
  <2>1. Done(p, TRUE)
    BY <1>1, <1>8, JobSteps
  <2>2. Mode(p)' /\ Stage(p)'
    BY <2>1 DEF Mode, Stage, Done, Syncing
  <2>3. new \in Tree /\ \A m \in Name : m = j.n => Checkout(m)' = new
    BY <1>1, <1>5, <1>8, PutEffect
  <2>4. j.n \notin j.blind => new.origin = j.url /\ new.ver >= j.since[j.url] /\ j.n \in new.paths
    BY <1>1, <1>5, <1>6, <1>8 DEF Stage
  <2> HIDE DEF new
  <2>5. Delivers(p)
    BY <1>3, <2>1, <2>3, <2>4 DEF Delivers, Done
  <2> QED
    BY <1>5, <1>8, <2>2, <2>5
<1> QED
  BY <1>2, <1>4, <1>7, <1>8 DEF Fetch

LEMMA CloneOwn ==
  ASSUME TypeOK, JobsInv, NEW p \in Process, Mode(p), Stage(p), Clone(p)
  PROVE  Mode(p)' /\ Stage(p)' /\ Delivers(p) /\ Others(p)
<1> DEFINE j == job[p]
           new == [origin |-> j.url, ver |-> head[j.url], paths |-> {}]
           wreck(o) == [Wreck EXCEPT !.origin = o]
<1>1. j.pc = "clone" /\ j.pc \in Syncing
  BY DEF Clone, At, Syncing
<1>2. j.n \in Name /\ j.mode \in {"single", "shared"} /\ j.n \notin j.good /\ j.url \in Url
  BY <1>1, WorksOn DEF Local
<1>3. "cover" \in Syncing /\ Nothing \notin Tree
  BY RegistriesAssumption DEF Syncing
<1>4. /\ j.since[j.url] \in Nat /\ head[j.url] \in 0 .. MaxVersion /\ head[j.url] >= j.since[j.url]
  <2>1. j \in Job /\ j # Idle
    BY <1>1, WorksOn, NotIdle
  <2> QED
    BY <1>2, <2>1 DEF JobsInv, Job, TypeOK
<1>5. ASSUME Tree_of(p) = Nothing, NEW t \in Tree, Put(p, t)
      PROVE  Others(p)
  <2> SUFFICES ASSUME NEW m \in Name, NEW u \in Url, NEW v \in Nat, Serves(m, u, v)
               PROVE  Serves(m, u, v)'
    BY DEF Others
  <2> QED
    BY <1>1, <1>5, PutServes
<1>6. new \in Tree /\ new.origin = j.url /\ new.ver = head[j.url]
  BY <1>2, <1>4, Trees
<1>7. \A o \in {j.url, Nothing} : wreck(o) \in Tree
  BY <1>2, Trees
<1> HIDE DEF new, wreck
<1>8. CASE Tree_of(p) = Nothing /\ Put(p, new) /\ Goto(p, [j EXCEPT !.pc = "cover"])
  <2>1. Onto(p, "cover")
    BY <1>1, <1>3, <1>8, JobSteps
  <2>2. Tree_of(p)' = new
    BY <1>1, <1>2, <1>6, <1>8, <2>1, PutEffect DEF Tree_of, Onto, Same
  <2>3. Mode(p)' /\ Delivers(p)
    BY <1>1, <1>2, <2>1 DEF Mode, Delivers, Onto, Same
  <2>4. Stage(p)'
    BY <1>3, <1>4, <1>6, <2>1, <2>2 DEF Stage, Onto, Same
  <2> QED
    BY <1>5, <1>6, <1>8, <2>3, <2>4
<1>9. CASE /\ UNCHANGED dirs \/ \E o \in {j.url, Nothing} : Tree_of(p) = Nothing /\ Put(p, wreck(o))
           /\ Goto(p, Synced(j, FALSE))
  <2>1. Done(p, FALSE)
    BY <1>1, <1>9, JobSteps
  <2>2. Mode(p)' /\ Stage(p)' /\ Delivers(p)
    BY <2>1 DEF Mode, Stage, Delivers, Done, Syncing
  <2>3. Others(p)
    BY <1>5, <1>7, <1>9, StillServes
  <2> QED
    BY <2>2, <2>3
<1>10. \/ Tree_of(p) = Nothing /\ Put(p, new) /\ Goto(p, [j EXCEPT !.pc = "cover"])
       \/ /\ UNCHANGED dirs \/ \E o \in {j.url, Nothing} : Tree_of(p) = Nothing /\ Put(p, wreck(o))
          /\ Goto(p, Synced(j, FALSE))
  BY DEF Clone, new, wreck
<1> QED
  BY <1>8, <1>9, <1>10

LEMMA UnlinkOwn ==
  ASSUME TypeOK, JobsInv, NEW p \in Process, Mode(p), Stage(p), Unlink(p)
  PROVE  Mode(p)' /\ Stage(p)' /\ Delivers(p) /\ Others(p)
<1> DEFINE j == job[p]
<1>1. j.pc = "unlink" /\ j.pc \in Syncing /\ "link" \in Syncing
  BY DEF Unlink, At, Syncing
<1>2. j.n \in Name /\ j.mode = "shared" /\ j.n \notin j.good
  BY <1>1, WorksOn DEF Mode, Local
<1>3. Goto(p, [j EXCEPT !.pc = "link"])
  BY Zenon DEF Unlink
<1>4. Onto(p, "link")
  BY <1>1, <1>3, JobSteps
<1>5. shared' = shared /\ Tree_of(p)' = Tree_of(p)
  BY <1>2, <1>4 DEF Unlink, Tree_of, Onto, Same
<1>6. Mode(p)' /\ Delivers(p)
  BY <1>1, <1>2, <1>4 DEF Mode, Delivers, Onto, Same
<1>7. Stage(p)'
  BY <1>1, <1>4, <1>5 DEF Stage, Onto, Same
<1>8. \A m \in Name : m # j.n => Checkout(m)' = Checkout(m)
  BY <1>2, <1>5 DEF Unlink, TypeOK, Checkout
<1>9. Others(p)
  BY <1>1, <1>8 DEF Others, Serves
<1> QED
  BY <1>6, <1>7, <1>9

LEMMA LinkOwn ==
  ASSUME TypeOK, JobsInv, NEW p \in Process, Mode(p), Stage(p), Link(p), job'[p] # Idle
  PROVE  Mode(p)' /\ Stage(p)' /\ Delivers(p)
<1> DEFINE j == job[p]
<1>1. j.pc = "link" /\ j.pc \in Syncing
  BY DEF Link, At, Syncing
<1>2. j.n \in Name /\ j.mode = "shared" /\ j.url \in Url /\ Nothing \notin Url
  BY <1>1, WorksOn, RegistriesAssumption DEF Mode
<1>3. \A x : Goto(p, x) => job'[p] = x
  BY DEF Goto, TypeOK
<1>4. link' = [link EXCEPT ![j.n] = j.url] /\ Goto(p, Synced(j, TRUE)) /\ UNCHANGED <<own, shared>>
  BY <1>3 DEF Link
<1>5. Done(p, TRUE)
  BY <1>1, <1>4, JobSteps
<1>6. Mode(p)' /\ Stage(p)'
  BY <1>5 DEF Mode, Stage, Done, Syncing
<1>7. Tree_of(p) = shared[j.url]
  BY <1>2 DEF Tree_of
<1>8. \A m \in Name : m = j.n => Checkout(m)' = shared[j.url]
  BY <1>2, <1>4 DEF TypeOK, Checkout
<1>9. Delivers(p)
  BY <1>1, <1>5, <1>7, <1>8 DEF Delivers, Stage, Done
<1> QED
  BY <1>6, <1>9

LEMMA LinkOthers ==
  ASSUME TypeOK, JobsInv, NEW p \in Process, Link(p)
  PROVE  Others(p)
<1> DEFINE j == job[p]
<1>1. j.n \in Name
  BY WorksOn DEF Link, At, Syncing
<1>2. CASE UNCHANGED dirs
  BY <1>2, StillServes
<1>3. CASE own[j.n] = Nothing /\ link[j.n] = Nothing /\ link' = [link EXCEPT ![j.n] = j.url]
           /\ UNCHANGED <<own, shared>>
  <2>1. \A m \in Name : m # j.n => Checkout(m)' = Checkout(m)
    BY <1>1, <1>3 DEF TypeOK, Checkout
  <2>2. Checkout(j.n) = Nothing
    BY <1>3 DEF Checkout
  <2> QED
    BY <2>1, <2>2 DEF Others, Serves
<1> QED
  BY <1>2, <1>3 DEF Link, dirs


LEMMA SyncShape ==
  ASSUME TypeOK, JobsInv, NEW p \in Process, SyncsOne(p), job'[p] # Idle
  PROVE  (\E c \in Syncing : Onto(p, c) \/ Blind(p, c)) \/ \E ok \in BOOLEAN : Done(p, ok)
<1>1. job[p].pc \in Syncing
  BY SyncGoes
<1>2. PICK x : Goto(p, x) /\ (Further(p, x) \/ x = Idle)
  BY SyncGoes
<1>3. job'[p] = x
  BY <1>2 DEF Goto, TypeOK
<1>4. Further(p, x)
  BY <1>2, <1>3
<1>5. ASSUME NEW c \in Syncing, NEW S \in {job[p].blind, job[p].blind \cup {job[p].n}},
             x = [job[p] EXCEPT !.pc = c, !.blind = S]
      PROVE  Onto(p, c) \/ Blind(p, c)
  BY <1>1, <1>2, <1>5, JobSteps
<1>6. ASSUME NEW c \in Syncing, x = [job[p] EXCEPT !.pc = c]
      PROVE  Onto(p, c)
  BY <1>1, <1>2, <1>6, JobSteps
<1>7. ASSUME NEW ok \in BOOLEAN, x = Synced(job[p], ok)
      PROVE  Done(p, ok)
  BY <1>1, <1>2, <1>7, JobSteps
<1> QED
  BY <1>4, <1>5, <1>6, <1>7 DEF Further

(* The list is as it was read, while neither changes. *)
LEMMA ListedStays ==
  ASSUME NEW p, Listed(p), file' = file, job'[p].ent = job[p].ent, job'[p].phases = job[p].phases
  PROVE  Listed(p)'
BY DEF Listed, phase

LEMMA SyncOwn ==
  ASSUME TypeOK, JobsInv, OriginsOfShared, NEW p \in Process, Own(p), SyncsOne(p), job'[p] # Idle
  PROVE  Own(p)'
<1> DEFINE j == job[p]
           k == job'[p]
<1>1. j.pc \in Syncing /\ j \in Job /\ Local(j) /\ j.n \in Name
  BY SyncGoes, WorksOn
<1>2. /\ Same(k, j) /\ k.pc \in Syncing \cup {"next"} /\ k.good \subseteq j.good \cup {j.n}
      /\ k.blind = {} => j.blind = {}
  BY SyncShape DEF Onto, Blind, Done
<1>3. Mode(p)' /\ Stage(p)' /\ Delivers(p) /\ Others(p)
  BY DropOwn, SparseSetOwn, FetchOwn, CloneOwn, UnlinkOwn, LinkOwn, LinkOthers DEF Own, SyncsOne
<1>4. file' = file
  BY DEF SyncsOne, _drop_cache_if_url_changed, SparseSet, Fetch, Clone, Unlink, Link
<1>5. ReadsOn(p)'
  <2>1. Listed(p)
    BY <1>1 DEF Own, ReadsOn
  <2>2. Listed(p)'
    BY <1>2, <1>4, <2>1, ListedStays DEF Same
  <2> QED
    BY <1>2, <2>2 DEF ReadsOn, Syncing
<1>6. ASSUME k.blind = {}, NEW n \in k.good, NEW u, NEW v, u = k.ent[n].url, v = k.since[u]
      PROVE  Serves(n, u, v)'
  <2>1. n \in Name /\ n \in Enabled(j.ent) /\ u = j.ent[n].url /\ v = j.since[u]
    BY <1>1, <1>2, <1>6 DEF Local, Job, Same
  <2>2. u \in Url
    <3>1. j.ent[n] \in Entry
      BY <1>1, <2>1, ListIs DEF Job, Enabled
    <3> QED
      BY <2>1, <3>1 DEF Entry
  <2>3. v \in Nat /\ v <= head[u]
    BY <1>1, <2>1, <2>2, NotIdle DEF Job, JobsInv
  <2>4. CASE n = j.n
    <3>1. u = j.url
      BY <1>1, <2>1, <2>4 DEF Local
    <3> QED
      BY <1>3, <1>6, <2>1, <2>4, <3>1 DEF Delivers, Serves
  <2>5. CASE n # j.n
    <3>1. n \in j.good
      BY <1>2, <1>6, <2>5
    <3>2. Serves(n, u, v)
      BY <1>2, <1>6, <2>1, <3>1 DEF Own, Good
    <3>3. n \in SameUrl(j.ent, u)
      BY <2>1 DEF SameUrl
    <3> QED
      BY <1>2, <1>3, <1>6, <2>1, <2>2, <2>3, <2>5, <3>2, <3>3 DEF Others
  <2> QED
    BY <2>4, <2>5
<1>7. Good(p)'
  BY <1>6 DEF Good
<1> QED
  BY <1>3, <1>5, <1>7 DEF Own

(* A registry that has no other on its URL is the only one. *)
LEMMA OnlyOne ==
  ASSUME NEW S, IsFiniteSet(S), NEW n \in S, ~(Cardinality(S) > 1)
  PROVE  S = {n}
<1>1. SUFFICES ASSUME NEW m \in S, m # n
               PROVE  FALSE
  OBVIOUS
<1>2. IsFiniteSet({n}) /\ Cardinality({n}) = 1
  BY FS_Singleton
<1>3. Cardinality({n} \cup {m}) = 2
  BY <1>1, <1>2, FS_AddElement
<1>4. {n} \cup {m} \subseteq S
  BY <1>1
<1>5. Cardinality({n} \cup {m}) <= Cardinality(S) /\ Cardinality(S) \in Nat
  BY <1>4, FS_Subset, FS_CardinalityType
<1> QED
  BY <1>3, <1>5

LEMMA PickOwn ==
  ASSUME TypeOK, JobsInv, NEW p \in Process, Own(p), _clone_or_pull(p)
  PROVE  Own(p)'
<1> DEFINE j == job[p]
           k == job'[p]
<1>1. j.pc = "next" /\ j \in Job /\ Local(j) /\ UNCHANGED <<file, dirs>>
  BY PickStep, Working DEF _clone_or_pull
<1>2. PICK n \in j.todo, r \in _load_registries(TRUE) : Goto(p, Picked(p, n, r.ent))
  BY PickStep
<1>3. r.ent = j.ent
  <2>1. Listed(p) /\ phase(j).op \notin {"cleanup", "restore"}
    BY <1>1 DEF Own, ReadsOn, Local
  <2> QED
    BY <1>2, <2>1, ReadIs DEF Listed
<1> DEFINE u == j.ent[n].url
           S == SameUrl(j.ent, u)
<1>4. n \in Enabled(j.ent) /\ j.ent \in Entries
  BY <1>1 DEF Local, Job
<1>5. n \in S /\ IsFiniteSet(S)
  <2>1. S \subseteq Name
    BY <1>4, ListIs DEF SameUrl, Enabled
  <2> QED
    BY <1>4, <2>1, RegistriesAssumption, FS_Subset DEF SameUrl
<1>6. k = Picked(p, n, j.ent)
  BY <1>2, <1>3 DEF Goto, TypeOK
<1> DEFINE x == Picked(p, n, j.ent)
           many == Cardinality(S) > 1
<1>7. /\ x.n = n /\ x.url = u /\ x.mode = (IF many THEN "shared" ELSE "single")
      /\ x.paths = (IF many THEN S ELSE {n})
      /\ x.pc = (IF ~many THEN "drop" ELSE IF shared[u] = Nothing THEN "clone" ELSE "fetch")
      /\ x.ent = j.ent /\ x.good = j.good /\ x.blind = j.blind /\ x.since = j.since
      /\ x.phases = j.phases
  BY <1>1, <1>4, PickedIs
<1>8. ~many => S = {n}
  BY <1>5, OnlyOne
<1> HIDE DEF x, many, S
<1>9. k = x
  BY <1>6 DEF x
<1>10. Mode(p)'
  BY <1>7, <1>8, <1>9 DEF Mode, S
<1>11. Stage(p)'
  BY <1>7, <1>9 DEF Stage
<1>12. Good(p)'
  <2>1. Good(p)
    BY DEF Own
  <2> QED
    BY <1>1, <1>7, <1>9, <2>1 DEF Good, Serves, Checkout, dirs
<1>13. ReadsOn(p)'
  <2>1. Listed(p)
    BY <1>1 DEF Own, ReadsOn
  <2>2. Listed(p)'
    BY <1>1, <1>7, <1>9, <2>1, ListedStays
  <2> QED
    BY <1>7, <1>9, <2>2 DEF ReadsOn
<1> QED
  BY <1>10, <1>11, <1>12, <1>13 DEF Own

LEMMA UpdateOwn ==
  ASSUME TypeOK, JobsInv, NEW p \in Process, Own(p), update(p)
  PROVE  Own(p)'
<1> DEFINE j == job[p]
           k == job'[p]
<1>1. j.pc = "act" /\ j \in Job /\ Local(j) /\ file' = file
  BY Working DEF update, At
<1>2. PICK T : Goto(p, [j EXCEPT !.pc = "next", !.todo = T])
  BY Zenon DEF update
<1>3. k = [j EXCEPT !.pc = "next", !.todo = T]
  BY <1>2 DEF Goto, TypeOK
<1>4. k.pc = "next" /\ k.good = j.good /\ k.ent = j.ent /\ k.phases = j.phases
  BY <1>1, <1>3 DEF Job
<1>5. k.good = {}
  BY <1>1, <1>4 DEF Local, Syncing
<1>6. Mode(p)' /\ Stage(p)' /\ Good(p)'
  BY <1>4, <1>5 DEF Mode, Stage, Good, Syncing
<1>7. Listed(p)'
  BY <1>1, <1>4, ListedStays DEF Own, ReadsOn
<1>8. ReadsOn(p)'
  BY <1>4, <1>7 DEF ReadsOn
<1> QED
  BY <1>6, <1>8 DEF Own


(* Reading the list, truncating it and writing it again. *)
LEMMA LoadReads ==
  ASSUME TypeOK, JobsInv, NEW p \in Process, Load(p)
  PROVE  ReadsOn(p)' /\ job'[p].pc \in {"persist", "act"}
<1> DEFINE j == job[p]
           k == job'[p]
           x(r) == [j EXCEPT !.ent = r.ent,
                      !.tried = (@ \/ file.is = "absent" \/ (file.is = "torn" /\ ~file.parses)),
                      !.pc = IF r.dirty THEN "persist" ELSE "act"]
           mutates == op(p) \in {"cleanup", "restore"}
<1>1. j \in Job /\ j.pc = "load" /\ file' = file
  BY Working DEF Load, At
<1>2. j.tried \in BOOLEAN
  BY <1>1 DEF Job
<1>3. PICK r \in IF mutates THEN _load_entries_for_mutation(j.tried) ELSE _load_registries(j.tried) :
        Goto(p, x(r))
  BY Zenon DEF Load
<1>4. k = x(r)
  BY <1>3 DEF Goto, TypeOK
<1>5. k.ent = r.ent /\ k.pc = (IF r.dirty THEN "persist" ELSE "act") /\ k.phases = j.phases
  BY <1>1, <1>4 DEF Job
<1>6. r.dirty => Settled(r.ent)
  BY <1>2, <1>3, ReadIs, ReadForMutationIs
<1>7. ASSUME ~r.dirty
      PROVE  Listed(p)'
  <2>1. mutates <=> phase(k).op \in {"cleanup", "restore"}
    BY <1>5 DEF op, phase
  <2>2. /\ file.is = "yaml" => \/ mutates /\ r.ent = file.ent
                               \/ r.ent = Migrated(file) /\ ~NeedsSaving(file)
        /\ file.is = "torn" /\ file.parses => r.ent = <<>>
        /\ file.is # "yaml" /\ ~(file.is = "torn" /\ file.parses) => r.ent = FALLBACK_DEFAULT_REGISTRIES
    BY <1>2, <1>3, <1>7, ReadIs, ReadForMutationIs
  <2> QED
    BY <1>1, <1>5, <2>1, <2>2 DEF Listed
<1>8. r.dirty \in BOOLEAN
  BY <1>2, <1>3, ReadIs, ReadForMutationIs
<1> QED
  BY <1>5, <1>6, <1>7, <1>8 DEF ReadsOn, Syncing

LEMMA TruncateReads ==
  ASSUME TypeOK, JobsInv, NEW p \in Process, ReadsOn(p), Truncate(p)
  PROVE  ReadsOn(p)' /\ job'[p].pc \in {"persisting", "saving"}
<1> DEFINE j == job[p]
           k == job'[p]
           c == IF j.pc = "persist" THEN "persisting" ELSE "saving"
<1>1. j \in Job
  BY Working DEF Truncate
<1>2. Goto(p, [j EXCEPT !.pc = c])
  BY Zenon DEF Truncate
<1>3. k = [j EXCEPT !.pc = c]
  BY <1>2 DEF Goto, TypeOK
<1>4. k.pc = c /\ k.ent = j.ent
  BY <1>1, <1>3 DEF Job
<1> QED
  BY <1>4 DEF ReadsOn, Syncing

LEMMA SaveReads ==
  ASSUME TypeOK, JobsInv, NEW p \in Process, ReadsOn(p), _save_registries(p)
  PROVE  ReadsOn(p)' /\ job'[p].pc \in {"act", "orphans", "load", "idle"}
<1> DEFINE j == job[p]
           k == job'[p]
           x == [j EXCEPT !.pc = "act"]
           y == [j EXCEPT !.pc = "orphans"]
<1>1. j \in Job /\ j.pc \in {"persisting", "saving"}
  BY Working DEF _save_registries
<1>2. /\ Goto(p, IF j.pc = "persisting" THEN x
                 ELSE IF phase(j).op = "cleanup" THEN y ELSE Advance(j))
      /\ file' = [is |-> "yaml", version |-> 1, ent |-> j.ent]
  BY Zenon DEF _save_registries, op, phase, CONFIG_VERSION
<1>3. k = IF j.pc = "persisting" THEN x ELSE IF phase(j).op = "cleanup" THEN y ELSE Advance(j)
  BY <1>2 DEF Goto, TypeOK
<1>4. /\ x.pc = "act" /\ x.ent = j.ent /\ y.pc = "orphans"
      /\ Advance(j).pc \in {"idle", "load"}
  BY <1>1, AdvanceIs DEF Job, Idle
<1> HIDE DEF x, y
<1>5. CASE j.pc = "persisting"
  <2>1. Settled(j.ent) /\ j.ent \in Entries
    BY <1>1, <1>5 DEF ReadsOn, Job
  <2>2. Yaml(file') /\ file'.version = 1 /\ file'.ent = j.ent /\ file'.is = "yaml"
    BY <1>2, <2>1 DEF Yaml
  <2>3. Migrated(file') = j.ent /\ ~NeedsSaving(file')
    BY <2>1, <2>2, MigratedStays
  <2>4. Listed(p)'
    BY <1>3, <1>4, <1>5, <2>2, <2>3 DEF Listed
  <2> QED
    BY <1>3, <1>4, <1>5, <2>4 DEF ReadsOn
<1>6. CASE j.pc # "persisting"
  BY <1>3, <1>4, <1>6 DEF ReadsOn, Syncing
<1> QED
  BY <1>5, <1>6

(* The phases that change entries end in a list to save, or at once. *)
LEMMA ActGoes ==
  ASSUME TypeOK, JobsInv, NEW p \in Process,
         \/ add_registry(p) \/ Edit(p) \/ restore_missing_defaults(p) \/ cleanup_deprecated(p)
         \/ RemoveOrphans(p) \/ UpdateEnds(p)
  PROVE  job'[p].pc \in {"save", "load", "idle"}
<1> DEFINE j == job[p]
<1>1. j \in Job
  BY Working DEF add_registry, Edit, restore_missing_defaults, cleanup_deprecated, RemoveOrphans,
                 UpdateEnds, At
<1>2. \A x : Goto(p, x) => job'[p] = x
  BY DEF Goto, TypeOK
<1>3. \A k \in Job : Advance(k).pc \in {"load", "idle"}
  BY AdvanceIs DEF Idle
<1> DEFINE saved(e) == [j EXCEPT !.pc = "save", !.ent = e]
<1>4. \A e : saved(e).pc = "save"
  BY <1>1 DEF Job
<1>5. CASE add_registry(p)
  <2> DEFINE n == phase(j).n
             e == [m \in DOMAIN j.ent \cup {n} |->
                     IF m # n THEN j.ent[m]
                     ELSE [url |-> phase(j).url, enabled |-> TRUE, trusted |-> FALSE]]
             y == [j EXCEPT !.skip = j.skip \cup {n}]
             x == saved(e)
  <2>1. Goto(p, IF n \in Reserved THEN Idle ELSE IF n \in DOMAIN j.ent THEN Advance(y) ELSE x)
    BY <1>5 DEF add_registry, phase
  <2>2. n \in Name
    BY <1>1, <1>5, PhaseIs DEF add_registry, phase, op
  <2>3. y \in Job
    BY <1>1, <2>2 DEF Job
  <2>4. x.pc = "save"
    BY <1>4
  <2> HIDE DEF x, y
  <2> QED
    BY <1>2, <1>3, <2>1, <2>3, <2>4 DEF Idle
<1>6. CASE Edit(p) \/ restore_missing_defaults(p) \/ cleanup_deprecated(p)
  <2>1. \/ Goto(p, Idle) \/ Goto(p, Advance(j))
        \/ \E e : Goto(p, saved(e))
    BY <1>6, Zenon DEF Edit, restore_missing_defaults, cleanup_deprecated
  <2> HIDE DEF saved
  <2> QED
    BY <1>1, <1>2, <1>3, <1>4, <2>1 DEF Idle
<1>7. CASE RemoveOrphans(p) \/ UpdateEnds(p)
  BY <1>1, <1>2, <1>3, <1>7 DEF RemoveOrphans, UpdateEnds
<1> QED
  BY <1>5, <1>6, <1>7

LEMMA ResetReads ==
  ASSUME TypeOK, JobsInv, NEW p \in Process, ReadsOn(p), UnlinkFile(p) \/ clear_cache(p)
  PROVE  ReadsOn(p)' /\ job'[p].pc \in {"clear", "save"}
<1> DEFINE j == job[p]
           k == job'[p]
<1>1. j \in Job
  BY Working DEF UnlinkFile, clear_cache, At
<1>2. \A x : Goto(p, x) => job'[p] = x
  BY DEF Goto, TypeOK
<1> DEFINE clearing(K) == [j EXCEPT !.pc = "clear", !.kids = K]
           left(K) == [j EXCEPT !.kids = K]
           saved(e) == [j EXCEPT !.pc = "save", !.ent = e]
<1>3. /\ \A K : clearing(K).pc = "clear"
      /\ \A K : left(K).pc = j.pc
      /\ \A e : saved(e).pc = "save"
  BY <1>1 DEF Job
<1>4. CASE UnlinkFile(p)
  <2>1. (\E K : Goto(p, clearing(K))) /\ file' = [is |-> "absent"]
    BY <1>4, Zenon DEF UnlinkFile
  <2> HIDE DEF clearing
  <2>2. k.pc = "clear" /\ file'.is = "absent"
    BY <1>2, <1>3, <2>1
  <2> QED
    BY <2>2 DEF ReadsOn, Syncing
<1>5. CASE clear_cache(p)
  <2>1. /\ (\E K : Goto(p, left(K))) \/ \E e : Goto(p, saved(e))
        /\ file' = file /\ j.pc = "clear"
    BY <1>5, Zenon DEF clear_cache, At
  <2> HIDE DEF left, saved
  <2>2. k.pc \in {"clear", "save"}
    BY <1>2, <1>3, <2>1
  <2> QED
    BY <2>1, <2>2 DEF ReadsOn, Syncing
<1> QED
  BY <1>4, <1>5

LEMMA StepOwn ==
  ASSUME TypeOK, JobsInv, JobsInv', OriginsOfShared, NEW p \in Process, Own(p),
         ConfigStep(p) \/ SyncStep(p) \/ Interrupt(p), job'[p] # Idle
  PROVE  Own(p)'
<1>1. Local(job'[p])
  BY DEF JobsInv, Sound
<1>2. ReadsOn(p)
  BY DEF Own
<1>3. CASE \/ Load(p) \/ Truncate(p) \/ _save_registries(p) \/ UnlinkFile(p) \/ clear_cache(p)
  <2>1. ReadsOn(p)' /\ job'[p].pc \notin Syncing \cup {"next"}
    BY <1>2, <1>3, LoadReads, TruncateReads, SaveReads, ResetReads DEF Syncing
  <2> QED
    BY <1>1, <2>1, NotSyncing
<1>4. CASE \/ add_registry(p) \/ Edit(p) \/ restore_missing_defaults(p) \/ cleanup_deprecated(p)
           \/ RemoveOrphans(p) \/ UpdateEnds(p)
  <2>1. job'[p].pc \in {"save", "load", "idle"}
    BY <1>4, ActGoes
  <2>2. ReadsOn(p)' /\ job'[p].pc \notin Syncing \cup {"next"}
    BY <2>1 DEF ReadsOn, Syncing
  <2> QED
    BY <1>1, <2>2, NotSyncing
<1>5. CASE SyncsOne(p)
  BY <1>5, SyncOwn
<1>6. CASE update(p) \/ _clone_or_pull(p)
  BY <1>6, UpdateOwn, PickOwn
<1>7. CASE Interrupt(p)
  <2>1. job'[p] = Idle
    BY <1>7 DEF Interrupt, Goto, TypeOK
  <2> QED
    BY <2>1
<1> QED
  BY <1>3, <1>4, <1>5, <1>6, <1>7 DEF ConfigStep, SyncStep, SyncsOne

LEMMA InductiveOwn ==
  /\ Init => OwnInv /\ OriginsOfShared
  /\ TypeOK /\ JobsInv /\ JobsInv' /\ OwnInv /\ OriginsOfShared /\ [Next]_vars
        => OwnInv' /\ OriginsOfShared'
<1>1. Init => OwnInv /\ OriginsOfShared
  BY RegistriesAssumption DEF Init, OwnInv, OriginsOfShared
<1>2. ASSUME TypeOK, JobsInv, JobsInv', OwnInv, OriginsOfShared, [Next]_vars
      PROVE  OwnInv' /\ OriginsOfShared'
  <2>1. CASE UNCHANGED <<file, dirs, job, alone>>
    <3>1. ASSUME NEW r \in Process, Own(r)
          PROVE  Own(r)'
      <4>1. ReadsOn(r)'
        BY <2>1, <3>1 DEF Own, ReadsOn, Listed
      <4>2. Mode(r)'
        BY <2>1, <3>1 DEF Own, Mode
      <4>3. Tree_of(r)' = Tree_of(r) /\ \A n \in Name : Checkout(n)' = Checkout(n)
        BY <2>1 DEF dirs, Tree_of, Checkout
      <4>4. Stage(r)'
        BY <2>1, <3>1, <4>3 DEF Own, Stage
      <4>5. Good(r)'
        BY <2>1, <3>1 DEF Own, Good, Serves, Checkout, dirs
      <4> QED
        BY <4>1, <4>2, <4>4, <4>5 DEF Own
    <3> QED
      BY <1>2, <2>1, <3>1 DEF OwnInv, OriginsOfShared, dirs
  <2>2. ASSUME NEW p \in Process, AnyCommand(p) \/ UpdateCommand(p)
        PROVE  OwnInv' /\ OriginsOfShared'
    <3>1. PICK c \in Seq(Phases) \ {<<>>} : Begin(p, c)
      BY <2>2, Commands
    <3>2. PICK x \in Job : Goto(p, x) /\ Local(x) /\ x.pc \in {"load", "unlink_file"}
      BY <1>2, <3>1, BeginIs
    <3>3. /\ UNCHANGED <<file, dirs>> /\ job[p] = Idle
          /\ alone' = [q \in Process |-> IF q = p THEN \A r \in Process \ {p} : job[r] = Idle
                                         ELSE alone[q] /\ job[q] = Idle]
      BY <3>1 DEF Begin
    <3>4. \A q \in Process : job'[q] = IF q = p THEN x ELSE job[q]
      BY <1>2, <3>2 DEF Goto, TypeOK
    <3>5. Own(p)'
      <4>1. ReadsOn(p)' /\ Local(job'[p]) /\ job'[p].pc \notin Syncing \cup {"next"}
        BY <3>2, <3>4 DEF ReadsOn, Syncing
      <4> QED
        BY <4>1, NotSyncing
    <3>6. ASSUME NEW r \in Process, job'[r] # Idle, alone'[r]
          PROVE  Own(r)' /\ \A q \in Process \ {r} : job'[q] = Idle
      BY <3>3, <3>4, <3>5, <3>6
    <3> QED
      BY <1>2, <3>3, <3>6 DEF OwnInv, OriginsOfShared, dirs
  <2>3. ASSUME NEW p \in Process, ConfigStep(p) \/ SyncStep(p) \/ Interrupt(p)
        PROVE  OwnInv' /\ OriginsOfShared'
    <3>1. OriginsOfShared'
      BY <1>2, <2>3, OriginsStay
    <3>2. job[p] # Idle /\ alone' = alone
      BY <2>3, Busy, StepRest
    <3>3. PICK x : Goto(p, x)
      BY <1>2, <2>3, StepMoves DEF Moves
    <3>4. \A q \in Process : q # p => job'[q] = job[q]
      BY <1>2, <3>3 DEF Goto, TypeOK
    <3>5. ASSUME NEW r \in Process, job'[r] # Idle, alone'[r]
          PROVE  Own(r)' /\ \A q \in Process \ {r} : job'[q] = Idle
      <4>1. r = p
        BY <1>2, <3>2, <3>4, <3>5 DEF OwnInv
      <4>2. Own(p) /\ \A q \in Process \ {p} : job[q] = Idle
        BY <1>2, <3>2, <3>5, <4>1 DEF OwnInv
      <4>3. Own(p)'
        BY <1>2, <2>3, <3>5, <4>1, <4>2, StepOwn
      <4> QED
        BY <3>4, <4>1, <4>2, <4>3
    <3> QED
      BY <3>1, <3>5 DEF OwnInv
  <2>4. CASE Publish \/ UNCHANGED vars
    BY <2>1, <2>4 DEF Publish, vars, history
  <2> QED
    BY <1>2, <2>2, <2>3, <2>4 DEF Next
<1> QED
  BY <1>1, <1>2

LEMMA Inductive == Spec => [](TypeOK /\ JobsInv /\ OwnInv /\ OriginsOfShared)
<1>1. Spec => [](TypeOK /\ JobsInv)
  BY InductiveTypes, PTL DEF Spec
<1>2. Spec => [](OwnInv /\ OriginsOfShared)
  BY <1>1, InductiveOwn, PTL DEF Spec
<1> QED
  BY <1>1, <1>2, PTL

(* A registry that update() reports as updated serves the assets of the    *)
(* repository its entry names, no older than when the command began, and   *)
(* goes on serving them while the registries after it are synced: whatever *)
(* checkouts, links and wrecks the command found.                          *)
THEOREM Updated == Spec => []UpdateServes
<1>1. OwnInv => UpdateServes
  BY DEF OwnInv, Own, Good, UpdateServes
<1> QED
  BY <1>1, Inductive, PTL


(* What a process at work finds in the list is what the file says. *)
LEMMA ListedSame ==
  ASSUME TypeOK, NEW p \in Process, Listed(p), file.is = "yaml", NEW n \in Enabled(file.ent),
         file.ent[n].url \notin Deprecated
  PROVE  n \in SameUrl(job[p].ent, file.ent[n].url)
<1>1. Yaml(file)
  BY DEF TypeOK, File, Yaml
<1>2. job[p].ent = file.ent \/ (job[p].ent = Migrated(file) /\ ~NeedsSaving(file))
  BY DEF Listed
<1>3. ~NeedsSaving(file) => n \in DOMAIN Migrated(file) /\ Migrated(file)[n] = file.ent[n]
  BY <1>1, MigratedSame DEF Enabled
<1> QED
  BY <1>2, <1>3 DEF SameUrl, Enabled

(* The clean-up of deprecated registries and a reset leave the others be. *)
LEMMA CleanupSpares ==
  ASSUME TypeOK, JobsInv, OriginsOfShared, NEW p \in Process, ReadsOn(p), file.is = "yaml",
         cleanup_deprecated(p) \/ RemoveOrphans(p) \/ clear_cache(p),
         NEW n \in Enabled(file.ent), NEW u, u = file.ent[n].url, u \notin Deprecated, Serves(n, u, 1)
  PROVE  Serves(n, u, 1)'
<1>1. n \in Name /\ u \in Url /\ Nothing \notin Url
  <2>1. file.ent \in Entries
    BY DEF TypeOK, File
  <2>2. n \in Name /\ file.ent[n] \in Entry
    BY <2>1, ListIs DEF Enabled
  <2> QED
    BY <2>2, RegistriesAssumption DEF Entry
<1>2. CASE UNCHANGED dirs
  BY <1>2 DEF dirs, Serves, Checkout
<1>3. CASE cleanup_deprecated(p) /\ ~UNCHANGED dirs
  <2> DEFINE old == {m \in DOMAIN job[p].ent : job[p].ent[m].url \in Deprecated}
  <2>1. /\ own' = [m \in Name |-> IF m \in old THEN Nothing ELSE own[m]]
        /\ link' = [m \in Name |-> IF m \in old /\ ~Dangling(m) THEN Nothing ELSE link[m]]
        /\ UNCHANGED shared /\ job[p].pc = "act"
    BY <1>3 DEF cleanup_deprecated, At
  <2>2. n \in SameUrl(job[p].ent, u)
    BY <2>1, ListedSame DEF ReadsOn
  <2>3. n \notin old
    BY <2>2 DEF SameUrl
  <2> HIDE DEF old
  <2>4. own'[n] = own[n] /\ link'[n] = link[n]
    BY <1>1, <2>1, <2>3
  <2> QED
    BY <2>1, <2>4 DEF Serves, Checkout
<1>4. CASE RemoveOrphans(p)
  <2>1. /\ shared' = [v \in Url |-> IF v \in Deprecated THEN Nothing ELSE shared[v]]
        /\ UNCHANGED <<own, link>>
    BY <1>4 DEF RemoveOrphans
  <2>2. CASE link[n] = Nothing
    BY <2>1, <2>2 DEF Serves, Checkout
  <2>3. CASE link[n] # Nothing
    <3>1. link[n] \in Url
      BY <1>1, <2>3 DEF TypeOK
    <3>2. link[n] = u
      BY <1>1, <2>3, <3>1 DEF Serves, Checkout, OriginsOfShared
    <3>3. shared'[link[n]] = shared[link[n]]
      BY <1>1, <2>1, <3>2
    <3> QED
      BY <2>1, <2>3, <3>3 DEF Serves, Checkout
  <2> QED
    BY <2>2, <2>3
<1>5. CASE clear_cache(p)
  <2>1. file.is = "absent"
    BY <1>5 DEF clear_cache, At, ReadsOn
  <2> QED
    BY <2>1
<1> QED
  BY <1>2, <1>3, <1>4, <1>5

(* No command takes away what an enabled registry serves, whatever is      *)
(* synced, added, removed, disabled or cleaned up beside it: a directory   *)
(* is gone only while it is replaced by a link, and when git does not tell *)
(* the origin of a checkout, its paths are set for another registry.       *)
THEOREM Siblings == Spec => SiblingsStay
<1> DEFINE Stays == \A p \in Process :
             job'[p] # job[p] /\ alone[p] /\ file.is = "yaml" /\ file' = file =>
                \A n \in Enabled(file.ent) :
                    LET u == file.ent[n].url IN
                    Serves(n, u, 1) /\ u \notin Deprecated =>
                        \/ Serves(n, u, 1)'
                        \/ At(p, "unlink") /\ job[p].n = n
                        \/ At(p, "set") /\ job[p].n \in job[p].blind
<1>1. ASSUME TypeOK, JobsInv, OwnInv, OriginsOfShared, [Next]_vars
      PROVE  [Stays]_vars
  <2> SUFFICES ASSUME NEW p \in Process, job'[p] # job[p], alone[p], file.is = "yaml", file' = file,
                      NEW n \in Enabled(file.ent), NEW u, u = file.ent[n].url, u \notin Deprecated,
                      Serves(n, u, 1)
               PROVE  \/ Serves(n, u, 1)'
                      \/ job[p].pc = "unlink" /\ job[p].n = n
                      \/ job[p].pc = "set" /\ job[p].n \in job[p].blind
    BY DEF At
  <2>1. CASE UNCHANGED dirs
    BY <2>1 DEF dirs, Serves, Checkout
  <2>2. ASSUME NEW q \in Process, AnyCommand(q) \/ UpdateCommand(q)
        PROVE  UNCHANGED dirs
    BY <2>2, Commands DEF Begin
  <2>3. ASSUME NEW q \in Process, ConfigStep(q) \/ SyncStep(q) \/ Interrupt(q)
        PROVE  q = p /\ Own(p) /\ job[p] # Idle
    <3>1. PICK x : Goto(q, x)
      BY <1>1, <2>3, StepMoves DEF Moves
    <3>2. q = p
      BY <1>1, <3>1 DEF Goto, TypeOK
    <3>3. job[p] # Idle
      BY <2>3, <3>2, Busy
    <3> QED
      BY <1>1, <3>2, <3>3 DEF OwnInv
  <2>4. n \in Name /\ u \in Url
    <3>1. file.ent \in Entries
      BY <1>1 DEF TypeOK, File
    <3>2. n \in Name /\ file.ent[n] \in Entry
      BY <3>1, ListIs DEF Enabled
    <3> QED
      BY <3>2 DEF Entry
  <2>5. CASE (cleanup_deprecated(p) \/ RemoveOrphans(p) \/ clear_cache(p)) /\ Own(p)
    BY <1>1, <2>5, CleanupSpares DEF Own
  <2>6. CASE SyncsOne(p) /\ Own(p)
    <3>1. Others(p)
      BY <1>1, <2>6, DropOwn, SparseSetOwn, FetchOwn, CloneOwn, UnlinkOwn, LinkOthers DEF Own, SyncsOne
    <3>2. Listed(p)
      BY <2>6, SyncGoes DEF Own, ReadsOn
    <3>3. n \in SameUrl(job[p].ent, u)
      BY <1>1, <3>2, ListedSame
    <3>4. 1 <= head[u]
      BY <1>1, <2>4 DEF TypeOK
    <3> QED
      BY <2>4, <3>1, <3>3, <3>4 DEF Others
  <2>7. CASE Interrupt(p) /\ ~UNCHANGED dirs
    <3>1. /\ job[p].pc = "unlink" /\ own' = [own EXCEPT ![job[p].n] = Wreck]
          /\ UNCHANGED <<link, shared>>
      BY <2>7 DEF Interrupt, At
    <3>2. n # job[p].n => Checkout(n)' = Checkout(n)
      BY <1>1, <2>4, <3>1 DEF TypeOK, Checkout
    <3> QED
      BY <3>1, <3>2 DEF Serves
  <2>8. ASSUME ConfigStep(p) \/ SyncStep(p) \/ Interrupt(p)
        PROVE  \/ UNCHANGED dirs \/ SyncsOne(p)
               \/ cleanup_deprecated(p) \/ RemoveOrphans(p) \/ clear_cache(p)
               \/ Interrupt(p) /\ ~UNCHANGED dirs
    BY <2>8 DEF ConfigStep, SyncStep, SyncsOne, Load, Truncate, _save_registries, add_registry, Edit,
                restore_missing_defaults, UnlinkFile, update, _clone_or_pull, UpdateEnds
  <2>9. CASE Publish \/ UNCHANGED vars
    BY <2>1, <2>9 DEF Publish, vars
  <2> QED
    BY <1>1, <2>1, <2>2, <2>3, <2>5, <2>6, <2>7, <2>8, <2>9 DEF Next
<1>2. Spec => [][Stays]_vars
  BY <1>1, Inductive, PTL DEF Spec
<1> QED
  BY <1>2, Zenon DEF SiblingsStay
====
