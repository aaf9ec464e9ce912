----------------------------- MODULE Registries -----------------------------
(***************************************************************************)
(* The recipe registries of a user (core/registry.py): the list in         *)
(* registries.yaml, which every command reads, migrates and rewrites as a  *)
(* whole, and the checkouts below the cache root, which are kept current   *)
(* with git.  A registry alone on its URL has a checkout of its own;       *)
(* several enabled ones share one, and their directories are links to it.  *)
(*                                                                         *)
(* A process runs one command, a sequence of phases.  Reading the list,    *)
(* truncating it, writing it, each git command and each change of a        *)
(* directory are steps of their own.  A checkout is its origin, the        *)
(* version it is at, and whose subpaths it covers (the subpath of an entry *)
(* is its name).  MaxFaults bounds the failed git commands and interrupts. *)
(***************************************************************************)
EXTENDS Naturals, FiniteSets, Sequences

CONSTANTS
    Process, Routine,   \* the processes; those that run "registry update" again and again
    Name, Url,
    Manifest,      \* the registries the manifest of some URLs declares
    Reserved,      \* names that only certain organisations may use
    Shipped,       \* URL of each registry of FALLBACK_DEFAULT_REGISTRIES
    Moved,         \* new URL of some URLs (MIGRATED_REGISTRY_URLS)
    Deprecated,    \* URLs that are superseded (DEPRECATED_REGISTRIES)
    Nothing,       \* no file, no directory, no link, no origin
    Start,         \* the files and directories a behaviour may begin with
    Active,        \* bound: the URLs whose repository changes
    MaxCommands, MaxFaults, MaxVersion   \* bounds: other commands, faults, versions

Entry == [url: Url, enabled: BOOLEAN, trusted: BOOLEAN]
Entries == UNION {[S -> Entry] : S \in SUBSET Name}
Tree == [origin: Url \cup {Nothing}, ver: 0 .. MaxVersion, paths: SUBSET Name]
File == {[is |-> "absent"]} \cup [is: {"torn"}, parses: BOOLEAN]
        \cup [is: {"yaml"}, version: 0 .. 1, ent: Entries]

ASSUME RegistriesAssumption ==
    /\ IsFiniteSet(Name)
    /\ DOMAIN Manifest \subseteq Url /\ \A u \in DOMAIN Manifest : Manifest[u] \in Seq(Name) \ {<<>>}
    /\ Reserved \subseteq Name /\ Routine \subseteq Process
    /\ DOMAIN Moved \subseteq Url /\ \A u \in DOMAIN Moved : Moved[u] \in Url \ DOMAIN Moved
    /\ Deprecated \subseteq Url /\ Active \subseteq Url
    /\ DOMAIN Shipped \subseteq Name
    /\ \A n \in DOMAIN Shipped : Shipped[n] \in Url \ (Deprecated \cup DOMAIN Moved)
    /\ Nothing \notin Url \cup Name \cup Tree
    /\ \A s \in Start :
        /\ s.file \in File
        /\ s.own \in [Name -> Tree \cup {Nothing}] /\ s.link \in [Name -> Url \cup {Nothing}]
        /\ \A n \in Name : s.own[n] = Nothing \/ s.link[n] = Nothing
        /\ s.shared \in [Url -> Tree \cup {Nothing}]
        /\ \A u \in Url : s.shared[u] # Nothing => s.shared[u].origin \in {u, Nothing}
    /\ MaxCommands \in Nat /\ MaxFaults \in Nat /\ MaxVersion \in Nat \ {0}

VARIABLES
    file,      \* registries.yaml
    own,       \* the checkout in the directory of a registry ...
    link,      \* ... or the URL of the shared checkout it links to
    shared,    \* the shared checkout of each URL
    head,      \* the version a fetch gets
    job,       \* what each process is doing
    alone,     \* history: no other process was at work since it began
    chosen,    \* history: the entries as the user last left them
    lossy,     \* history: the list was read torn, or rewritten by one
               \* process between the reading and the writing of another
    faults, commands

dirs == <<own, link, shared>>
history == <<alone, chosen, lossy>>
bounds == <<faults, commands>>
vars == <<file, dirs, head, job, history, bounds>>

Idle == [pc |-> "idle"]

-----------------------------------------------------------------------------
(* The commands, as sequences of phases. *)
Phase(what, n, u) == [op |-> what, n |-> n, url |-> u]
Each(what, u) == [i \in DOMAIN Manifest[u] |-> Phase(what, Manifest[u][i], u)]
Whole(what) == <<Phase(what, Nothing, Nothing)>>

registry_add(u, trust) ==
    Each("add", u) \o (IF trust THEN Each("trust", u) ELSE <<>>) \o Each("update", u)

registry_update == Whole("cleanup") \o Whole("restore") \o Whole("update")

Phases ==
    [op: {"add", "trust", "update"}, n: Name, url: Url]
    \cup [op: {"remove", "enable", "disable", "trust", "untrust", "update"}, n: Name, url: {Nothing}]
    \cup [op: {"cleanup", "restore", "reset", "update", "ensure"}, n: {Nothing}, url: {Nothing}]

Command ==
    {registry_add(u, t) : u \in DOMAIN Manifest, t \in BOOLEAN}
    \cup {<<Phase(what, n, Nothing)>> :
             what \in {"remove", "enable", "disable", "trust", "untrust", "update"}, n \in Name}
    \cup {Whole("reset") \o registry_update, Whole("ensure")}

-----------------------------------------------------------------------------
(* What the list says. *)
Default(n) == [url |-> Shipped[n], enabled |-> TRUE, trusted |-> TRUE]
FALLBACK_DEFAULT_REGISTRIES == [n \in DOMAIN Shipped |-> Default(n)]
_default_trusted_urls == {Shipped[n] : n \in DOMAIN Shipped}

(* _load_registries on a readable file: moved URLs are followed, which     *)
(* trusts what ships trusted, deprecated ones are dropped, and a file from *)
(* before the trust model gets its trust from the shipped list.            *)
Migrated(f) ==
    LET moved(n) == f.ent[n].url \in DOMAIN Moved
        url(n) == IF moved(n) THEN Moved[f.ent[n].url] ELSE f.ent[n].url
        ships(n) == url(n) \in _default_trusted_urls
    IN  [n \in {m \in DOMAIN f.ent : url(m) \notin Deprecated} |->
            [url |-> url(n), enabled |-> f.ent[n].enabled,
             trusted |-> IF f.version = 0 THEN ships(n)
                         ELSE f.ent[n].trusted \/ (moved(n) /\ ships(n))]]

NeedsSaving(f) == f.version = 0 \/ \E n \in DOMAIN f.ent : f.ent[n].url \in DOMAIN Moved

Read(ent, dirty) == [ent |-> ent, dirty |-> dirty]

(* The defaults, to be saved when their manifests could be fetched, which  *)
(* a process tries once.                                                   *)
_default_registries(tried) ==
    {Read(FALLBACK_DEFAULT_REGISTRIES, d) : d \in {FALSE} \cup {~tried}}

(* An empty or truncated file fails to parse or holds no registries.       *)
_load_registries(tried) ==
    CASE file.is = "yaml" -> {Read(Migrated(file), NeedsSaving(file))}
      [] file.is = "torn" /\ file.parses -> {Read(<<>>, FALSE)}
      [] OTHER -> _default_registries(tried)

(* The raw entries, unless there is a one-shot migration to apply. *)
_load_entries_for_mutation(tried) ==
    IF file.is = "yaml" /\ file.version = 1 THEN {Read(file.ent, FALSE)}
    ELSE _load_registries(tried)

Enabled(ent) == {n \in DOMAIN ent : ent[n].enabled}
SameUrl(ent, u) == {n \in Enabled(ent) : ent[n].url = u}

-----------------------------------------------------------------------------
(* What the directories hold.  A link may dangle. *)
Checkout(n) == IF link[n] # Nothing THEN shared[link[n]] ELSE own[n]
Dangling(n) == link[n] # Nothing /\ shared[link[n]] = Nothing

(* What is left when git or rmtree is killed: a repository without origin. *)
Wreck == [origin |-> Nothing, ver |-> 0, paths |-> {}]

(* The checkout that the job of p works on. *)
Tree_of(p) ==
    LET j == job[p] IN IF j.mode = "shared" THEN shared[j.url] ELSE Checkout(j.n)

Put(p, t) ==
    LET j == job[p] IN
    IF j.mode = "shared" \/ link[j.n] # Nothing
    THEN LET u == IF j.mode = "shared" THEN j.url ELSE link[j.n]
         IN  shared' = [shared EXCEPT ![u] = t] /\ UNCHANGED <<own, link>>
    ELSE own' = [own EXCEPT ![j.n] = t] /\ UNCHANGED <<link, shared>>

-----------------------------------------------------------------------------
(* ent is the list as read, todo the registries to sync, good those synced *)
(* well and blind those synced without all that git should tell or do; n,  *)
(* url, mode and paths are of the one that is being synced.                *)
Syncing == {"drop", "clone", "set", "fetch", "cover", "unlink", "link"}
Job ==
    [phases: Seq(Phases) \ {<<>>},
     pc: Syncing \cup {"load", "persist", "persisting", "act", "save", "saving", "orphans",
                       "unlink_file", "clear", "next"},
     ent: Entries, tried: BOOLEAN, skip: SUBSET Name,
     todo: SUBSET Name, good: SUBSET Name, blind: SUBSET Name,
     n: Name \cup {Nothing}, url: Url \cup {Nothing}, mode: {"single", "shared"},
     paths: SUBSET Name, since: [Url -> 1 .. MaxVersion], kids: SUBSET (Name \cup Url)]

(* Every variable stays in its domain, and a directory is a link or a      *)
(* checkout.                                                               *)
TypeOK ==
    /\ file \in File
    /\ own \in [Name -> Tree \cup {Nothing}]
    /\ link \in [Name -> Url \cup {Nothing}]
    /\ shared \in [Url -> Tree \cup {Nothing}]
    /\ \A n \in Name : own[n] = Nothing \/ link[n] = Nothing
    /\ head \in [Url -> 1 .. MaxVersion]
    /\ job \in [Process -> Job \cup {Idle}]
    /\ \A p \in Process : job[p] # Idle => job[p].todo \cup job[p].good \subseteq DOMAIN job[p].ent
    /\ alone \in [Process -> BOOLEAN]
    /\ chosen \in Entries
    /\ lossy \in BOOLEAN
    /\ faults \in 0 .. MaxFaults /\ commands \in 0 .. MaxCommands

Init ==
    /\ \E s \in Start : /\ file = s.file
                        /\ own = s.own /\ link = s.link /\ shared = s.shared
    /\ head = [u \in Url |-> 1]
    /\ job = [p \in Process |-> Idle]
    /\ alone = [p \in Process |-> TRUE]
    /\ chosen = <<>>
    /\ lossy = FALSE
    /\ faults = 0 /\ commands = 0

Goto(p, j) == job' = [job EXCEPT ![p] = j]
At(p, pc) == job[p].pc = pc
op(p) == Head(job[p].phases).op
Fault == faults < MaxFaults /\ faults' = faults + 1 /\ UNCHANGED commands

(* A phase has ended: the next one that is not about a name that add found *)
(* to be there reads the list again.                                       *)
Advance(j) ==
    LET rest == {i \in 2 .. Len(j.phases) : j.phases[i].n \notin j.skip}
        next == CHOOSE i \in rest : \A k \in rest : i <= k
    IN  IF rest = {} THEN Idle
        ELSE [j EXCEPT !.phases = SubSeq(@, next, Len(@)), !.pc = "load",
                       !.todo = {}, !.good = {}, !.blind = {}]

Begin(p, c) ==
    /\ job[p] = Idle
    /\ Goto(p, [phases |-> c, pc |-> IF Head(c).op = "reset" THEN "unlink_file" ELSE "load",
                ent |-> <<>>, tried |-> FALSE, skip |-> {}, todo |-> {}, good |-> {}, n |-> Nothing,
                url |-> Nothing, mode |-> "single", paths |-> {}, since |-> head, blind |-> {},
                kids |-> {}])
    /\ alone' = [q \in Process |-> IF q = p THEN \A r \in Process \ {p} : job[r] = Idle
                                   ELSE alone[q] /\ job[q] = Idle]
    /\ UNCHANGED <<file, dirs, head, chosen, lossy, faults>>

AnyCommand(p) ==
    /\ commands < MaxCommands /\ commands' = commands + 1
    /\ \E c \in Command : Begin(p, c)

UpdateCommand(p) == p \in Routine /\ Begin(p, registry_update) /\ UNCHANGED commands

-----------------------------------------------------------------------------
(* Reading the list; what a migration changed is saved at once. *)
Load(p) ==
    /\ At(p, "load")
    /\ \E r \in IF op(p) \in {"cleanup", "restore"} THEN _load_entries_for_mutation(job[p].tried)
                ELSE _load_registries(job[p].tried) :
        Goto(p, [job[p] EXCEPT !.ent = r.ent, !.tried = (@ \/ file.is = "absent" \/ (file.is = "torn" /\ ~file.parses)),
                               !.pc = IF r.dirty THEN "persist" ELSE "act"])
    /\ lossy' = (lossy \/ file.is = "torn")
    /\ UNCHANGED <<file, dirs, head, alone, chosen, bounds>>

(* The others that have read the list and may still write it. *)
Pending(p) == job[p].pc \in {"persist", "act", "save", "clear"}

Truncate(p) ==
    /\ job[p].pc \in {"persist", "save"}
    /\ \E parses \in BOOLEAN : file' = [is |-> "torn", parses |-> parses]
    /\ Goto(p, [job[p] EXCEPT !.pc = IF @ = "persist" THEN "persisting" ELSE "saving"])
    /\ lossy' = (lossy \/ \E q \in Process \ {p} : Pending(q))
    /\ UNCHANGED <<dirs, head, alone, chosen, bounds>>

ConfigVersion(ent) == 0   \* mutant: the revision is not stamped on the file

CONFIG_VERSION(ent) == 1

_save_registries(p) ==
    LET j == job[p]
        n == Head(j.phases).n
    IN
    /\ j.pc \in {"persisting", "saving"}
    /\ file' = [is |-> "yaml", version |-> CONFIG_VERSION(j.ent), ent |-> j.ent]
    /\ Goto(p, IF j.pc = "persisting" THEN [j EXCEPT !.pc = "act"]
               ELSE IF op(p) = "cleanup" THEN [j EXCEPT !.pc = "orphans"]
               ELSE Advance(j))
    /\ chosen' = IF j.pc = "persisting" \/ n = Nothing THEN chosen
                 ELSE [m \in (DOMAIN chosen \ {n}) \cup ({n} \cap DOMAIN j.ent) |->
                         IF m = n THEN j.ent[n] ELSE chosen[m]]
    /\ UNCHANGED <<dirs, head, alone, lossy, bounds>>

-----------------------------------------------------------------------------
(* The commands that change one entry.  A name that is there already is    *)
(* left out of the rest of an add; a reserved one ends it, and the         *)
(* registries added before it are neither trusted nor fetched.             *)
add_registry(p) ==
    LET j == job[p]
        n == Head(j.phases).n
    IN
    /\ At(p, "act") /\ op(p) = "add"
    /\ Goto(p, IF n \in Reserved THEN Idle
               ELSE IF n \in DOMAIN j.ent THEN Advance([j EXCEPT !.skip = @ \cup {n}])
               ELSE [j EXCEPT !.pc = "save",
                              !.ent = [m \in DOMAIN @ \cup {n} |->
                                         IF m # n THEN @[m]
                                         ELSE [url |-> Head(j.phases).url, enabled |-> TRUE,
                                               trusted |-> FALSE]]])
    /\ UNCHANGED <<file, dirs, head, history, bounds>>

Edited(e, what) ==
    CASE what = "enable" -> [e EXCEPT !.enabled = TRUE]
      [] what = "disable" -> [e EXCEPT !.enabled = FALSE]
      [] what = "trust" -> [e EXCEPT !.trusted = TRUE]
      [] what = "untrust" -> [e EXCEPT !.trusted = FALSE]

Edit(p) ==
    LET j == job[p]
        n == Head(j.phases).n
    IN
    /\ At(p, "act") /\ op(p) \in {"remove", "enable", "disable", "trust", "untrust"}
    /\ Goto(p, IF n \notin DOMAIN j.ent THEN Idle
               ELSE [j EXCEPT !.pc = "save",
                              !.ent = [m \in IF op(p) = "remove" THEN DOMAIN @ \ {n} ELSE DOMAIN @ |->
                                         IF m = n THEN Edited(@[m], op(p)) ELSE @[m]]])
    /\ UNCHANGED <<file, dirs, head, history, bounds>>

(* restore_missing_defaults. *)
RestoreAll(p) ==   \* mutant: the shipped entry replaces the user's
    LET j == job[p] IN
    /\ At(p, "act") /\ op(p) = "restore"
    /\ Goto(p, [j EXCEPT !.pc = "save",
                         !.ent = [m \in DOMAIN @ \cup DOMAIN Shipped |->
                                    IF m \in DOMAIN Shipped THEN Default(m) ELSE @[m]]])
    /\ UNCHANGED <<file, dirs, head, history, bounds>>

restore_missing_defaults(p) ==
    LET j == job[p] IN
    /\ At(p, "act") /\ op(p) = "restore"
    /\ Goto(p, IF DOMAIN Shipped \subseteq DOMAIN j.ent THEN Advance(j)
               ELSE [j EXCEPT !.pc = "save",
                              !.ent = [m \in DOMAIN @ \cup DOMAIN Shipped |->
                                         IF m \in DOMAIN @ THEN @[m] ELSE Default(m)]])
    /\ UNCHANGED <<file, dirs, head, history, bounds>>

(* cleanup_deprecated: first the directories, of which a dangling link     *)
(* does not exist, then the list, then the shared checkouts.               *)
cleanup_deprecated(p) ==
    LET j == job[p]
        old == {n \in DOMAIN j.ent : j.ent[n].url \in Deprecated}
    IN
    /\ At(p, "act") /\ op(p) = "cleanup"
    /\ IF old = {} THEN Goto(p, Advance(j)) /\ UNCHANGED dirs
       ELSE /\ Goto(p, [j EXCEPT !.pc = "save", !.ent = [n \in DOMAIN @ \ old |-> @[n]]])
            /\ own' = [n \in Name |-> IF n \in old THEN Nothing ELSE own[n]]
            /\ link' = [n \in Name |-> IF n \in old /\ ~Dangling(n) THEN Nothing ELSE link[n]]
            /\ UNCHANGED shared
    /\ UNCHANGED <<file, head, history, bounds>>

RemoveOrphans(p) ==
    /\ At(p, "orphans")
    /\ shared' = [u \in Url |-> IF u \in Deprecated THEN Nothing ELSE shared[u]]
    /\ Goto(p, Advance(job[p]))
    /\ UNCHANGED <<file, own, link, head, history, bounds>>

(* reset_to_defaults: the file, one directory after the other, the list.   *)
(* clear_cache goes through the directories that were there.               *)
UnlinkFile(p) ==
    /\ At(p, "unlink_file")
    /\ file' = [is |-> "absent"]
    /\ Goto(p, [job[p] EXCEPT !.pc = "clear",
                              !.kids = {n \in Name : own[n] # Nothing \/ link[n] # Nothing}
                                       \cup {u \in Url : shared[u] # Nothing}])
    /\ chosen' = <<>>
    /\ lossy' = (lossy \/ \E q \in Process \ {p} : Pending(q) \/ job[q].pc \in {"persisting", "saving"})
    /\ UNCHANGED <<dirs, head, alone, bounds>>

clear_cache(p) ==
    /\ At(p, "clear")
    /\ \/ \E x \in job[p].kids :
            /\ own' = [n \in Name |-> IF n = x THEN Nothing ELSE own[n]]
            /\ link' = [n \in Name |-> IF n = x THEN Nothing ELSE link[n]]
            /\ shared' = [u \in Url |-> IF u = x THEN Nothing ELSE shared[u]]
            /\ Goto(p, [job[p] EXCEPT !.kids = @ \ {x}])
       \/ /\ job[p].kids = {}
          /\ Goto(p, [job[p] EXCEPT !.pc = "save", !.ent = FALLBACK_DEFAULT_REGISTRIES])
          /\ UNCHANGED dirs
    /\ UNCHANGED <<file, head, history, bounds>>

-----------------------------------------------------------------------------
(* update: the registries to fetch; ensure_initialized fetches all when    *)
(* one has no checkout.                                                    *)
UpdateNamed(p) ==   \* mutant: the named registry is not looked up in the list
    LET j == job[p]
        n == Head(j.phases).n
        all == Enabled(j.ent)
    IN
    /\ At(p, "act") /\ op(p) \in {"update", "ensure"}
    /\ Goto(p, [j EXCEPT !.pc = "next", !.todo = IF n = Nothing THEN all ELSE {n}])
    /\ UNCHANGED <<file, dirs, head, history, bounds>>

update(p) ==
    LET j == job[p]
        n == Head(j.phases).n
        all == Enabled(j.ent)
        missing == \E m \in all : Checkout(m) = Nothing
    IN
    /\ At(p, "act") /\ op(p) \in {"update", "ensure"}
    /\ Goto(p, [j EXCEPT !.pc = "next",
                         !.todo = IF op(p) = "ensure" /\ ~missing THEN {}
                                  ELSE IF n = Nothing THEN all ELSE all \cap {n}])
    /\ UNCHANGED <<file, dirs, head, history, bounds>>

OwnPath(ent, u, n) == {n}   \* mutant: the union is not taken

_sparse_checkout_paths_for_url(ent, u, n) == SameUrl(ent, u)

(* _clone_or_pull reads the list again for the others on the same URL. *)
_clone_or_pull(p) ==
    LET j == job[p] IN
    /\ At(p, "next") /\ j.todo # {}
    /\ \E n \in j.todo, r \in _load_registries(TRUE) :
        LET u == j.ent[n].url
            many == Cardinality(SameUrl(r.ent, u)) > 1
        IN Goto(p, [j EXCEPT !.n = n, !.url = u,
                             !.mode = IF many THEN "shared" ELSE "single",
                             !.paths = IF many THEN _sparse_checkout_paths_for_url(r.ent, u, n) ELSE {n},
                             !.pc = IF ~many THEN "drop"
                                    ELSE IF shared[u] = Nothing THEN "clone" ELSE "fetch"])
    /\ lossy' = (lossy \/ file.is = "torn")
    /\ UNCHANGED <<file, dirs, head, alone, chosen, bounds>>

UpdateEnds(p) ==
    /\ At(p, "next") /\ job[p].todo = {}
    /\ Goto(p, Advance(job[p]))
    /\ UNCHANGED <<file, dirs, head, history, bounds>>

Synced(j, ok) ==
    [j EXCEPT !.pc = "next", !.todo = @ \ {j.n}, !.good = IF ok THEN @ \cup {j.n} ELSE @ \ {j.n}]

(* _drop_cache_if_url_changed, and which way _clone_or_pull_single goes:   *)
(* a checkout whose origin git does not tell is kept, and a directory      *)
(* cannot be made where a link dangles.                                    *)
NeverDrop(p) ==   \* mutant: the origin of the checkout is not looked at
    LET j == job[p] IN
    /\ At(p, "drop")
    /\ Goto(p, IF Dangling(j.n) THEN Synced(j, FALSE)
               ELSE [j EXCEPT !.pc = IF Checkout(j.n) = Nothing THEN "clone" ELSE "set"])
    /\ UNCHANGED <<file, dirs, head, history, bounds>>

_drop_cache_if_url_changed(p) ==
    LET j == job[p]
        t == Checkout(j.n)
        foreign == t # Nothing /\ t.origin \notin {j.url, Nothing}
    IN
    /\ At(p, "drop")
    /\ \/ /\ IF foreign
             THEN /\ link' = [link EXCEPT ![j.n] = Nothing]
                  /\ own' = [own EXCEPT ![j.n] = Nothing]
             ELSE UNCHANGED <<own, link>>
          /\ Goto(p, IF Dangling(j.n) THEN Synced(j, FALSE)
                     ELSE [j EXCEPT !.pc = IF t = Nothing \/ foreign THEN "clone" ELSE "set"])
          /\ UNCHANGED bounds
       \/ /\ foreign /\ Fault
          /\ Goto(p, [j EXCEPT !.pc = "set", !.blind = @ \cup {j.n}])
          /\ UNCHANGED <<own, link>>
    /\ UNCHANGED <<file, shared, head, history>>

(* sparse-checkout set fetches what the new paths need.  Its failure is    *)
(* ignored, except after a clone of a registry's own; its timeout is not.  *)
SparseSet(p) ==
    LET j == job[p]
        t == Tree_of(p)
        blind(ok) == IF ok THEN j.blind ELSE j.blind \cup {j.n}
        next(ok) == IF j.pc = "set" THEN [j EXCEPT !.pc = "fetch", !.blind = blind(ok)]
                    ELSE IF j.mode = "shared" THEN [j EXCEPT !.pc = "unlink", !.blind = blind(ok)]
                    ELSE Synced(j, ok)
    IN
    /\ j.pc \in {"set", "cover"}
    /\ \/ /\ t # Nothing
          /\ Put(p, [t EXCEPT !.paths = j.paths])
          /\ Goto(p, next(TRUE))
          /\ UNCHANGED bounds
       \/ /\ IF t # Nothing THEN Fault ELSE UNCHANGED bounds
          /\ Goto(p, next(FALSE)) \/ Goto(p, Synced(j, FALSE))
          /\ UNCHANGED dirs
    /\ UNCHANGED <<file, head, history>>

(* git fetch and git reset --hard FETCH_HEAD. *)
Fetch(p) ==
    LET j == job[p]
        t == Tree_of(p)
        works == t # Nothing /\ t.origin # Nothing
    IN
    /\ At(p, "fetch")
    /\ \/ /\ works
          /\ Put(p, [t EXCEPT !.ver = head[t.origin]])
          /\ Goto(p, IF j.mode = "shared" THEN [j EXCEPT !.pc = "cover"] ELSE Synced(j, TRUE))
          /\ UNCHANGED bounds
       \/ /\ IF works THEN Fault ELSE UNCHANGED bounds
          /\ Goto(p, Synced(j, FALSE))
          /\ UNCHANGED dirs
    /\ UNCHANGED <<file, head, history>>

(* git clone removes what it made when it fails, but not when the timeout  *)
(* kills it.                                                               *)
Clone(p) ==
    LET j == job[p]
        room == Tree_of(p) = Nothing /\ (j.mode = "single" => ~Dangling(j.n))
    IN
    /\ At(p, "clone")
    /\ \/ /\ room
          /\ Put(p, [origin |-> j.url, ver |-> head[j.url], paths |-> {}])
          /\ Goto(p, [j EXCEPT !.pc = "cover"])
          /\ UNCHANGED bounds
       \/ /\ IF room THEN Fault ELSE UNCHANGED bounds
          /\ Goto(p, Synced(j, FALSE))
          /\ \/ UNCHANGED dirs
             \/ \E o \in {j.url, Nothing} : room /\ Put(p, [Wreck EXCEPT !.origin = o])
    /\ UNCHANGED <<file, head, history>>

(* _link_registry_to_shared: what is there is removed, then linked; the    *)
(* error of a link that somebody else has made ends the command.           *)
Unlink(p) ==
    LET n == job[p].n IN
    /\ At(p, "unlink")
    /\ own' = [own EXCEPT ![n] = Nothing]
    /\ link' = [link EXCEPT ![n] = Nothing]
    /\ Goto(p, [job[p] EXCEPT !.pc = "link"])
    /\ UNCHANGED <<file, shared, head, history, bounds>>

Link(p) ==
    LET j == job[p] IN
    /\ At(p, "link")
    /\ IF own[j.n] = Nothing /\ link[j.n] = Nothing
       THEN link' = [link EXCEPT ![j.n] = j.url] /\ Goto(p, Synced(j, TRUE))
       ELSE UNCHANGED link /\ Goto(p, Idle)
    /\ UNCHANGED <<file, own, shared, head, history, bounds>>

(* A process is interrupted; rmtree may have removed part of a checkout.   *)
Interrupt(p) ==
    /\ job[p] # Idle
    /\ Fault
    /\ Goto(p, Idle)
    /\ \/ UNCHANGED dirs
       \/ /\ At(p, "unlink") /\ own[job[p].n] # Nothing
          /\ own' = [own EXCEPT ![job[p].n] = Wreck]
          /\ UNCHANGED <<link, shared>>
    /\ UNCHANGED <<file, head, history>>

Publish ==
    /\ \E u \in Active : head[u] < MaxVersion /\ head' = [head EXCEPT ![u] = @ + 1]
    /\ UNCHANGED <<file, dirs, job, history, bounds>>

ConfigStep(p) ==
    \/ Load(p) \/ Truncate(p) \/ _save_registries(p)
    \/ add_registry(p) \/ Edit(p) \/ restore_missing_defaults(p)
    \/ cleanup_deprecated(p) \/ RemoveOrphans(p)
    \/ UnlinkFile(p) \/ clear_cache(p)

SyncStep(p) ==
    \/ update(p) \/ _clone_or_pull(p) \/ UpdateEnds(p)
    \/ _drop_cache_if_url_changed(p) \/ SparseSet(p) \/ Fetch(p) \/ Clone(p)
    \/ Unlink(p) \/ Link(p)

Next ==
    \/ \E p \in Process : \/ AnyCommand(p) \/ UpdateCommand(p)
                          \/ ConfigStep(p) \/ SyncStep(p)
                          \/ Interrupt(p)
    \/ Publish

Spec == Init /\ [][Next]_vars

(* Commands run on, and "registry update" is run again and again. *)
FairSpec ==
    /\ Spec
    /\ \A p \in Process : WF_vars(ConfigStep(p)) /\ WF_vars(SyncStep(p))
    /\ \A p \in Routine : WF_vars(UpdateCommand(p))

-----------------------------------------------------------------------------
(* The assets of n are those its entry names, no older than v. *)
Serves(n, u, v) ==
    LET t == Checkout(n) IN t # Nothing /\ t.origin = u /\ t.ver >= v /\ n \in t.paths

(* A registry reported as updated serves the assets of its repository, as  *)
(* they were when the command began or newer, and goes on while the others *)
(* are synced: unless another process is at work, or git could not tell    *)
(* the origin or cover the subpaths, which update() does not report.       *)
UpdateServes ==
    \A p \in Process : job[p] # Idle /\ alone[p] /\ job[p].blind = {} =>
        \A n \in job[p].good :
            LET u == job[p].ent[n].url IN Serves(n, u, job[p].since[u])

(* No command takes away what an enabled registry serves, whatever is      *)
(* synced, added, removed, disabled or cleaned up beside it; its directory *)
(* is gone only while it is replaced by a link.  When git does not tell    *)
(* the origin, the paths are set through a link that is out of date.       *)
SiblingsStay ==
    [][\A p \in Process :
         job'[p] # job[p] /\ alone[p] /\ file.is = "yaml" /\ file' = file =>
            \A n \in Enabled(file.ent) :
                LET u == file.ent[n].url IN
                Serves(n, u, 1) /\ u \notin Deprecated =>
                    \/ Serves(n, u, 1)'
                    \/ At(p, "unlink") /\ job[p].n = n
                    \/ At(p, "set") /\ job[p].n \in job[p].blind]_vars

(* What the user last chose for a registry stays, through migrations,      *)
(* restored defaults, clean-ups, failed and interrupted commands: unless   *)
(* two commands rewrite the list at once or one is killed while it writes. *)
ChoicesStick ==
    ~lossy /\ file.is = "yaml" =>
        \A n \in DOMAIN chosen :
            chosen[n].url \in Deprecated \cup DOMAIN Moved
            \/ (n \in DOMAIN file.ent /\ file.ent[n] = chosen[n])

(* A checkout that no update can repair: its .git is not a repository, or  *)
(* a link to nothing is in the way.                                        *)
Stuck(n) ==
    \/ Dangling(n)
    \/ \E t \in {Checkout(n), shared[file.ent[n].url]} : t # Nothing /\ t.origin = Nothing

(* A registry that is updated again and again serves in the end what its   *)
(* repository holds, whatever failed, was killed or interrupted before.    *)
CatchesUp ==
    \A n \in Name :
        []<>(file.is = "yaml" /\ n \in Enabled(file.ent) =>
                Stuck(n) \/ Serves(n, file.ent[n].url, head[file.ent[n].url]))
=============================================================================
