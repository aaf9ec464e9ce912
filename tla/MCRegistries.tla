---------------------------- MODULE MCRegistries ----------------------------
(***************************************************************************)
(* Registries with two repositories beside the shipped one: the manifest   *)
(* of ext declares two registries, that of odd one and a reserved name.    *)
(***************************************************************************)
EXTENDS Registries, TLC
CONSTANTS p, d, a, b, home, former, ext, odd, dead

MCManifest == ext :> <<a, b>> @@ odd :> <<b, d>>
MCShipped == d :> home
MCMoved == former :> home

E(u, enabled, trusted) == [url |-> u, enabled |-> enabled, trusted |-> trusted]
T(u, paths) == [origin |-> u, ver |-> 1, paths |-> paths]
None(S) == [x \in S |-> Nothing]

(* No file yet; a file from before the trust model with a moved and a      *)
(* deprecated registry; two registries that share a checkout; one that was *)
(* disabled after that, beside a moved one in a file brought back; and two *)
(* on a URL that has been deprecated since.                                *)
MCStart ==
    {[file |-> [is |-> "absent"], own |-> None(Name), link |-> None(Name), shared |-> None(Url)],
     [file |-> [is |-> "yaml", version |-> 0,
                ent |-> d :> E(former, TRUE, FALSE) @@ b :> E(dead, TRUE, FALSE)],
      own |-> [None(Name) EXCEPT ![d] = T(former, {d}), ![b] = T(dead, {b})],
      link |-> None(Name), shared |-> None(Url)],
     [file |-> [is |-> "yaml", version |-> 1,
                ent |-> d :> E(home, TRUE, TRUE) @@ a :> E(ext, TRUE, TRUE) @@ b :> E(ext, TRUE, FALSE)],
      own |-> [None(Name) EXCEPT ![d] = T(home, {d})],
      link |-> [None(Name) EXCEPT ![a] = ext, ![b] = ext],
      shared |-> [None(Url) EXCEPT ![ext] = T(ext, {a, b})]],
     [file |-> [is |-> "yaml", version |-> 1,
                ent |-> d :> E(former, TRUE, FALSE) @@ a :> E(ext, TRUE, FALSE) @@ b :> E(ext, FALSE, FALSE)],
      own |-> [None(Name) EXCEPT ![d] = T(former, {d})],
      link |-> [None(Name) EXCEPT ![a] = ext, ![b] = ext],
      shared |-> [None(Url) EXCEPT ![ext] = T(ext, {a, b})]],
     [file |-> [is |-> "yaml", version |-> 1,
                ent |-> a :> E(dead, FALSE, TRUE) @@ b :> E(dead, TRUE, TRUE)],
      own |-> [None(Name) EXCEPT ![a] = T(dead, {a})],
      link |-> [None(Name) EXCEPT ![b] = dead],
      shared |-> [None(Url) EXCEPT ![dead] = T(dead, {a, b})]]}
=============================================================================
