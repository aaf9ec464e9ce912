--------------------------- MODULE MCStateDirLock ---------------------------
(* Three benchmark runs on two machines that share the cache directory.    *)
EXTENDS StateDirLock, TLC
CONSTANTS r1, r2, r3, h1, h2

MCHostOf == r1 :> h1 @@ r2 :> h1 @@ r3 :> h2
=============================================================================
