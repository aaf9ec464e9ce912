---------------------------- MODULE MCBenchmark ----------------------------
(* Two benchmark runs on two machines that share the cache directory.      *)
EXTENDS Benchmark, TLC
CONSTANTS r1, r2, h1, h2

MCHostOf == r1 :> h1 @@ r2 :> h2

(* What the properties are about: the lock run explores what comes after   *)
(* the first disturbance.                                                  *)
Undisturbed == ~disturbed
=============================================================================
