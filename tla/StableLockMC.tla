----------------------------- MODULE StableLockMC -----------------------------
(* Three contenders and three breakers; the members of each are interchangeable. *)
EXTENDS StableLock, TLC

Interchangeable == Permutations(Procs) \union Permutations(Breakers)
=============================================================================
