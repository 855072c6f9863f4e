-------------------------- MODULE AtomicInstallMC --------------------------
(* The abstract publication of three interchangeable targets. *)
EXTENDS AtomicInstall, TLC

Interchangeable == Permutations(Targets)
=============================================================================
