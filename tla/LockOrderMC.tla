----------------------------- MODULE LockOrderMC -----------------------------
(* Two threads of one process and two of another share a home. *)
EXTENDS LockOrder, TLC

CONSTANTS t1, t2, t3, t4, p, q

\* The processes, and the threads of each, are interchangeable.
Interchangeable ==
  Permutations({t1, t2}) \union Permutations({t3, t4}) \union {
    t1 :> t3 @@ t3 :> t1 @@ t2 :> t4 @@ t4 :> t2 @@ p :> q @@ q :> p}

MCProcOf == t1 :> p @@ t2 :> p @@ t3 :> q @@ t4 :> q
=============================================================================
