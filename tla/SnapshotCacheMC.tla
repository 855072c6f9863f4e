-------------------------- MODULE SnapshotCacheMC --------------------------
(* Two installs fetch a commit of two files; one of them may die.          *)
EXTENDS SnapshotCache

CONSTANTS p1, p2, f1, f2

FetchersMC == {p1, p2}
FilesMC == {f1, f2}
=============================================================================
