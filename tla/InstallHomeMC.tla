--------------------------- MODULE InstallHomeMC ---------------------------
(* Two checkouts of one skill, one of them listed in config.json. *)
EXTENDS InstallHome

CONSTANTS p1, p2
TwoProjects   == {p1, p2}
OneConfigured == {p1}

\* Commits are alike: the first project's ref may as well resolve to c1.
CONSTANTS c1, c2
TwoCommits == {c1, c2}
\* A new home, or one with every runtime tree there can be.  Both checkouts are
\* at the same commit, or both refs resolve to c1 and the second checkout has not
\* been brought there.
HomeInit ==
  /\ Init /\ source[p1] = c1
  /\ \/ marker[p1] = marker[p2]
     \/ marker[p2] # c1 /\ source[p2] = c1
  /\ IF MarkersOf(Projects) = {} THEN runtime = {} /\ registry = Missing
                                 ELSE runtime = Commits
HomeSpec == HomeInit /\ [][Next]_vars /\ Fairness

=============================================================================
