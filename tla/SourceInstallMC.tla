-------------------------- MODULE SourceInstallMC --------------------------
(* Two projects that select skills of one repository, and one of them also *)
(* a skill of a local directory.                                           *)
EXTENDS SourceInstall

CONSTANTS p1, p2, g1, g2, local1, c1, c2
TwoProjects   == {p1, p2}
TwoGitAliases == {g1, g2}
TwoSkillfiles == {{g1, g2}, {g1, local1}}
TwoCommits    == {c1, c2}

\* Both are new checkouts, or one was installed before the branch moved to c1
\* and the other is a clone that brings a lock of the same time.
SourceInit ==
  /\ Init /\ upstream = c1
  /\ skillfile = [p \in Projects |-> IF p = p1 THEN {g1, g2} ELSE {g1, local1}]
  /\ \/ lock[p1] = NoLock /\ lock[p2] = NoLock
     \/ /\ lock[p1].members[g1] = c2 /\ installed[p1] = lock[p1]
        /\ lock[p2].members[g1] = c2 /\ installed[p2] = NoLock
SourceSpec == SourceInit /\ [][Next]_vars /\ Fairness
=============================================================================
