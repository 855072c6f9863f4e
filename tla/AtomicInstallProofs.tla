------------------------ MODULE AtomicInstallProofs ------------------------
(***************************************************************************)
(* The promises of AtomicInstall, for any set of targets and any plan.     *)
(***************************************************************************)
EXTENDS AtomicInstall, TLAPS

\* Entries stay where the plan allows them: no entry appears from nowhere, and
\* while any replacement is missing nothing of the plan shows.
Placement ==
  /\ \A t \in Targets : t \notin wanted => replacement[t] = "absent"
  /\ \A t \in Targets : t \notin present => original[t] = "absent"
  /\ \A t \in Targets : ~(original[t] = "live" /\ replacement[t] = "live")
  /\ decision = "open" => \A t \in Targets : replacement[t] # "withdrawn"
  /\ decision # "commit" => \A t \in present : original[t] # "absent"
  /\ decision # "commit" /\ (\E u \in wanted : replacement[u] = "absent") =>
       \A t \in Targets : replacement[t] # "live" /\ original[t] # "aside"
  /\ decision = "commit" =>
       /\ \A t \in Targets : original[t] # "live"
       /\ \A t \in wanted : replacement[t] = "live"

IInv == TypeOK /\ Placement

LEMMA InitIInv == Init => IInv
  BY DEF Init, IInv, TypeOK, Placement

\* Every action keeps the placement, the decision last.
LEMMA NextIInv == IInv /\ [Next]_vars => IInv'
<1> SUFFICES ASSUME IInv, [Next]_vars PROVE IInv'
  OBVIOUS
<1> USE DEF IInv, TypeOK, Placement, plan
<1>1. CASE Commit
  BY <1>1 DEF Commit
<1>2. CASE Abort
  BY <1>2 DEF Abort
<1>3. ASSUME NEW t \in Targets, Stage(t) PROVE IInv'
  BY <1>3 DEF Stage
<1>4. ASSUME NEW t \in Targets, Displace(t) PROVE IInv'
  BY <1>4 DEF Displace
<1>5. ASSUME NEW t \in Targets, Place(t) PROVE IInv'
  BY <1>5 DEF Place
<1>6. ASSUME NEW t \in Targets, Withdraw(t) PROVE IInv'
  BY <1>6 DEF Withdraw
<1>7. ASSUME NEW t \in Targets, Restore(t) PROVE IInv'
  BY <1>7 DEF Restore
<1>8. ASSUME NEW t \in Targets, DisposeOriginal(t) PROVE IInv'
  BY <1>8 DEF DisposeOriginal
<1>9. ASSUME NEW t \in Targets, DisposeReplacement(t) PROVE IInv'
  BY <1>9 DEF DisposeReplacement
<1>10. CASE UNCHANGED vars
  BY <1>10 DEF vars
<1> QED
  BY <1>1, <1>2, <1>3, <1>4, <1>5, <1>6, <1>7, <1>8, <1>9, <1>10 DEF Next

LEMMA SpecIInv == Spec => []IInv
  BY InitIInv, NextIInv, PTL DEF Spec

\* The abstract publication never loses an original before the decision to
\* commit and never shows two entries at one live path.
THEOREM NothingLostTheorem == Spec => []NothingLost
<1>1. IInv => NothingLost
  BY DEF IInv, TypeOK, Placement, NothingLost
<1> QED
  BY <1>1, SpecIInv, PTL

\* What a committed publication shows is exactly what the plan wanted.
THEOREM CommitShowsAllTheorem == Spec => []CommitShowsAll
<1>1. IInv => CommitShowsAll
  BY DEF IInv, TypeOK, Placement, CommitShowsAll
<1> QED
  BY <1>1, SpecIInv, PTL

\* An abandoned publication shows every original before it deletes anything.
THEOREM AbortShowsNothingTheorem == Spec => []AbortShowsNothing
<1>1. IInv => AbortShowsNothing
  BY DEF IInv, TypeOK, Placement, AbortShowsNothing
<1> QED
  BY <1>1, SpecIInv, PTL
=============================================================================
