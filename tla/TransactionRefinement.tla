----------------------- MODULE TransactionRefinement -----------------------
(***************************************************************************)
(* TransactionEngine implements AtomicInstall: the journal, the crashes,   *)
(* the replays and the refusals are steps or stutters of the abstract      *)
(* publication.  The mapping reads the file system: where the preimage and *)
(* the planned content are, and which decision the journal makes durable.  *)
(* A content a user writes belongs to no abstract entry, so the mapping is *)
(* for behaviours without such edits.                                      *)
(***************************************************************************)
EXTENDS TransactionEngine

\* A discard that has recorded its sidecars can only remove the journal.
AbsDecision ==
  IF verdict = "commit" THEN "commit"
  ELSE IF \/ verdict = "abort" \/ journal.phase = "rolling_back"
          \/ journal.phase \in {"preparing", "prepared"} /\ Recorded
  THEN "abort" ELSE "open"

AbsOriginal ==
  [t \in Targets |->
    IF live[t] = "old" THEN "live"
    ELSE IF "old" \in {side[B(t)], tomb[B(t)]} THEN "aside" ELSE "absent"]

AbsReplacement ==
  [t \in Targets |->
    IF live[t] = "new" THEN "live"
    ELSE IF "new" \in {side[R(t)], tomb[R(t)]} THEN "withdrawn"
    ELSE IF "new" \in {side[S(t)], tomb[S(t)]} THEN "staged" ELSE "absent"]

Atomic ==
  INSTANCE AtomicInstall WITH
    present     <- {t \in Targets : Expected(t) # "absent"},
    wanted      <- {t \in Targets : Desired(t) # "absent"},
    decision    <- AbsDecision,
    original    <- AbsOriginal,
    replacement <- AbsReplacement

\* Every behaviour of the engine without user edits is a behaviour of the
\* atomic publication of its plan: nothing live moves before all is staged, the
\* commit decides for all targets at once, and an abandoned plan restores every
\* original before it deletes one replacement (_commit_journal, _rollback).
ImplementsAtomicInstall == Atomic!Spec
=============================================================================
