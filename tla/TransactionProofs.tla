------------------------- MODULE TransactionProofs -------------------------
(***************************************************************************)
(* Theorems about TransactionEngine for any number of targets, any plan,   *)
(* any set of hook-owned targets and any number of crashes, faults,        *)
(* boundary moves and edits.                                               *)
(***************************************************************************)
EXTENDS TransactionEngine, TLAPS

LEMMA FirstTarget == 1 \in Targets /\ N \in Targets
  BY NAssumption DEF Targets

LEMMA SidecarPaths ==
  \A t \in Targets : S(t) \in Sidecars /\ B(t) \in Sidecars /\ R(t) \in Sidecars
  BY DEF S, B, R, Sidecars, Roles

LEMMA NeighbourTarget ==
  \A t \in Targets : (t # N => t + 1 \in Targets) /\ (t # 1 => t - 1 \in Targets)
  BY NAssumption DEF Targets

LEMMA Names ==
  /\ {"absent", "old", "new", "partial", "foreign"} = Bytes
  /\ {"idle", "guard", "decide", "failing", "cleanup"} \subseteq Steps
  /\ PrepareSteps \subseteq Steps /\ CommitSteps \subseteq Steps
  /\ RewindSteps \subseteq Steps /\ RemoveSteps \subseteq Steps
  BY DEF Bytes, Steps

LEMMA Contained ==
  FilesType => /\ \A t \in Targets : live[t] \in Bytes
               /\ \A s \in Sidecars : side[s] \in Bytes
  BY DEF FilesType

\* What each kind of save makes of the journal.
LEMMA JournalTypes ==
  ASSUME journal \in Journals
  PROVE  /\ NoJournal \in Journals
         /\ \A p \in Phases : SavePhase(p) => journal' \in Journals
         /\ \A t \in Targets, x \in TargetStates :
              SaveState(t, x) => journal' \in Journals
         /\ \A t \in Targets, d \in Bytes :
              SaveBackup(t, d) => journal' \in Journals
         /\ \A s \in Sidecars, x \in CleanupStates :
              SaveCleanup(s, x) => journal' \in Journals
<1>1. NoJournal \in Journals
  BY DEF Journals, NoJournal, Phases, TargetStates, CleanupStates
<1>2. \A p \in Phases : SavePhase(p) => journal' \in Journals
  BY DEF Journals, SavePhase
<1>3. \A t \in Targets, x \in TargetStates :
        SaveState(t, x) => journal' \in Journals
  BY DEF Journals, SaveState
<1>4. ASSUME NEW t \in Targets, NEW d \in Bytes, SaveBackup(t, d)
      PROVE  journal' \in Journals
  <2>1. "backed_up" \in TargetStates
    BY DEF TargetStates
  <2>2. [journal.state EXCEPT ![t] = "backed_up"] \in [Targets -> TargetStates]
    BY <2>1 DEF Journals
  <2>3. [journal.backup EXCEPT ![t] = d] \in [Targets -> Bytes \union {"none"}]
    BY DEF Journals
  <2> QED
    BY <1>4, <2>2, <2>3 DEF Journals, SaveBackup
<1>5. \A s \in Sidecars, x \in CleanupStates :
        SaveCleanup(s, x) => journal' \in Journals
  BY DEF Journals, SaveCleanup
<1> QED
  BY <1>1, <1>2, <1>3, <1>4, <1>5

\* What a rename makes of the file system.
LEMMA FileTypes ==
  ASSUME FilesType
  PROVE  /\ \A t \in Targets, s \in Sidecars :
              /\ MoveOut(t, s) /\ UNCHANGED tomb => FilesType'
              /\ MoveIn(s, t) /\ UNCHANGED tomb => FilesType'
         /\ UNCHANGED <<live, side>> /\ UNCHANGED tomb => FilesType'
         /\ UNCHANGED files => FilesType'
  BY Names DEF FilesType, MoveOut, MoveIn, files

\* Where each way of ending a step leaves the program counter.
LEMMA ControlTypes ==
  ASSUME ControlType
  PROVE  /\ \A s \in Steps : Goto(s) => ControlType'
         /\ Retain => ControlType'
         /\ NextForward => ControlType'
         /\ NextBackward => ControlType'
         /\ NextStaging => ControlType'
         /\ UNCHANGED control => ControlType'
<1> USE FirstTarget, NeighbourTarget, Names DEF ControlType
<1>1. \A s \in Steps : Goto(s) => ControlType'
  BY DEF Goto
<1>2. Retain => ControlType'
  BY DEF Retain, Calls
<1>3. NextForward => ControlType'
  BY <1>1 DEF NextForward, CommitSteps
<1>4. NextBackward => ControlType'
  BY <1>1 DEF NextBackward, RewindSteps, RemoveSteps
<1>5. NextStaging => ControlType'
  BY <1>1 DEF NextStaging, PrepareSteps
<1>6. UNCHANGED control => ControlType'
  BY DEF control
<1> QED
  BY <1>1, <1>2, <1>3, <1>4, <1>5, <1>6

LEMMA InitTypeOK == Init => TypeOK
<1> SUFFICES ASSUME Init PROVE TypeOK
  OBVIOUS
<1>1. live \in [Targets -> Bytes] /\ seen \in Bytes
  BY DEF Init, Plans, Bytes
<1>2. side \in [Sidecars -> Bytes] /\ tomb \in [Sidecars -> Bytes]
  BY DEF Init, Bytes
<1>3. spent \in Budgets
  BY DEF Init, Budgets
<1>4. owed \in [Targets -> [UserBytes -> Int]]
  BY DEF Init
<1>5. call \in Calls /\ pc \in Steps
  BY DEF Init, Calls, Steps
<1>6. journal \in Journals
  BY DEF Init, Journals, NoJournal, Phases, TargetStates, CleanupStates
<1> QED
  BY <1>1, <1>2, <1>3, <1>4, <1>5, <1>6, FirstTarget DEF Init, TypeOK, FilesType, ControlType,
     HistoryType

\* Staging only fills staged sidecars.
LEMMA PrepareTypeOK == TypeOK /\ (PrepareStep \/ PrepareFails) => TypeOK'
<1> SUFFICES ASSUME TypeOK, PrepareStep \/ PrepareFails PROVE TypeOK'
  OBVIOUS
<1> USE FirstTarget, SidecarPaths, Names, JournalTypes, FileTypes, ControlTypes
        DEF TypeOK, HistoryType, env, history
<1>1. CASE Prepare
  BY <1>1, JournalTypes DEF Prepare, ControlType, Calls, PrepareSteps, Journals, NoJournal, Phases
<1>2. CASE StageTarget
  BY <1>2 DEF StageTarget, PrepareSteps, FilesType, control
<1>3. CASE SavePrepared
  BY <1>3 DEF SavePrepared, PrepareSteps, files, Phases
<1>4. CASE PrepareFails
  BY <1>4 DEF PrepareFails, RemoveSteps, Budgets
<1> QED
  BY <1>1, <1>2, <1>3, <1>4 DEF PrepareStep

\* The forward loop advances one target state at a time.
LEMMA ForwardTypeOK == TypeOK /\ (ForwardStep \/ CommitFails) => TypeOK'
<1> SUFFICES ASSUME TypeOK, ForwardStep \/ CommitFails PROVE TypeOK'
  OBVIOUS
<1> USE FirstTarget, SidecarPaths, Names, JournalTypes, FileTypes, ControlTypes
        DEF TypeOK, HistoryType, env, history
<1>1. CASE Commit
  BY <1>1 DEF Commit, ControlType, Calls
<1>2. CASE CommitGuard
  BY <1>2 DEF CommitGuard, ControlType, Calls, CommitSteps, Phases
<1>3. CASE AdoptBackup
  <2>1. FilesType'
    BY <1>3 DEF AdoptBackup
  <2>2. ControlType'
    BY <1>3 DEF AdoptBackup, CommitSteps
  <2>3. journal' \in Journals
    BY <1>3, Contained DEF AdoptBackup, ControlType
  <2> QED
    BY <1>3, <2>1, <2>2, <2>3 DEF AdoptBackup
<1>4. CASE ReadLive
  BY <1>4 DEF ReadLive, ControlType, Calls, FilesType, CommitSteps
<1>5. CASE VerifyPreimage
  BY <1>5 DEF VerifyPreimage, CommitSteps
<1>6. CASE DisplaceLive
  <2>1. FilesType'
    BY <1>6 DEF DisplaceLive, ControlType
  <2>2. ControlType'
    BY <1>6 DEF DisplaceLive, CommitSteps
  <2> QED
    BY <1>6, <2>1, <2>2 DEF DisplaceLive
<1>7. CASE SaveBackedUp
  BY <1>7 DEF SaveBackedUp, ControlType, CommitSteps, TargetStates
<1>8. CASE InspectBackedUp
  BY <1>8 DEF InspectBackedUp, CommitSteps
<1>9. CASE PlaceStaged
  <2>1. FilesType'
    BY <1>9 DEF PlaceStaged, ControlType
  <2>2. ControlType'
    BY <1>9 DEF PlaceStaged, CommitSteps
  <2> QED
    BY <1>9, <2>1, <2>2 DEF PlaceStaged
<1>10. CASE SaveCommitted
  <2>1. FilesType'
    BY <1>10 DEF SaveCommitted
  <2>2. ControlType'
    BY <1>10 DEF SaveCommitted, CommitSteps
  <2>3. journal' \in Journals
    BY <1>10 DEF SaveCommitted, ControlType, TargetStates
  <2> QED
    BY <1>10, <2>1, <2>2, <2>3 DEF SaveCommitted
<1>11. CASE CheckCommitted
  BY <1>11 DEF CheckCommitted
<1>12. CASE HookRefusesForward
  BY <1>12 DEF HookRefusesForward
<1>13. CASE Decide
  BY <1>13 DEF Decide, Phases
<1>14. CASE SaveRollingBack
  BY <1>14 DEF SaveRollingBack, ControlType, Calls, RewindSteps, Phases
<1>15. CASE CommitFails
  <2>1. journal' \in Journals
    BY <1>15 DEF CommitFails, ControlType, TargetStates
  <2>2. ControlType'
    BY <1>15 DEF CommitFails
  <2>3. FilesType'
    BY <1>15 DEF CommitFails, FilesType, files
  <2>4. spent' \in Budgets
    BY <1>15 DEF CommitFails, Budgets
  <2> QED
    BY <1>15, <2>1, <2>2, <2>3, <2>4 DEF CommitFails
<1> QED
  BY <1>1, <1>2, <1>3, <1>4, <1>5, <1>6, <1>7, <1>8, <1>9, <1>10, <1>11,
     <1>12, <1>13, <1>14, <1>15 DEF ForwardStep

\* The backward loop, and the calls that enter it.
LEMMA BackwardTypeOK ==
  TypeOK /\ (BackwardStep \/ Recover \/ Rollback) => TypeOK'
<1> SUFFICES ASSUME TypeOK, BackwardStep \/ Recover \/ Rollback PROVE TypeOK'
  OBVIOUS
<1> USE FirstTarget, SidecarPaths, Names, JournalTypes, FileTypes, ControlTypes
        DEF TypeOK, HistoryType, env, history
<1>1. CASE Recover
  BY <1>1 DEF Recover, ControlType, Calls, RewindSteps, RemoveSteps, Phases
<1>2. CASE Rollback
  BY <1>2 DEF Rollback, ControlType, Calls, RewindSteps, RemoveSteps, Phases
<1>3. CASE SkipTarget
  BY <1>3 DEF SkipTarget
<1>4. CASE RewindPending
  <2>1. FilesType'
    BY <1>4 DEF RewindPending
  <2>2. ControlType'
    BY <1>4 DEF RewindPending, RewindSteps
  <2>3. journal' \in Journals
    BY <1>4, Contained DEF RewindPending, ControlType
  <2> QED
    BY <1>4, <2>1, <2>2, <2>3 DEF RewindPending
<1>5. CASE RewindAdvanced
  <2>1. FilesType'
    BY <1>5 DEF RewindAdvanced
  <2>2. ControlType'
    BY <1>5 DEF RewindAdvanced, RewindSteps
  <2>3. journal' \in Journals
    BY <1>5 DEF RewindAdvanced, ControlType, TargetStates
  <2> QED
    BY <1>5, <2>1, <2>2, <2>3 DEF RewindAdvanced
<1>6. CASE UndoPlaced
  <2>1. FilesType'
    BY <1>6 DEF UndoPlaced, ControlType
  <2>2. ControlType'
    BY <1>6 DEF UndoPlaced, RewindSteps
  <2> QED
    BY <1>6, <2>1, <2>2 DEF UndoPlaced
<1>7. CASE RestoreBackup
  <2>1. FilesType'
    BY <1>7 DEF RestoreBackup, ControlType
  <2>2. ControlType'
    BY <1>7 DEF RestoreBackup, RewindSteps
  <2> QED
    BY <1>7, <2>1, <2>2 DEF RestoreBackup
<1>8. CASE SaveRolledBack
  <2>1. FilesType'
    BY <1>8 DEF SaveRolledBack
  <2>2. ControlType'
    BY <1>8 DEF SaveRolledBack, RewindSteps
  <2>3. journal' \in Journals
    BY <1>8 DEF SaveRolledBack, ControlType, TargetStates
  <2> QED
    BY <1>8, <2>1, <2>2, <2>3 DEF SaveRolledBack
<1> QED
  BY <1>1, <1>2, <1>3, <1>4, <1>5, <1>6, <1>7, <1>8 DEF BackwardStep

\* Discarding moves sidecars into tombs and deletes tombs.
LEMMA RemovalTypeOK == TypeOK /\ RemovalStep => TypeOK'
<1> SUFFICES ASSUME TypeOK, RemovalStep PROVE TypeOK'
  OBVIOUS
<1> USE FirstTarget, SidecarPaths, Names, JournalTypes, FileTypes, ControlTypes
        DEF TypeOK, HistoryType, env, history
<1>1. CASE VerifyCommitted
  BY <1>1 DEF VerifyCommitted, RemoveSteps
<1>2. CASE BeginRemoval
  BY <1>2 DEF BeginRemoval, RemoveSteps
<1>3. CASE RecordSidecars
  <2>1. FilesType'
    BY <1>3 DEF RecordSidecars
  <2>2. ControlType'
    BY <1>3 DEF RecordSidecars, RemoveSteps
  <2>3. journal' \in Journals
    <3>1. [s \in Sidecars |-> IF side[s] = "absent" THEN "removed" ELSE "pending"]
            \in [Sidecars -> CleanupStates]
      BY DEF CleanupStates
    <3>2. side \in [Sidecars -> Bytes \union {"none"}]
      BY DEF FilesType
    <3> HIDE FileTypes, ControlTypes, JournalTypes
    <3> QED
      BY <1>3, <3>1, <3>2 DEF RecordSidecars, Journals
  <2> QED
    BY <1>3, <2>1, <2>2, <2>3 DEF RecordSidecars
<1>4. ASSUME NEW s \in Sidecars,
             TombSidecar(s) \/ SaveTombed(s) \/ RemoveTomb(s) \/ SaveRemoved(s)
      PROVE  TypeOK'
  <2>1. CASE TombSidecar(s)
    BY <2>1 DEF TombSidecar, FilesType
  <2>2. CASE SaveTombed(s)
    BY <2>2 DEF SaveTombed, CleanupStates
  <2>3. CASE RemoveTomb(s)
    BY <2>3 DEF RemoveTomb, FilesType
  <2>4. CASE SaveRemoved(s)
    BY <2>4 DEF SaveRemoved, CleanupStates
  <2> QED
    BY <1>4, <2>1, <2>2, <2>3, <2>4
<1>5. CASE TombJournal
  BY <1>5 DEF TombJournal, RemoveSteps
<1>6. CASE UnlinkJournal
  BY <1>6, JournalTypes DEF UnlinkJournal
<1> QED
  BY <1>1, <1>2, <1>3, <1>4, <1>5, <1>6 DEF RemovalStep

LEMMA EnvironmentTypeOK ==
  TypeOK /\ (Crash \/ StepFails \/ MoveBoundary \/ RestoreBoundary
             \/ \E t \in Targets, c \in Contents : Edit(t, c)) => TypeOK'
<1> SUFFICES ASSUME TypeOK,
                    Crash \/ StepFails \/ MoveBoundary \/ RestoreBoundary
                    \/ \E t \in Targets, c \in Contents : Edit(t, c)
             PROVE TypeOK'
  OBVIOUS
<1> USE FirstTarget, SidecarPaths, Names, JournalTypes, FileTypes, ControlTypes
        DEF TypeOK, HistoryType, env, history
<1>1. CASE Crash
  BY <1>1 DEF Crash, Budgets
<1>2. CASE StepFails
  <2>1. spent' \in Budgets
    BY <1>2 DEF StepFails, Budgets
  <2>2. ControlType'
    BY <1>2 DEF StepFails, control
  <2> QED
    BY <1>2, <2>1, <2>2 DEF StepFails
<1>3. CASE MoveBoundary
  <2>1. spent' \in Budgets
    BY <1>3 DEF MoveBoundary, Budgets
  <2>2. ControlType'
    BY <1>3 DEF MoveBoundary, control
  <2> QED
    BY <1>3, <2>1, <2>2 DEF MoveBoundary
<1>4. CASE RestoreBoundary
  BY <1>4 DEF RestoreBoundary
<1>5. ASSUME NEW t \in Targets, NEW c \in Contents, Edit(t, c) PROVE TypeOK'
  <2>1. c \in Bytes
    BY ContentsAssumption
  <2>2. owed' \in [Targets -> [UserBytes -> Int]]
    <3>1. owed' = [owed EXCEPT ![t] = [b \in UserBytes |->
            owed[t][b] + (IF c = b THEN 1 ELSE 0)
                       - (IF live[t] = b THEN 1 ELSE 0)]]
      BY <1>5 DEF Edit
    <3>2. [b \in UserBytes |-> owed[t][b] + (IF c = b THEN 1 ELSE 0)
                                - (IF live[t] = b THEN 1 ELSE 0)]
            \in [UserBytes -> Int]
      OBVIOUS
    <3> QED
      BY <3>1, <3>2
  <2>3. spent' \in Budgets
    <3>1. spent.edit + 1 \in Nat /\ spent.touched \union {t} \in SUBSET Targets
      BY DEF Budgets
    <3> QED
      BY <1>5, <3>1 DEF Edit, Budgets
  <2>4. FilesType' /\ ControlType'
    BY <1>5, <2>1 DEF Edit, FilesType
  <2> QED
    BY <1>5, <2>2, <2>3, <2>4 DEF Edit, FilesType
<1> QED
  BY <1>1, <1>2, <1>3, <1>4, <1>5

LEMMA NextTypeOK == TypeOK /\ [Next]_vars => TypeOK'
<1>1. TypeOK /\ UNCHANGED vars => TypeOK'
  BY DEF TypeOK, FilesType, ControlType, HistoryType, vars
<1> QED
  BY <1>1, PrepareTypeOK, ForwardTypeOK, BackwardTypeOK, RemovalTypeOK,
     EnvironmentTypeOK DEF Next, EngineStep, EnvironmentStep, Finished

\* The engine keeps every variable, the journal first, inside its schema: what a
\* crash leaves on disk is always a journal _validate_journal can read.
THEOREM TypeOKTheorem == Spec => []TypeOK
  BY InitTypeOK, NextTypeOK, PTL DEF Spec

-----------------------------------------------------------------------------
(* The decision of a transaction is final and only its owner commits.       *)

\* Which phase each kind of save leaves.
LEMMA SavedPhase ==
  ASSUME journal \in Journals
  PROVE  /\ \A p \in Phases : SavePhase(p) => journal'.phase = p
         /\ \A t \in Targets, x \in TargetStates :
              SaveState(t, x) => journal'.phase = journal.phase
         /\ \A t \in Targets, d \in Bytes :
              SaveBackup(t, d) => journal'.phase = journal.phase
         /\ \A s \in Sidecars, x \in CleanupStates :
              SaveCleanup(s, x) => journal'.phase = journal.phase
         /\ NoJournal.phase = "none"
         /\ journal.phase \in Phases
  BY DEF Journals, SavePhase, SaveState, SaveBackup, SaveCleanup, NoJournal

Inv == TypeOK /\ PhaseAgrees

LEMMA InitInv == Init => Inv
  BY InitTypeOK, SavedPhase
  DEF Init, Inv, PhaseAgrees, NoJournal, PrepareSteps, CommitSteps, RewindSteps,
      RemoveSteps, ForwardSteps

\* prepare starts from no journal and ends in "prepared".
LEMMA PreparePhase ==
  Inv /\ (PrepareStep \/ PrepareFails) => PhaseAgrees'
<1> SUFFICES ASSUME Inv, PrepareStep \/ PrepareFails PROVE PhaseAgrees'
  OBVIOUS
<1> USE SavedPhase, Names
        DEF Inv, TypeOK, ControlType, PhaseAgrees, history, Goto, Retain,
            PrepareSteps, CommitSteps, RewindSteps, RemoveSteps, ForwardSteps,
            Phases
<1>1. CASE Prepare
  BY <1>1 DEF Prepare, NoJournal
<1>2. CASE StageTarget
  BY <1>2 DEF StageTarget, NextStaging, control
<1>3. CASE SavePrepared
  BY <1>3 DEF SavePrepared
<1>4. CASE PrepareFails
  BY <1>4 DEF PrepareFails
<1> QED
  BY <1>1, <1>2, <1>3, <1>4 DEF PrepareStep

\* The forward routine stays in "committing" until it decides or fails.
LEMMA ForwardPhase ==
  Inv /\ (ForwardStep \/ CommitFails) => PhaseAgrees'
<1> SUFFICES ASSUME Inv, ForwardStep \/ CommitFails PROVE PhaseAgrees'
  OBVIOUS
<1> USE SavedPhase, Names
        DEF Inv, TypeOK, ControlType, PhaseAgrees, history, Goto, Retain,
            PrepareSteps, CommitSteps, RewindSteps, RemoveSteps, ForwardSteps
<1>1. CASE Commit
  BY <1>1 DEF Commit
<1>2. CASE CommitGuard
  BY <1>2 DEF CommitGuard, Phases
<1>3. CASE AdoptBackup
  BY <1>3, Contained, SidecarPaths DEF AdoptBackup, control
<1>4. CASE ReadLive
  BY <1>4 DEF ReadLive
<1>5. CASE VerifyPreimage
  BY <1>5 DEF VerifyPreimage
<1>6. CASE DisplaceLive
  BY <1>6 DEF DisplaceLive
<1>7. CASE SaveBackedUp
  BY <1>7 DEF SaveBackedUp
<1>8. CASE InspectBackedUp
  BY <1>8 DEF InspectBackedUp
<1>9. CASE PlaceStaged
  BY <1>9 DEF PlaceStaged
<1>10. CASE SaveCommitted
  BY <1>10 DEF SaveCommitted, NextForward, TargetStates
<1>11. CASE CheckCommitted
  BY <1>11 DEF CheckCommitted, NextForward
<1>12. CASE HookRefusesForward
  BY <1>12 DEF HookRefusesForward
<1>13. CASE Decide
  BY <1>13 DEF Decide, Phases
<1>14. CASE SaveRollingBack
  BY <1>14 DEF SaveRollingBack, Phases
<1>15. CASE CommitFails
  <2>1. journal'.phase = journal.phase
    BY <1>15 DEF CommitFails, TargetStates
  <2> QED
    BY <1>15, <2>1 DEF CommitFails, CommitSteps
<1> QED
  BY <1>1, <1>2, <1>3, <1>4, <1>5, <1>6, <1>7, <1>8, <1>9, <1>10, <1>11,
     <1>12, <1>13, <1>14, <1>15 DEF ForwardStep

\* recover and rollback pick the routine of the durable phase.
LEMMA BackwardPhase ==
  Inv /\ (BackwardStep \/ Recover \/ Rollback) => PhaseAgrees'
<1> SUFFICES ASSUME Inv, BackwardStep \/ Recover \/ Rollback PROVE PhaseAgrees'
  OBVIOUS
<1> USE SavedPhase, Names
        DEF Inv, TypeOK, ControlType, PhaseAgrees, history, Goto, Retain,
            PrepareSteps, CommitSteps, RewindSteps, RemoveSteps, ForwardSteps
<1>1. CASE Recover
  BY <1>1 DEF Recover, Phases
<1>2. CASE Rollback
  BY <1>2 DEF Rollback, Phases
<1>3. CASE SkipTarget
  BY <1>3 DEF SkipTarget, NextBackward
<1>4. CASE RewindPending
  BY <1>4, Contained, SidecarPaths DEF RewindPending
<1>5. CASE RewindAdvanced
  BY <1>5 DEF RewindAdvanced, NextBackward, TargetStates
<1>6. CASE UndoPlaced
  BY <1>6 DEF UndoPlaced
<1>7. CASE RestoreBackup
  BY <1>7 DEF RestoreBackup
<1>8. CASE SaveRolledBack
  BY <1>8 DEF SaveRolledBack, NextBackward, TargetStates
<1> QED
  BY <1>1, <1>2, <1>3, <1>4, <1>5, <1>6, <1>7, <1>8 DEF BackwardStep

\* Removal keeps the phase until the journal itself goes.
LEMMA RemovalPhase == Inv /\ RemovalStep => PhaseAgrees'
<1> SUFFICES ASSUME Inv, RemovalStep PROVE PhaseAgrees'
  OBVIOUS
<1> USE SavedPhase, Names
        DEF Inv, TypeOK, ControlType, PhaseAgrees, history, control, Goto, Retain,
            PrepareSteps, CommitSteps, RewindSteps, RemoveSteps, ForwardSteps
<1>1. CASE VerifyCommitted
  BY <1>1 DEF VerifyCommitted
<1>2. CASE BeginRemoval
  BY <1>2 DEF BeginRemoval
<1>3. CASE RecordSidecars
  <2>1. journal'.phase = journal.phase
    BY <1>3 DEF RecordSidecars, Journals
  <2> QED
    BY <1>3, <2>1 DEF RecordSidecars
<1>4. ASSUME NEW s \in Sidecars,
             TombSidecar(s) \/ SaveTombed(s) \/ RemoveTomb(s) \/ SaveRemoved(s)
      PROVE  PhaseAgrees'
  <2>1. journal'.phase = journal.phase
    BY <1>4 DEF TombSidecar, SaveTombed, RemoveTomb, SaveRemoved, CleanupStates
  <2>2. UNCHANGED <<plan, record, call, pc, verdict>>
    BY <1>4 DEF TombSidecar, SaveTombed, RemoveTomb, SaveRemoved
  <2> QED
    BY <2>1, <2>2
<1>5. CASE TombJournal
  BY <1>5 DEF TombJournal
<1>6. CASE UnlinkJournal
  BY <1>6 DEF UnlinkJournal
<1> QED
  BY <1>1, <1>2, <1>3, <1>4, <1>5, <1>6 DEF RemovalStep

\* A crash or a retained failure leaves no routine running; an edit or a
\* boundary move leaves the journal alone.
LEMMA EnvironmentPhase ==
  ASSUME Inv,
         \/ Crash \/ StepFails \/ MoveBoundary \/ RestoreBoundary
         \/ \E t \in Targets, c \in Contents : Edit(t, c)
  PROVE  PhaseAgrees'
<1> USE DEF Inv, PhaseAgrees, history, control, Retain,
            PrepareSteps, CommitSteps, RewindSteps, RemoveSteps, ForwardSteps
<1>1. CASE Crash
  BY <1>1 DEF Crash
<1>2. CASE StepFails
  BY <1>2 DEF StepFails
<1>3. CASE MoveBoundary \/ RestoreBoundary
  BY <1>3 DEF MoveBoundary, RestoreBoundary
<1>4. ASSUME NEW t \in Targets, NEW c \in Contents, Edit(t, c)
      PROVE  PhaseAgrees'
  BY <1>4 DEF Edit
<1> QED
  BY <1>1, <1>2, <1>3, <1>4

LEMMA NextInv == Inv /\ [Next]_vars => Inv'
<1>1. Inv /\ UNCHANGED vars => PhaseAgrees'
  BY DEF Inv, PhaseAgrees, vars
<1> QED
  BY <1>1, NextTypeOK, PreparePhase, ForwardPhase, BackwardPhase, RemovalPhase,
     EnvironmentPhase DEF Inv, Next, EngineStep, EnvironmentStep, Finished

LEMMA SpecInv == Spec => []Inv
  BY InitInv, NextInv, PTL DEF Spec

\* Every routine of the engine runs in the phase it was written for: no commit
\* step runs on a journal that is being rolled back or cleaned up, and none but
\* commit or an ordinary recover goes forward.
THEOREM PhaseAgreesTheorem == Spec => []PhaseAgrees
<1>1. Inv => PhaseAgrees
  BY DEF Inv
<1> QED
  BY <1>1, SpecInv, PTL

LEMMA BackwardKeeps == Inv /\ BackwardStep => journal'.phase = journal.phase
<1> SUFFICES ASSUME Inv, BackwardStep PROVE journal'.phase = journal.phase
  OBVIOUS
<1>1. cur \in Targets /\ FilesType
  BY DEF Inv, TypeOK, ControlType
<1>2. "rolled_back" \in TargetStates
  BY DEF TargetStates
<1> QED
  BY <1>1, <1>2, SavedPhase, Contained, SidecarPaths
  DEF Inv, TypeOK, BackwardStep, SkipTarget, RewindPending, RewindAdvanced,
      UndoPlaced, RestoreBackup, SaveRolledBack

LEMMA RemovalKeeps ==
  Inv /\ RemovalStep => journal'.phase = journal.phase \/ journal'.phase = "none"
<1> SUFFICES ASSUME Inv, RemovalStep
             PROVE  journal'.phase = journal.phase \/ journal'.phase = "none"
  OBVIOUS
<1>1. CASE RecordSidecars
  BY <1>1 DEF RecordSidecars, Inv, TypeOK, Journals
<1>2. CASE ~RecordSidecars
  <2>1. "tombed" \in CleanupStates /\ "removed" \in CleanupStates
    BY DEF CleanupStates
  <2> QED
    BY <1>2, <2>1, SavedPhase
    DEF Inv, TypeOK, RemovalStep, VerifyCommitted, BeginRemoval, TombSidecar,
        SaveTombed, RemoveTomb, SaveRemoved, TombJournal, UnlinkJournal, files
<1> QED
  BY <1>1, <1>2

\* For any number of targets, crashes and edits: a durable decision is never
\* reversed, and after the commit point only a user changes a live path.
THEOREM DecisionTheorem == Spec => DecisionIsFinal
<1> DEFINE Final ==
      /\ journal.phase = "cleanup" => journal'.phase \in {"cleanup", "none"}
      /\ journal.phase = "rolling_back" => journal'.phase \in {"rolling_back", "none"}
      /\ verdict = "commit" /\ live' # live => spent' # spent
<1>1. Inv /\ [Next]_vars => [Final]_vars
  <2> SUFFICES ASSUME Inv, Next PROVE Final
    BY DEF vars
  <2> USE SavedPhase, Names
          DEF Inv, TypeOK, PhaseAgrees, history, files, PrepareSteps, CommitSteps,
              RewindSteps, RemoveSteps, ForwardSteps
  <2>1. CASE PrepareStep \/ PrepareFails
    BY <2>1 DEF PrepareStep, Prepare, StageTarget, SavePrepared, PrepareFails, Phases
  <2>2. CASE ForwardStep \/ CommitFails
    <3>1. pc \in ForwardSteps \union {"ready", "failing"}
      BY <2>2 DEF ForwardStep, Commit, CommitGuard, AdoptBackup, ReadLive,
         VerifyPreimage, DisplaceLive, SaveBackedUp, InspectBackedUp, PlaceStaged,
         SaveCommitted, CheckCommitted, HookRefusesForward, Decide, CommitFails,
         SaveRollingBack
    <3>2. journal.phase \in {"prepared", "committing"} /\ verdict # "commit"
      BY <3>1
    <3> QED
      BY <3>2
  <2>3. CASE BackwardStep
    <3>1. pc \in RewindSteps
      BY <2>3 DEF BackwardStep, SkipTarget, RewindPending, RewindAdvanced,
         UndoPlaced, RestoreBackup, SaveRolledBack
    <3>2. journal.phase = "rolling_back" /\ verdict # "commit"
      BY <3>1
    <3>3. journal'.phase = "rolling_back"
      BY <2>3, <3>2, BackwardKeeps
    <3> QED
      BY <3>2, <3>3
  <2>4. CASE Recover \/ Rollback
    BY <2>4 DEF Recover, Rollback, Phases
  <2>5. CASE RemovalStep
    <3>1. live' = live
      BY <2>5 DEF RemovalStep, VerifyCommitted, BeginRemoval, RecordSidecars,
         TombSidecar, SaveTombed, RemoveTomb, SaveRemoved, TombJournal, UnlinkJournal
    <3> QED
      BY <2>5, <3>1, RemovalKeeps
  <2>6. CASE Crash \/ StepFails \/ MoveBoundary \/ RestoreBoundary
    BY <2>6 DEF Crash, StepFails, MoveBoundary, RestoreBoundary
  <2>7. ASSUME NEW t \in Targets, NEW c \in Contents, Edit(t, c) PROVE Final
    <3>1. spent' # spent
      <4>1. spent \in Budgets
        BY DEF Inv, TypeOK
      <4>2. spent'.edit = spent.edit + 1
        BY <2>7, <4>1 DEF Edit, Budgets
      <4>3. spent.edit \in Nat
        BY <4>1 DEF Budgets
      <4> QED
        BY <4>2, <4>3
    <3> QED
      BY <2>7, <3>1 DEF Edit
  <2>8. CASE Finished
    BY <2>8 DEF Finished, vars
  <2> QED
    BY <2>1, <2>2, <2>3, <2>4, <2>5, <2>6, <2>7, <2>8
    DEF Next, EngineStep, EnvironmentStep
<1> QED
  BY <1>1, SpecInv, PTL DEF Spec, DecisionIsFinal

\* An interrupted policy-mode switch is never finished and an explicit rollback
\* never commits, whatever was interrupted.
THEOREM OnlyOwnerCommitsTheorem == Spec => OnlyOwnerCommits
<1> DEFINE Owned == verdict' = "commit" /\ verdict # "commit" =>
                     call = "commit" \/ (call = "recover" /\ ~plan.modeSwitch)
<1>1. Inv /\ [Next]_vars => [Owned]_vars
  <2> SUFFICES ASSUME Inv, Next, verdict' = "commit", verdict # "commit"
               PROVE  pc \in ForwardSteps
    BY DEF Inv, PhaseAgrees
  <2>1. Decide
    BY DEF Next, EngineStep, EnvironmentStep, PrepareStep, ForwardStep,
       BackwardStep, RemovalStep, Prepare, StageTarget, SavePrepared,
       PrepareFails, Commit, CommitGuard, AdoptBackup, ReadLive, VerifyPreimage,
       DisplaceLive, SaveBackedUp, InspectBackedUp, PlaceStaged, SaveCommitted,
       CheckCommitted, HookRefusesForward, CommitFails, SaveRollingBack, Recover,
       Rollback, SkipTarget, RewindPending, RewindAdvanced, UndoPlaced,
       RestoreBackup, SaveRolledBack, VerifyCommitted, BeginRemoval,
       RecordSidecars, TombSidecar, SaveTombed, RemoveTomb, SaveRemoved,
       TombJournal, UnlinkJournal, Crash, StepFails, MoveBoundary,
       RestoreBoundary, Edit, Finished, history, vars
  <2> QED
    BY <2>1 DEF Decide, ForwardSteps
<1> QED
  BY <1>1, SpecInv, PTL DEF Spec, OnlyOwnerCommits
=============================================================================
