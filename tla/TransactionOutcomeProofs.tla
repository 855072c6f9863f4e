---------------------- MODULE TransactionOutcomeProofs ----------------------
(***************************************************************************)
(* What a transaction leaves behind, for every instance of                 *)
(* TransactionEngine: no residue, one plan on every target, and no byte of *)
(* a user lost; and the engine implements AtomicInstall.                   *)
(***************************************************************************)
EXTENDS TransactionRefinement, TransactionProofs

\* What each kind of save changes of the journal, and what it keeps.
LEMMA SaveEffects ==
  ASSUME journal \in Journals
  PROVE  /\ \A p \in Phases : SavePhase(p) =>
              /\ journal'.phase = p /\ journal'.state = journal.state
              /\ journal'.backup = journal.backup
              /\ journal'.cleanup = journal.cleanup
              /\ journal'.digest = journal.digest
         /\ \A t \in Targets, x \in TargetStates : SaveState(t, x) =>
              /\ journal'.phase = journal.phase /\ journal'.state[t] = x
              /\ \A u \in Targets \ {t} : journal'.state[u] = journal.state[u]
              /\ journal'.backup = journal.backup
              /\ journal'.cleanup = journal.cleanup
              /\ journal'.digest = journal.digest
         /\ \A t \in Targets, d \in Bytes : SaveBackup(t, d) =>
              /\ journal'.phase = journal.phase
              /\ journal'.state[t] = "backed_up" /\ journal'.backup[t] = d
              /\ \A u \in Targets \ {t} :
                   /\ journal'.state[u] = journal.state[u]
                   /\ journal'.backup[u] = journal.backup[u]
              /\ journal'.cleanup = journal.cleanup
              /\ journal'.digest = journal.digest
         /\ \A s \in Sidecars, x \in CleanupStates : SaveCleanup(s, x) =>
              /\ journal'.phase = journal.phase /\ journal'.state = journal.state
              /\ journal'.backup = journal.backup
              /\ journal'.cleanup[s] = x
              /\ \A r \in Sidecars \ {s} : journal'.cleanup[r] = journal.cleanup[r]
              /\ journal'.digest = journal.digest
<1>1. \A p \in Phases : SavePhase(p) =>
        /\ journal'.phase = p /\ journal'.state = journal.state
        /\ journal'.backup = journal.backup
        /\ journal'.cleanup = journal.cleanup
        /\ journal'.digest = journal.digest
  BY DEF Journals, SavePhase
<1>2. \A t \in Targets, x \in TargetStates : SaveState(t, x) =>
        /\ journal'.phase = journal.phase /\ journal'.state[t] = x
        /\ \A u \in Targets \ {t} : journal'.state[u] = journal.state[u]
        /\ journal'.backup = journal.backup
        /\ journal'.cleanup = journal.cleanup
        /\ journal'.digest = journal.digest
  BY DEF Journals, SaveState
<1>3. \A t \in Targets, d \in Bytes : SaveBackup(t, d) =>
        /\ journal'.phase = journal.phase
        /\ journal'.state[t] = "backed_up" /\ journal'.backup[t] = d
        /\ \A u \in Targets \ {t} :
             /\ journal'.state[u] = journal.state[u]
             /\ journal'.backup[u] = journal.backup[u]
        /\ journal'.cleanup = journal.cleanup
        /\ journal'.digest = journal.digest
  BY DEF Journals, SaveBackup
<1>4. \A s \in Sidecars, x \in CleanupStates : SaveCleanup(s, x) =>
        /\ journal'.phase = journal.phase /\ journal'.state = journal.state
        /\ journal'.backup = journal.backup
        /\ journal'.cleanup[s] = x
        /\ \A r \in Sidecars \ {s} : journal'.cleanup[r] = journal.cleanup[r]
        /\ journal'.digest = journal.digest
  BY DEF Journals, SaveCleanup
<1> QED
  BY <1>1, <1>2, <1>3, <1>4

LEMMA RecordEffects ==
  ASSUME journal \in Journals, RecordSidecars
  PROVE  /\ journal'.phase = journal.phase /\ journal'.state = journal.state
         /\ journal'.backup = journal.backup
BY DEF RecordSidecars, Journals

LEMMA StateNames ==
  /\ {"pending", "backed_up", "committed", "rolled_back"} = TargetStates
  /\ {"unrecorded", "pending", "tombed", "removed"} = CleanupStates
  /\ {"none", "preparing", "prepared", "committing", "rolling_back", "cleanup"}
       = Phases
BY DEF TargetStates, CleanupStates, Phases

LEMMA SidecarsDistinct ==
  \A t, u \in Targets :
    /\ S(t) # B(u) /\ S(t) # R(u) /\ B(t) # R(u)
    /\ (S(t) = S(u) => t = u) /\ (B(t) = B(u) => t = u) /\ (R(t) = R(u) => t = u)
BY DEF S, B, R

LEMMA SidecarCases ==
  \A s \in Sidecars : \E t \in Targets : s = S(t) \/ s = B(t) \/ s = R(t)
BY DEF Sidecars, Roles, S, B, R

-----------------------------------------------------------------------------
(* Nothing is left behind.                                                  *)

\* A discard begins only where no target's state can change any more, and what it
\* has recorded it carries through to the end.
RemovalAgrees ==
  /\ (\E s \in Sidecars : journal.cleanup[s] # "unrecorded") => Recorded
  /\ Recorded => RemovalReady
  /\ pc \in {"manifest", "discard"} => RemovalReady
  /\ pc = "discard" => Recorded
  /\ pc \in PrepareSteps \union CommitSteps \union {"manifest", "decide", "failing"}
       => ~Recorded
  /\ pc = "unlink" => record = "delete"
  /\ pc \in RewindSteps \union {"cleanup", "manifest", "discard"} => record = "json"
  /\ pc \in {"undo", "restore", "restored"} =>
       State(cur) \in {"backed_up", "committed"}
  /\ record = "delete" => AllRemoved

\* What the manifest says of a sidecar and of its tomb.
SidecarsAgree ==
  /\ \A s \in Sidecars :
       /\ journal.cleanup[s] = "unrecorded" => tomb[s] = "absent"
       /\ journal.cleanup[s] = "pending" => side[s] = "absent" \/ tomb[s] = "absent"
       /\ journal.cleanup[s] = "tombed" => side[s] = "absent"
       /\ journal.cleanup[s] = "removed" => side[s] = "absent" /\ tomb[s] = "absent"
       /\ record = "none" => side[s] = "absent" /\ tomb[s] = "absent"
  /\ Recorded /\ journal.phase # "cleanup" =>
       \A t \in Targets : journal.cleanup[B(t)] = "removed"

RemovalInv == Inv /\ RemovalAgrees /\ SidecarsAgree

LEMMA InitRemoval == Init => RemovalAgrees /\ SidecarsAgree
BY InitInv, FirstTarget, SidecarPaths
DEF Init, RemovalAgrees, SidecarsAgree, NoJournal, Recorded, PrepareSteps,
    CommitSteps, RewindSteps

\* The steps that leave every file and the journal as they are.
Quiet ==
  \/ PrepareFails \/ Commit \/ ReadLive \/ VerifyPreimage \/ InspectBackedUp
  \/ CheckCommitted \/ HookRefusesForward \/ SkipTarget \/ VerifyCommitted
  \/ BeginRemoval \/ Crash \/ StepFails \/ MoveBoundary \/ RestoreBoundary
  \/ UNCHANGED vars

LEMMA QuietKeeps ==
  Quiet => UNCHANGED <<plan, live, side, tomb, record, journal, verdict, owed>>
BY DEF Quiet, PrepareFails, Commit, ReadLive, VerifyPreimage, InspectBackedUp,
       CheckCommitted, HookRefusesForward, SkipTarget, VerifyCommitted,
       BeginRemoval, Crash, StepFails, MoveBoundary, RestoreBoundary, vars, files,
       history

\* Where the steps that only look may lead.
LEMMA QuietRemoval == RemovalInv /\ Quiet => RemovalAgrees' /\ SidecarsAgree'
<1> SUFFICES ASSUME RemovalInv, Quiet PROVE RemovalAgrees' /\ SidecarsAgree'
  OBVIOUS
<1>0. UNCHANGED <<live, side, tomb, record, journal>>
  BY QuietKeeps
<1>1. SidecarsAgree'
  BY <1>0 DEF RemovalInv, SidecarsAgree, Recorded
<1>2. RemovalReady' = RemovalReady /\ Recorded' = Recorded /\ AllRemoved' = AllRemoved
  BY <1>0 DEF RemovalReady, Recorded, AllRemoved, State
<1> DEFINE Control ==
      /\ pc \in {"manifest", "discard"} => RemovalReady
      /\ pc = "discard" => Recorded
      /\ pc \in PrepareSteps \union CommitSteps
               \union {"manifest", "decide", "failing"} => ~Recorded
      /\ pc = "unlink" => record = "delete"
      /\ pc \in RewindSteps \union {"cleanup", "manifest", "discard"}
           => record = "json"
      /\ pc \in {"undo", "restore", "restored"} =>
           State(cur) \in {"backed_up", "committed"}
<1>3. Control'
  <2> USE <1>0, <1>2 DEF RemovalInv, RemovalAgrees, Inv, PhaseAgrees, Goto, Retain,
            PrepareSteps, CommitSteps, RewindSteps, RemoveSteps, ForwardSteps, State
  <2>1. CASE PrepareFails
    BY <2>1 DEF PrepareFails
  <2>2. CASE Commit \/ ReadLive \/ VerifyPreimage \/ InspectBackedUp
             \/ HookRefusesForward
    BY <2>2 DEF Commit, ReadLive, VerifyPreimage, InspectBackedUp,
                HookRefusesForward
  <2>3. CASE CheckCommitted
    BY <2>3 DEF CheckCommitted, NextForward
  <2>4. CASE SkipTarget
    BY <2>4 DEF SkipTarget, NextBackward
  <2>5. CASE VerifyCommitted \/ BeginRemoval
    <3>1. record \in {"none", "json", "delete"}
      BY DEF TypeOK
    <3> QED BY <2>5, <3>1 DEF VerifyCommitted, BeginRemoval
  <2>6. CASE Crash \/ StepFails
    BY <2>6 DEF Crash, StepFails
  <2>7. CASE MoveBoundary \/ RestoreBoundary \/ UNCHANGED vars
    BY <2>7 DEF MoveBoundary, RestoreBoundary, vars, control
  <2> QED BY <2>1, <2>2, <2>3, <2>4, <2>5, <2>6, <2>7 DEF Quiet
<1> QED BY <1>0, <1>1, <1>2, <1>3 DEF RemovalInv, RemovalAgrees

LEMMA PrepareRemoval ==
  RemovalInv /\ PrepareStep => RemovalAgrees' /\ SidecarsAgree'
<1> SUFFICES ASSUME RemovalInv, PrepareStep PROVE RemovalAgrees' /\ SidecarsAgree'
  OBVIOUS
<1> USE FirstTarget, StateNames, SaveEffects, SidecarPaths
        DEF RemovalInv, Inv, TypeOK, PhaseAgrees, RemovalAgrees, SidecarsAgree,
            ControlType, Goto, Retain, PrepareSteps, CommitSteps, RewindSteps,
            RemoveSteps, ForwardSteps, Recorded, RemovalReady, State
<1>1. CASE Prepare
  <2>1. /\ \A s \in Sidecars : journal'.cleanup[s] = "unrecorded"
        /\ journal'.phase = "preparing" /\ pc' = "stage" /\ record' = "json"
        /\ UNCHANGED <<side, tomb>>
    BY <1>1 DEF Prepare, NoJournal, files
  <2>2. ~Recorded'
    BY <2>1
  <2> QED BY <1>1, <2>1, <2>2 DEF Prepare
<1>2. CASE StageTarget
  <2>1. UNCHANGED <<tomb, record, journal>>
    BY <1>2 DEF StageTarget
  <2>2. pc' \in {"stage", "staged"} /\ ~Recorded /\ record = "json"
    BY <1>2 DEF StageTarget, NextStaging, control
  <2>3. \A s \in Sidecars : journal.cleanup[s] = "unrecorded"
    BY <2>2
  <2> QED BY <2>1, <2>2, <2>3
<1>3. CASE SavePrepared
  <2>1. UNCHANGED <<side, tomb, record>> /\ journal'.cleanup = journal.cleanup
    BY <1>3 DEF SavePrepared, files
  <2>2. pc' = "ready" /\ ~Recorded
    BY <1>3 DEF SavePrepared
  <2>3. \A s \in Sidecars : journal'.cleanup[s] = "unrecorded"
    BY <2>1, <2>2
  <2>4. record = "json" /\ ~Recorded'
    BY <1>3, <2>3 DEF SavePrepared
  <2> QED BY <2>1, <2>2, <2>3, <2>4
<1> QED BY <1>1, <1>2, <1>3 DEF PrepareStep

\* A change of phase: a recorded discard only ever becomes one of a rollback.
LEMMA PhaseRemoval ==
  RemovalInv /\ (CommitGuard \/ Decide \/ SaveRollingBack \/ Recover \/ Rollback)
    => RemovalAgrees' /\ SidecarsAgree'
<1> SUFFICES ASSUME RemovalInv,
                    CommitGuard \/ Decide \/ SaveRollingBack \/ Recover \/ Rollback
             PROVE  RemovalAgrees' /\ SidecarsAgree'
  OBVIOUS
<1> USE FirstTarget, StateNames, SaveEffects
        DEF RemovalInv, Inv, TypeOK, PhaseAgrees, ControlType, Goto, Retain,
            PrepareSteps, CommitSteps, RewindSteps, RemoveSteps, ForwardSteps, State
<1>1. /\ UNCHANGED <<side, tomb, record>> /\ journal'.cleanup = journal.cleanup
      /\ journal'.state = journal.state
  BY DEF CommitGuard, Decide, SaveRollingBack, Recover, Rollback, files
<1>2. Recorded' = Recorded /\ AllRemoved' = AllRemoved
  BY <1>1 DEF Recorded, AllRemoved
<1>3. Recorded /\ journal'.phase # journal.phase =>
        journal.phase = "prepared" /\ journal'.phase = "rolling_back"
  BY DEF CommitGuard, Decide, SaveRollingBack, Recover, Rollback, RemovalAgrees,
         RemovalReady
<1>4. Recorded => RemovalReady'
  BY <1>1, <1>3 DEF RemovalAgrees, RemovalReady
<1>5. SidecarsAgree'
  BY <1>1, <1>2, <1>3 DEF SidecarsAgree
<1>6. /\ pc' \notin {"manifest", "discard", "unlink", "undo", "restore", "restored"}
      /\ pc' \notin PrepareSteps
      /\ pc' \in CommitSteps \union {"decide", "failing"} => ~Recorded
      /\ pc' \in RewindSteps \union {"cleanup"} => record = "json"
  <2>0. record \in {"none", "json", "delete"}
    OBVIOUS
  <2>1. CASE CommitGuard
    BY <2>1 DEF CommitGuard
  <2>2. CASE Decide \/ SaveRollingBack
    BY <2>0, <2>2 DEF Decide, SaveRollingBack
  <2>3. CASE Recover \/ Rollback
    BY <2>0, <2>3 DEF Recover, Rollback
  <2> QED BY <2>1, <2>2, <2>3
<1> QED BY <1>1, <1>2, <1>4, <1>5, <1>6 DEF RemovalAgrees

\* A change of one target's state: none is left to make once the discard is
\* recorded.
LEMMA StateRemoval ==
  RemovalInv /\ (AdoptBackup \/ SaveBackedUp \/ SaveCommitted \/ CommitFails
                 \/ RewindPending \/ RewindAdvanced \/ SaveRolledBack)
    => RemovalAgrees' /\ SidecarsAgree'
<1> SUFFICES ASSUME RemovalInv,
                    AdoptBackup \/ SaveBackedUp \/ SaveCommitted \/ CommitFails
                    \/ RewindPending \/ RewindAdvanced \/ SaveRolledBack
             PROVE  RemovalAgrees' /\ SidecarsAgree'
  OBVIOUS
<1> USE FirstTarget, StateNames, SaveEffects, Contained, SidecarPaths
        DEF RemovalInv, Inv, TypeOK, PhaseAgrees, ControlType, Goto, Retain,
            PrepareSteps, CommitSteps, RewindSteps, RemoveSteps, ForwardSteps, State
<1>1. UNCHANGED <<side, tomb, record>>
  BY DEF AdoptBackup, SaveBackedUp, SaveCommitted, CommitFails, RewindPending,
         RewindAdvanced, SaveRolledBack, files
<1>2. /\ journal'.cleanup = journal.cleanup /\ journal'.phase = journal.phase
  <2>1. CASE AdoptBackup \/ SaveBackedUp \/ SaveCommitted \/ CommitFails
    BY <2>1 DEF AdoptBackup, SaveBackedUp, SaveCommitted, CommitFails
  <2>2. CASE RewindPending \/ RewindAdvanced \/ SaveRolledBack
    BY <2>2 DEF RewindPending, RewindAdvanced, SaveRolledBack
  <2> QED BY <2>1, <2>2
<1>3. Recorded' = Recorded /\ AllRemoved' = AllRemoved
  BY <1>2 DEF Recorded, AllRemoved
<1>4. Recorded => journal' = journal
  <2> SUFFICES ASSUME Recorded PROVE journal' = journal
    OBVIOUS
  <2>1. /\ pc \notin CommitSteps \union {"undo", "restore", "restored"}
        /\ journal.phase = "rolling_back" => \A t \in Targets :
             State(t) \in {"pending", "rolled_back"} /\ side[B(t)] = "absent"
    BY DEF RemovalAgrees, SidecarsAgree, RemovalReady
  <2>2. cur \in Targets /\ (pc = "rewind" => journal.phase = "rolling_back")
    OBVIOUS
  <2> QED BY <2>1, <2>2 DEF AdoptBackup, SaveBackedUp, SaveCommitted, CommitFails,
         RewindPending, RewindAdvanced, SaveRolledBack, Untouched
<1>5. Recorded => RemovalReady'
  BY <1>4 DEF RemovalAgrees, RemovalReady
<1>6. SidecarsAgree'
  BY <1>1, <1>2, <1>3 DEF SidecarsAgree
<1>7. /\ pc' \notin {"manifest", "discard", "unlink"}
      /\ pc' \notin PrepareSteps
      /\ pc' \in CommitSteps \union {"decide", "failing"} => ~Recorded
      /\ pc' \in RewindSteps \union {"cleanup"} => record = "json"
  <2>1. CASE AdoptBackup \/ SaveBackedUp \/ SaveCommitted \/ CommitFails
    BY <2>1 DEF AdoptBackup, SaveBackedUp, SaveCommitted, CommitFails, NextForward,
       control, RemovalAgrees
  <2>2. CASE RewindPending \/ RewindAdvanced \/ SaveRolledBack
    BY <2>2 DEF RewindPending, RewindAdvanced, SaveRolledBack, NextBackward,
       RemovalAgrees
  <2> QED BY <2>1, <2>2
<1>8. pc' \in {"undo", "restore", "restored"} => State(cur)' \in {"backed_up", "committed"}
  <2>1. CASE AdoptBackup \/ SaveBackedUp \/ SaveCommitted \/ CommitFails
    BY <2>1 DEF AdoptBackup, SaveBackedUp, SaveCommitted, CommitFails, NextForward,
       control
  <2>2. CASE RewindPending
    BY <2>2 DEF RewindPending
  <2>3. CASE RewindAdvanced \/ SaveRolledBack
    BY <2>3 DEF RewindAdvanced, SaveRolledBack, NextBackward
  <2> QED BY <2>1, <2>2, <2>3
<1>9. RemovalAgrees'
  <2>1. RemovalAgrees
    OBVIOUS
  <2> HIDE SaveEffects, Contained DEF Inv, TypeOK, PhaseAgrees, RemovalInv
  <2>2. (\E s \in Sidecars : journal.cleanup[s] # "unrecorded")' => Recorded'
    BY <1>2, <1>3, <2>1 DEF RemovalAgrees
  <2> QED BY <1>1, <1>2, <1>3, <1>5, <1>7, <1>8, <2>1, <2>2 DEF RemovalAgrees
<1> QED BY <1>6, <1>9

\* A rename: the engine makes none once the discard is recorded.
LEMMA MoveRemoval ==
  RemovalInv /\ (DisplaceLive \/ PlaceStaged \/ UndoPlaced \/ RestoreBackup)
    => RemovalAgrees' /\ SidecarsAgree'
<1> SUFFICES ASSUME RemovalInv,
                    DisplaceLive \/ PlaceStaged \/ UndoPlaced \/ RestoreBackup
             PROVE  RemovalAgrees' /\ SidecarsAgree'
  OBVIOUS
<1>1. UNCHANGED <<tomb, record, journal>>
  BY DEF DisplaceLive, PlaceStaged, UndoPlaced, RestoreBackup
<1>2. RemovalReady' = RemovalReady /\ Recorded' = Recorded /\ AllRemoved' = AllRemoved
  BY <1>1 DEF RemovalReady, Recorded, AllRemoved, State
<1>3. ~Recorded
  <2>1. cur \in Targets /\ pc \in CommitSteps \union {"undo", "restore"}
        /\ (pc \in {"undo", "restore"} => journal.phase = "rolling_back")
    BY DEF RemovalInv, Inv, TypeOK, ControlType, PhaseAgrees, RewindSteps,
           CommitSteps, DisplaceLive, PlaceStaged, UndoPlaced, RestoreBackup
  <2> QED BY <2>1 DEF RemovalInv, RemovalAgrees, RemovalReady
<1>4. \A s \in Sidecars : journal.cleanup[s] = "unrecorded"
  BY <1>3 DEF RemovalInv, RemovalAgrees
<1>5. record # "none"
  BY DEF RemovalInv, Inv, PhaseAgrees, DisplaceLive, PlaceStaged, UndoPlaced,
         RestoreBackup
<1>6. SidecarsAgree'
  BY <1>1, <1>2, <1>3, <1>4, <1>5 DEF RemovalInv, SidecarsAgree
<1>7. /\ pc' \notin {"manifest", "discard", "unlink", "cleanup"}
      /\ pc' \in RewindSteps => record = "json"
      /\ pc' \in {"undo", "restore", "restored"} => pc \in {"undo", "restore"} /\ cur' = cur
  BY DEF RemovalInv, RemovalAgrees, DisplaceLive, PlaceStaged, UndoPlaced,
         RestoreBackup, Goto, Retain, RewindSteps
<1> QED
  BY <1>1, <1>2, <1>3, <1>6, <1>7 DEF RemovalInv, RemovalAgrees, State

\* The discard itself.
LEMMA DiscardRemoval ==
  RemovalInv /\ (RecordSidecars \/ TombJournal \/ UnlinkJournal
                 \/ \E s \in Sidecars : TombSidecar(s) \/ SaveTombed(s)
                                        \/ RemoveTomb(s) \/ SaveRemoved(s))
    => RemovalAgrees' /\ SidecarsAgree'
<1> SUFFICES ASSUME RemovalInv,
                    RecordSidecars \/ TombJournal \/ UnlinkJournal
                    \/ \E s \in Sidecars : TombSidecar(s) \/ SaveTombed(s)
                                           \/ RemoveTomb(s) \/ SaveRemoved(s)
             PROVE  RemovalAgrees' /\ SidecarsAgree'
  OBVIOUS
<1>0. TypeOK /\ PhaseAgrees /\ RemovalAgrees /\ SidecarsAgree /\ FilesType
  BY DEF RemovalInv, Inv, TypeOK
<1>1. CASE RecordSidecars
  <2>1. CASE ~(\A s \in Sidecars : side[s] \in Allowed(s) /\ tomb[s] = "absent")
    <3>1. UNCHANGED <<side, tomb, record, journal>> /\ pc' = "idle"
      BY <1>1, <2>1 DEF RecordSidecars, files, Retain
    <3>2. RemovalReady' = RemovalReady /\ Recorded' = Recorded
          /\ AllRemoved' = AllRemoved
      BY <3>1 DEF RemovalReady, Recorded, AllRemoved, State
    <3> QED BY <1>0, <3>1, <3>2 DEF RemovalAgrees, SidecarsAgree, PrepareSteps,
               CommitSteps, RewindSteps
  <2>2. CASE \A s \in Sidecars : side[s] \in Allowed(s) /\ tomb[s] = "absent"
    <3>1. /\ UNCHANGED <<side, tomb, record>> /\ pc = "manifest" /\ pc' = "discard"
          /\ journal'.phase = journal.phase /\ journal'.state = journal.state
          /\ journal'.cleanup = [s \in Sidecars |->
                IF side[s] = "absent" THEN "removed" ELSE "pending"]
      BY <1>0, <1>1, <2>2 DEF RecordSidecars, files, Goto, TypeOK, Journals
    <3>2. /\ RemovalReady /\ RemovalReady' /\ record = "json"
      BY <1>0, <3>1 DEF RemovalAgrees, RemovalReady, State
    <3>3. Recorded' /\ \A s \in Sidecars : journal'.cleanup[s] =
                         IF side[s] = "absent" THEN "removed" ELSE "pending"
      BY <3>1 DEF Recorded
    <3>4. RemovalAgrees'
      BY <3>1, <3>2, <3>3 DEF RemovalAgrees, PrepareSteps, CommitSteps, RewindSteps
    <3>5. journal.phase # "cleanup" => \A t \in Targets : side[B(t)] = "absent"
      BY <2>2, SidecarPaths DEF Allowed, B
    <3> QED BY <1>0, <2>2, <3>1, <3>2, <3>3, <3>4, <3>5, SidecarPaths DEF SidecarsAgree
  <2> QED BY <2>1, <2>2
<1>2. ASSUME NEW s \in Sidecars, TombSidecar(s) \/ RemoveTomb(s)
      PROVE  RemovalAgrees' /\ SidecarsAgree'
  <2>1. /\ UNCHANGED <<record, journal, pc, cur>>
        /\ journal.cleanup[s] \in {"pending", "tombed"} /\ pc = "discard"
        /\ \A r \in Sidecars : r # s => side'[r] = side[r] /\ tomb'[r] = tomb[r]
        /\ side'[s] = "absent"
    BY <1>0, <1>2 DEF TombSidecar, RemoveTomb, Discarding, control, FilesType
  <2>a. /\ \A r \in Sidecars : r # s => side'[r] = side[r] /\ tomb'[r] = tomb[r]
        /\ journal' = journal /\ side'[s] = "absent"
    BY <2>1
  <2>b. journal.cleanup[s] \in {"pending", "tombed"}
    BY <2>1
  <2>2. RemovalReady' = RemovalReady /\ Recorded' = Recorded
        /\ AllRemoved' = AllRemoved
    BY <2>1 DEF RemovalReady, Recorded, AllRemoved, State
  <2>3. record = "json"
    BY <1>0, <2>1 DEF RemovalAgrees
  <2>4. RemovalAgrees'
    BY <1>0, <2>1, <2>2, <2>3
    DEF RemovalAgrees, State, PrepareSteps, CommitSteps, RewindSteps
  <2>5. SidecarsAgree'
    <3> SUFFICES ASSUME NEW r \in Sidecars
                 PROVE  /\ journal'.cleanup[r] = "unrecorded" => tomb'[r] = "absent"
                        /\ journal'.cleanup[r] = "pending" =>
                             side'[r] = "absent" \/ tomb'[r] = "absent"
                        /\ journal'.cleanup[r] = "tombed" => side'[r] = "absent"
                        /\ journal'.cleanup[r] = "removed" =>
                             side'[r] = "absent" /\ tomb'[r] = "absent"
      BY <1>0, <2>1, <2>2, <2>3, SidecarPaths DEF SidecarsAgree
    <3>1. CASE r = s
      BY <2>a, <2>b, <3>1
    <3>2. CASE r # s
      BY <1>0, <2>a, <3>2 DEF SidecarsAgree
    <3> QED BY <3>1, <3>2
  <2> QED BY <2>4, <2>5
<1>3. ASSUME NEW s \in Sidecars, SaveTombed(s) \/ SaveRemoved(s)
      PROVE  RemovalAgrees' /\ SidecarsAgree'
  <2>1. /\ UNCHANGED <<side, tomb, record, pc, cur>> /\ pc = "discard"
        /\ journal'.phase = journal.phase /\ journal'.state = journal.state
        /\ \A r \in Sidecars : r # s => journal'.cleanup[r] = journal.cleanup[r]
        /\ \/ journal.cleanup[s] = "pending" /\ journal'.cleanup[s] = "tombed"
              /\ side[s] = "absent"
           \/ journal.cleanup[s] = "tombed" /\ journal'.cleanup[s] = "removed"
              /\ side[s] = "absent" /\ tomb[s] = "absent"
    BY <1>0, <1>3, SaveEffects, StateNames
    DEF SaveTombed, SaveRemoved, Discarding, control, files, TypeOK
  <2>a. \A r \in Sidecars : r # s => journal'.cleanup[r] = journal.cleanup[r]
    BY <2>1
  <2>b. side' = side /\ tomb' = tomb
    BY <2>1
  <2>c. /\ journal'.cleanup[s] \in {"tombed", "removed"} /\ side[s] = "absent"
        /\ journal'.cleanup[s] = "removed" => tomb[s] = "absent"
    BY <2>1
  <2>2. Recorded /\ Recorded'
    <3>1. Recorded
      BY <1>0, <2>1 DEF RemovalAgrees
    <3>2. journal'.cleanup[s] # "unrecorded"
      BY <2>c
    <3>3. Recorded'
      BY <2>a, <3>1, <3>2 DEF Recorded
    <3> QED BY <3>1, <3>3
  <2>3. RemovalReady' = RemovalReady /\ record = "json"
    BY <1>0, <2>1 DEF RemovalReady, State, RemovalAgrees
  <2>4. RemovalAgrees'
    BY <1>0, <2>1, <2>2, <2>3 DEF RemovalAgrees, PrepareSteps, CommitSteps, RewindSteps
  <2>5. SidecarsAgree'
    <3> SUFFICES ASSUME NEW r \in Sidecars
                 PROVE  /\ journal'.cleanup[r] = "unrecorded" => tomb'[r] = "absent"
                        /\ journal'.cleanup[r] = "pending" =>
                             side'[r] = "absent" \/ tomb'[r] = "absent"
                        /\ journal'.cleanup[r] = "tombed" => side'[r] = "absent"
                        /\ journal'.cleanup[r] = "removed" =>
                             side'[r] = "absent" /\ tomb'[r] = "absent"
      <4>1. \A t \in Targets : journal.cleanup[B(t)] = "removed" =>
              journal'.cleanup[B(t)] = "removed"
        BY <2>a, <2>c, SidecarPaths, <2>1
      <4> QED BY <1>0, <2>1, <2>2, <2>3, <4>1, SidecarPaths DEF SidecarsAgree
    <3>1. CASE r = s
      BY <2>b, <2>c, <3>1
    <3>2. CASE r # s
      BY <1>0, <2>a, <2>b, <3>2 DEF SidecarsAgree
    <3> QED BY <3>1, <3>2
  <2> QED BY <2>4, <2>5
<1>4. CASE TombJournal
  <2>1. UNCHANGED <<side, tomb, journal>> /\ record' = "delete" /\ pc' = "unlink"
        /\ AllRemoved
    BY <1>4 DEF TombJournal, files, Goto
  <2>2. RemovalReady' = RemovalReady /\ Recorded' = Recorded
        /\ AllRemoved' = AllRemoved
    BY <2>1 DEF RemovalReady, Recorded, AllRemoved, State
  <2>3. RemovalAgrees'
    BY <1>0, <2>1, <2>2 DEF RemovalAgrees, PrepareSteps, CommitSteps, RewindSteps
  <2>4. SidecarsAgree'
    BY <1>0, <2>1, <2>2 DEF SidecarsAgree
  <2> QED BY <2>3, <2>4
<1>5. CASE UnlinkJournal
  <2>1. UNCHANGED <<side, tomb>> /\ record' = "none" /\ pc' = "idle"
        /\ journal' = NoJournal /\ AllRemoved
    BY <1>0, <1>5 DEF UnlinkJournal, files, Retain, RemovalAgrees
  <2>2. ~Recorded' /\ \A s \in Sidecars : journal'.cleanup[s] = "unrecorded"
    BY <2>1, FirstTarget, SidecarPaths DEF NoJournal, Recorded
  <2>3. \A s \in Sidecars : side[s] = "absent" /\ tomb[s] = "absent"
    BY <1>0, <2>1 DEF SidecarsAgree, AllRemoved
  <2>4. RemovalAgrees'
    BY <2>1, <2>2 DEF RemovalAgrees, PrepareSteps, CommitSteps, RewindSteps
  <2>5. SidecarsAgree'
    BY <2>1, <2>2, <2>3 DEF SidecarsAgree
  <2> QED BY <2>4, <2>5
<1> QED BY <1>1, <1>2, <1>3, <1>4, <1>5

LEMMA EditRemoval ==
  ASSUME RemovalInv, NEW t \in Targets, NEW c \in Contents, Edit(t, c)
  PROVE  RemovalAgrees' /\ SidecarsAgree'
<1>1. UNCHANGED <<side, tomb, record, journal, pc, cur>>
  BY DEF Edit, control
<1>2. RemovalReady' = RemovalReady /\ Recorded' = Recorded /\ AllRemoved' = AllRemoved
  BY <1>1 DEF RemovalReady, Recorded, AllRemoved, State
<1> QED BY <1>1, <1>2 DEF RemovalInv, RemovalAgrees, SidecarsAgree, State

\* Every step of the specification is of one of these kinds.
LEMMA StepKinds ==
  [Next]_vars =>
    \/ Quiet \/ PrepareStep \/ CommitGuard \/ Decide \/ SaveRollingBack
    \/ Recover \/ Rollback
    \/ AdoptBackup \/ SaveBackedUp \/ SaveCommitted \/ CommitFails
    \/ RewindPending \/ RewindAdvanced \/ SaveRolledBack
    \/ DisplaceLive \/ PlaceStaged \/ UndoPlaced \/ RestoreBackup
    \/ RecordSidecars \/ TombJournal \/ UnlinkJournal
    \/ \E s \in Sidecars :
         TombSidecar(s) \/ SaveTombed(s) \/ RemoveTomb(s) \/ SaveRemoved(s)
    \/ \E t \in Targets, c \in Contents : Edit(t, c)
BY DEF Next, EngineStep, ForwardStep, BackwardStep, RemovalStep, EnvironmentStep,
       Quiet, Finished

LEMMA NextRemoval == RemovalInv /\ [Next]_vars => RemovalInv'
BY NextInv, StepKinds, QuietRemoval, PrepareRemoval, PhaseRemoval, StateRemoval,
   MoveRemoval, DiscardRemoval, EditRemoval DEF RemovalInv

LEMMA SpecRemoval == Spec => []RemovalInv
<1>1. Init => RemovalInv
  BY InitInv, InitRemoval DEF RemovalInv
<1> QED
  BY <1>1, NextRemoval, PTL DEF Spec

\* _remove_journal: when the journal is a tomb or gone, nothing the transaction
\* made beside the targets is left, wherever crashes cut the discard.
THEOREM NoResidueTheorem == Spec => []NoResidue
<1>1. RemovalInv => NoResidue
  BY DEF RemovalInv, Inv, TypeOK, RemovalAgrees, SidecarsAgree, NoResidue, AllRemoved
<1> QED
  BY SpecRemoval, <1>1, PTL

-----------------------------------------------------------------------------
(* No byte of a user is lost.                                               *)

\* What a sidecar may hold when its manifest is recorded, so what is thrown away.
ContentsAgree ==
  /\ \A t \in Targets :
       /\ side[S(t)] \in {"absent", "partial", "new"}
       /\ Recorded /\ journal.phase # "cleanup" =>
            /\ tomb[S(t)] \in {"absent", "partial", "new"}
            /\ side[R(t)] \in {"absent", "new"} /\ tomb[R(t)] \in {"absent", "new"}
       /\ Recorded /\ journal.phase = "cleanup" =>
            /\ side[S(t)] = "absent" /\ tomb[S(t)] = "absent"
            /\ side[R(t)] = "absent" /\ tomb[R(t)] = "absent"
            /\ side[B(t)] \in {"absent", journal.backup[t]}
            /\ tomb[B(t)] \in {"absent", journal.backup[t]}
  /\ pc = "undo" => side[R(cur)] = "absent"

ContentsInv == RemovalInv /\ ContentsAgree

LEMMA InitContents == Init => ContentsAgree
BY FirstTarget, SidecarPaths
DEF Init, ContentsAgree, NoJournal, Recorded

\* Steps that rename nothing.
LEMMA SavesKeepContents ==
  ContentsInv /\ (Quiet \/ Prepare \/ SavePrepared \/ CommitGuard \/ Decide
                  \/ SaveRollingBack \/ Recover \/ Rollback \/ AdoptBackup
                  \/ SaveBackedUp \/ SaveCommitted \/ CommitFails \/ RewindPending
                  \/ RewindAdvanced \/ SaveRolledBack \/ TombJournal
                  \/ UnlinkJournal
                  \/ \E t \in Targets, c \in Contents : Edit(t, c))
    => ContentsAgree'
<1> SUFFICES ASSUME ContentsInv,
                    Quiet \/ Prepare \/ SavePrepared \/ CommitGuard \/ Decide
                    \/ SaveRollingBack \/ Recover \/ Rollback \/ AdoptBackup
                    \/ SaveBackedUp \/ SaveCommitted \/ CommitFails \/ RewindPending
                    \/ RewindAdvanced \/ SaveRolledBack \/ TombJournal
                    \/ UnlinkJournal
                    \/ \E t \in Targets, c \in Contents : Edit(t, c)
             PROVE  ContentsAgree'
  OBVIOUS
<1>0. /\ TypeOK /\ PhaseAgrees /\ RemovalAgrees /\ SidecarsAgree /\ ContentsAgree
      /\ FilesType /\ ControlType /\ journal \in Journals
  BY DEF ContentsInv, RemovalInv, Inv, TypeOK
<1>1. UNCHANGED <<side, tomb>>
  <2>1. CASE Quiet
    BY <2>1, QuietKeeps
  <2> QED BY <2>1 DEF Prepare, SavePrepared, CommitGuard, Decide,
          SaveRollingBack, Recover, Rollback, AdoptBackup, SaveBackedUp,
          SaveCommitted, CommitFails, RewindPending, RewindAdvanced, SaveRolledBack,
          TombJournal, UnlinkJournal, Edit, files
<1>2. \/ ~Recorded'
      \/ /\ Recorded /\ \A t \in Targets : journal'.backup[t] = journal.backup[t]
         /\ journal'.phase = "cleanup" <=> journal.phase = "cleanup"
  <2> USE <1>0, SaveEffects, StateNames, FirstTarget, SidecarPaths
  <2>1. CASE Quiet \/ TombJournal \/ \E t \in Targets, c \in Contents : Edit(t, c)
    <3>1. journal' = journal
      BY <2>1, QuietKeeps DEF TombJournal, Edit
    <3> QED BY <3>1 DEF Recorded
  <2>2. CASE Prepare \/ UnlinkJournal
    <3>1. journal'.cleanup[S(1)] = "unrecorded"
      BY <2>2 DEF Prepare, UnlinkJournal, NoJournal
    <3> QED BY <3>1 DEF Recorded
  <2>3. CASE SavePrepared \/ CommitGuard \/ Decide \/ SaveRollingBack \/ Recover \/ Rollback
    <3>1. journal'.cleanup = journal.cleanup /\ journal'.backup = journal.backup
      BY <2>3 DEF SavePrepared, CommitGuard, Decide, SaveRollingBack, Recover, Rollback
    <3>2. Recorded' = Recorded
      BY <3>1 DEF Recorded
    <3>3. Recorded => (journal'.phase = "cleanup" <=> journal.phase = "cleanup")
      BY <2>3 DEF SavePrepared, CommitGuard, Decide, SaveRollingBack, Recover,
         Rollback, RemovalAgrees, PrepareSteps
    <3> QED BY <3>1, <3>2, <3>3
  <2>4. CASE AdoptBackup \/ SaveBackedUp \/ SaveCommitted \/ CommitFails
    <3>1. ~Recorded
      BY <2>4 DEF AdoptBackup, SaveBackedUp, SaveCommitted, CommitFails,
         RemovalAgrees, CommitSteps
    <3>2. journal'.cleanup = journal.cleanup
      BY <2>4, Contained DEF AdoptBackup, SaveBackedUp, SaveCommitted, CommitFails,
         ControlType
    <3> QED BY <3>1, <3>2 DEF Recorded
  <2>5. CASE RewindPending \/ RewindAdvanced \/ SaveRolledBack
    <3>1. /\ journal'.cleanup = journal.cleanup /\ journal'.phase = journal.phase
      BY <2>5, Contained DEF RewindPending, RewindAdvanced, SaveRolledBack, ControlType
    <3>2. Recorded' = Recorded
      BY <3>1 DEF Recorded
    <3>3. Recorded => journal'.backup = journal.backup
      <4>1. RewindAdvanced \/ SaveRolledBack => journal'.backup = journal.backup
        BY DEF RewindAdvanced, SaveRolledBack, ControlType
      <4>2. RewindPending /\ Recorded => FALSE
        BY DEF RewindPending, Untouched, SidecarsAgree, PhaseAgrees, RewindSteps,
           ControlType
      <4> QED BY <2>5, <4>1, <4>2
    <3> QED BY <3>1, <3>2, <3>3
  <2> QED BY <2>1, <2>2, <2>3, <2>4, <2>5
<1>3. pc' = "undo" => side[R(cur)]' = "absent"
  <2>1. CASE pc' = "undo" /\ RewindAdvanced
    BY <1>1, <2>1 DEF RewindAdvanced, RewindRefused, NextBackward, Goto, Retain
  <2>2. CASE pc' = "undo" /\ ~RewindAdvanced
    <3>1. pc = "undo" /\ cur' = cur
      BY <2>2 DEF Quiet, PrepareFails, Commit, ReadLive, VerifyPreimage,
         InspectBackedUp, CheckCommitted, HookRefusesForward, SkipTarget,
         VerifyCommitted, BeginRemoval, Crash, StepFails, MoveBoundary,
         RestoreBoundary, vars, Prepare, SavePrepared, CommitGuard, Decide,
         SaveRollingBack, Recover, Rollback, AdoptBackup, SaveBackedUp,
         SaveCommitted, CommitFails, RewindPending, SaveRolledBack, TombJournal,
         UnlinkJournal, Edit, control, Goto, Retain, NextForward, NextBackward
    <3> QED BY <1>0, <1>1, <3>1 DEF ContentsAgree
  <2> QED BY <2>1, <2>2
<1> QED BY <1>0, <1>1, <1>2, <1>3 DEF ContentsAgree

\* Steps that rename a live entry or a sidecar come before the discard.
LEMMA MovesKeepContents ==
  ContentsInv /\ (StageTarget \/ DisplaceLive \/ PlaceStaged \/ UndoPlaced
                  \/ RestoreBackup) => ContentsAgree'
<1> SUFFICES ASSUME ContentsInv,
                    StageTarget \/ DisplaceLive \/ PlaceStaged \/ UndoPlaced
                    \/ RestoreBackup
             PROVE  ContentsAgree'
  OBVIOUS
<1>0. /\ TypeOK /\ PhaseAgrees /\ RemovalAgrees /\ SidecarsAgree /\ ContentsAgree
      /\ FilesType /\ cur \in Targets
  BY DEF ContentsInv, RemovalInv, Inv, TypeOK, ControlType
<1>1. /\ journal' = journal
      /\ pc \in {"stage"} \union CommitSteps \union {"undo", "restore"}
  BY DEF StageTarget, DisplaceLive, PlaceStaged, UndoPlaced, RestoreBackup,
         CommitSteps
<1>2. ~Recorded /\ ~Recorded'
  <2>1. ~Recorded
    BY <1>0, <1>1 DEF RemovalAgrees, RemovalReady, PhaseAgrees, RewindSteps,
       PrepareSteps
  <2> QED BY <1>1, <2>1 DEF Recorded
<1>3. pc' # "undo"
  BY DEF StageTarget, DisplaceLive, PlaceStaged, UndoPlaced, RestoreBackup,
         Goto, Retain, NextStaging, control
<1>4. \A t \in Targets : side'[S(t)] \in {"absent", "partial", "new"}
  <2>1. CASE StageTarget
    BY <1>0, <2>1, SidecarPaths, SidecarsDistinct
    DEF StageTarget, ContentsAgree, FilesType
  <2>2. CASE DisplaceLive
    BY <1>0, <2>2, SidecarPaths, SidecarsDistinct
    DEF DisplaceLive, MoveOut, ContentsAgree, FilesType
  <2>3. CASE PlaceStaged
    BY <1>0, <2>3, SidecarPaths, SidecarsDistinct
    DEF PlaceStaged, MoveIn, ContentsAgree, FilesType
  <2>4. CASE UndoPlaced
    BY <1>0, <2>4, SidecarPaths, SidecarsDistinct
    DEF UndoPlaced, MoveOut, ContentsAgree, FilesType
  <2>5. CASE RestoreBackup
    BY <1>0, <2>5, SidecarPaths, SidecarsDistinct
    DEF RestoreBackup, MoveIn, ContentsAgree, FilesType
  <2> QED BY <2>1, <2>2, <2>3, <2>4, <2>5
<1> QED BY <1>2, <1>3, <1>4 DEF ContentsAgree

\* Steps of the discard.
LEMMA DiscardKeepsContents ==
  ContentsInv /\ (RecordSidecars
                  \/ \E s \in Sidecars : TombSidecar(s) \/ SaveTombed(s)
                                         \/ RemoveTomb(s) \/ SaveRemoved(s))
    => ContentsAgree'
<1> SUFFICES ASSUME ContentsInv,
                    RecordSidecars
                    \/ \E s \in Sidecars : TombSidecar(s) \/ SaveTombed(s)
                                           \/ RemoveTomb(s) \/ SaveRemoved(s)
             PROVE  ContentsAgree'
  OBVIOUS
<1>0. /\ TypeOK /\ PhaseAgrees /\ RemovalAgrees /\ SidecarsAgree /\ ContentsAgree
      /\ FilesType /\ journal \in Journals
  BY DEF ContentsInv, RemovalInv, Inv, TypeOK
<1>1. CASE RecordSidecars
  <2>1. CASE ~(\A s \in Sidecars : side[s] \in Allowed(s) /\ tomb[s] = "absent")
    <3>1. UNCHANGED <<side, tomb, journal>> /\ pc' = "idle"
      BY <1>1, <2>1 DEF RecordSidecars, files, Retain
    <3> QED BY <1>0, <3>1 DEF ContentsAgree, Recorded
  <2>2. CASE \A s \in Sidecars : side[s] \in Allowed(s) /\ tomb[s] = "absent"
    <3>1. /\ UNCHANGED <<side, tomb>> /\ pc' = "discard"
          /\ journal'.phase = journal.phase /\ journal'.backup = journal.backup
      BY <1>0, <1>1, <2>2 DEF RecordSidecars, files, Goto, Journals
    <3>2. \A t \in Targets :
            /\ tomb[S(t)] = "absent" /\ tomb[B(t)] = "absent" /\ tomb[R(t)] = "absent"
            /\ side[S(t)] \in Allowed(S(t)) /\ side[B(t)] \in Allowed(B(t))
            /\ side[R(t)] \in Allowed(R(t))
      BY <2>2, SidecarPaths
    <3>3. \A t \in Targets :
            /\ Allowed(R(t)) = {"absent"} \/ Allowed(R(t)) = {"absent", Desired(t)}
            /\ journal.phase = "cleanup" =>
                 /\ Allowed(R(t)) = {"absent"} /\ Allowed(S(t)) = {"absent"}
                 /\ Allowed(B(t)) = {journal.backup[t]}
      BY DEF Allowed, R, S, B
    <3>4. \A t \in Targets : Desired(t) \in {"absent", "new"}
      BY <1>0 DEF TypeOK, Plans, Desired
    <3>5. \A t \in Targets : side[R(t)] \in {"absent", "new"}
      BY <3>2, <3>3, <3>4
    <3> QED BY <1>0, <3>1, <3>2, <3>3, <3>5 DEF ContentsAgree
  <2> QED BY <2>1, <2>2
<1>2. ASSUME NEW s \in Sidecars, TombSidecar(s) \/ RemoveTomb(s)
      PROVE  ContentsAgree'
  <2>1. journal' = journal /\ pc' = "discard" /\ Recorded
    BY <1>0, <1>2 DEF TombSidecar, RemoveTomb, Discarding, control, RemovalAgrees
  <2>2. \A r \in Sidecars :
          \/ side'[r] = side[r] /\ tomb'[r] = tomb[r]
          \/ side'[r] = "absent" /\ tomb'[r] \in {side[r], "absent"}
    <3>1. CASE TombSidecar(s)
      BY <1>0, <3>1 DEF TombSidecar, FilesType
    <3>2. CASE RemoveTomb(s)
      BY <1>0, <3>2 DEF RemoveTomb, FilesType
    <3> QED BY <1>2, <3>1, <3>2
  <2>3. ASSUME NEW t \in Targets
        PROVE  /\ side'[S(t)] \in {"absent", "partial", "new"}
               /\ journal.phase # "cleanup" =>
                    /\ tomb'[S(t)] \in {"absent", "partial", "new"}
                    /\ side'[R(t)] \in {"absent", "new"}
                    /\ tomb'[R(t)] \in {"absent", "new"}
               /\ journal.phase = "cleanup" =>
                    /\ side'[S(t)] = "absent" /\ tomb'[S(t)] = "absent"
                    /\ side'[R(t)] = "absent" /\ tomb'[R(t)] = "absent"
                    /\ side'[B(t)] \in {"absent", journal.backup[t]}
                    /\ tomb'[B(t)] \in {"absent", journal.backup[t]}
    BY <1>0, <2>1, <2>2, SidecarPaths DEF ContentsAgree
  <2> QED BY <2>1, <2>3 DEF ContentsAgree
<1>3. ASSUME NEW s \in Sidecars, SaveTombed(s) \/ SaveRemoved(s)
      PROVE  ContentsAgree'
  <2>1. /\ UNCHANGED <<side, tomb>> /\ pc' = "discard" /\ Recorded
        /\ journal'.phase = journal.phase /\ journal'.backup = journal.backup
    BY <1>0, <1>3, SaveEffects, StateNames
    DEF SaveTombed, SaveRemoved, Discarding, control, files, RemovalAgrees
  <2> QED BY <1>0, <2>1 DEF ContentsAgree
<1> QED BY <1>1, <1>2, <1>3

LEMMA NextContents == ContentsInv /\ [Next]_vars => ContentsInv'
<1>1. ContentsInv /\ [Next]_vars => ContentsAgree'
  BY StepKinds, SavesKeepContents, MovesKeepContents, DiscardKeepsContents
  DEF PrepareStep
<1> QED BY <1>1, NextRemoval DEF ContentsInv

LEMMA SpecContents == Spec => []ContentsInv
<1>1. Init => ContentsInv
  BY InitInv, InitRemoval, InitContents DEF ContentsInv, RemovalInv
<1> QED
  BY <1>1, NextContents, PTL DEF Spec

\* Counting copies: a target whose files stay keeps its copies, a rename into an
\* empty place keeps them, and so does staging.
LEMMA CopiesFrame ==
  ASSUME NEW u \in Targets, live'[u] = live[u],
         side'[S(u)] = side[S(u)], side'[B(u)] = side[B(u)], side'[R(u)] = side[R(u)],
         tomb'[S(u)] = tomb[S(u)], tomb'[B(u)] = tomb[B(u)], tomb'[R(u)] = tomb[R(u)]
  PROVE  \A c \in UserBytes : Copies(u, c)' = Copies(u, c)
BY DEF Copies

CopiesKept == \A u \in Targets, c \in UserBytes : Copies(u, c)' = Copies(u, c)

LEMMA RenameKeepsCopies ==
  ASSUME FilesType, NEW t \in Targets, NEW s \in {S(t), B(t), R(t)},
         UNCHANGED tomb,
         \/ MoveOut(t, s) /\ side[s] = "absent"
         \/ MoveIn(s, t) /\ live[t] = "absent"
  PROVE  CopiesKept
<1> USE SidecarPaths, SidecarsDistinct
<1>1. /\ \A u \in Targets : u # t => live'[u] = live[u]
      /\ \A r \in Sidecars : r # s => side'[r] = side[r]
      /\ \/ live'[t] = "absent" /\ side'[s] = live[t] /\ side[s] = "absent"
         \/ live'[t] = side[s] /\ side'[s] = "absent" /\ live[t] = "absent"
  BY DEF MoveOut, MoveIn, FilesType
<1>2. ASSUME NEW u \in Targets, u # t, NEW c \in UserBytes
      PROVE  Copies(u, c)' = Copies(u, c)
  BY <1>1, <1>2, CopiesFrame
<1>3. ASSUME NEW c \in UserBytes PROVE Copies(t, c)' = Copies(t, c)
  <2>1. c # "absent"
    BY DEF UserBytes
  <2>2. Is(live'[t] = c) + Is(side'[s] = c) = Is(live[t] = c) + Is(side[s] = c)
    BY <1>1, <2>1 DEF Is
  <2>3. CASE s = S(t)
    BY <1>1, <2>2, <2>3 DEF Copies, Is
  <2>4. CASE s = B(t)
    BY <1>1, <2>2, <2>4 DEF Copies, Is
  <2>5. CASE s = R(t)
    BY <1>1, <2>2, <2>5 DEF Copies, Is
  <2> QED BY <2>3, <2>4, <2>5
<1> QED BY <1>2, <1>3 DEF CopiesKept

\* A step of one sidecar and its tomb that keeps what the two hold of a content.
LEMMA TombKeepsCopies ==
  ASSUME NEW t \in Targets, NEW s \in {S(t), B(t), R(t)}, NEW c \in UserBytes,
         UNCHANGED live,
         \A r \in Sidecars : r # s => side'[r] = side[r] /\ tomb'[r] = tomb[r],
         Is(side'[s] = c) + Is(tomb'[s] = c) = Is(side[s] = c) + Is(tomb[s] = c)
  PROVE  \A u \in Targets : Copies(u, c)' = Copies(u, c)
<1> USE SidecarPaths, SidecarsDistinct
<1>1. ASSUME NEW u \in Targets, u # t PROVE Copies(u, c)' = Copies(u, c)
  BY <1>1, CopiesFrame
<1>2. Copies(t, c)' = Copies(t, c)
  <2>1. CASE s = S(t)
    BY <2>1 DEF Copies, Is
  <2>2. CASE s = B(t)
    BY <2>2 DEF Copies, Is
  <2>3. CASE s = R(t)
    BY <2>3 DEF Copies, Is
  <2> QED BY <2>1, <2>2, <2>3
<1> QED BY <1>1, <1>2

\* No step of the engine but the deletion of a tomb changes how many copies of a
\* user's bytes there are.
LEMMA EngineKeepsCopies ==
  ContentsInv /\ [Next]_vars =>
    \/ CopiesKept /\ owed' = owed
    \/ \E s \in Sidecars : RemoveTomb(s)
    \/ \E t \in Targets, c \in Contents : Edit(t, c)
<1> SUFFICES ASSUME ContentsInv, [Next]_vars,
                    ~(\E s \in Sidecars : RemoveTomb(s)),
                    ~(\E t \in Targets, c \in Contents : Edit(t, c))
             PROVE  CopiesKept /\ owed' = owed
  OBVIOUS
<1>0. /\ FilesType /\ cur \in Targets /\ ContentsAgree
  BY DEF ContentsInv, RemovalInv, Inv, TypeOK, ControlType
<1>1. CASE UNCHANGED <<files, owed>>
  BY <1>1, CopiesFrame DEF files, CopiesKept
<1>2. ASSUME NEW s \in {S(cur), B(cur), R(cur)}, UNCHANGED tomb,
             \/ MoveOut(cur, s) /\ side[s] = "absent"
             \/ MoveIn(s, cur) /\ live[cur] = "absent"
      PROVE  CopiesKept
  BY <1>0, <1>2, RenameKeepsCopies
<1>3. CASE DisplaceLive
  BY <1>1, <1>2, <1>3 DEF DisplaceLive, history, files
<1>4. CASE PlaceStaged
  BY <1>1, <1>2, <1>4 DEF PlaceStaged, history, files
<1>5. CASE UndoPlaced
  BY <1>0, <1>1, <1>2, <1>5 DEF UndoPlaced, history, files, ContentsAgree
<1>6. CASE RestoreBackup
  BY <1>1, <1>2, <1>6 DEF RestoreBackup, history, files
<1>7. CASE StageTarget
  <2>1. /\ UNCHANGED <<live, tomb, owed>>
        /\ \A r \in Sidecars : r # S(cur) => side'[r] = side[r]
        /\ side'[S(cur)] \in {side[S(cur)], "partial", "new"}
        /\ side[S(cur)] \in {"absent", "partial", "new"}
    BY <1>0, <1>7, SidecarPaths DEF StageTarget, FilesType, ContentsAgree, history
  <2>2. ASSUME NEW c \in UserBytes
        PROVE  Is(side'[S(cur)] = c) = Is(side[S(cur)] = c)
    BY <2>1 DEF Is, UserBytes
  <2>3. \A c \in UserBytes, u \in Targets : Copies(u, c)' = Copies(u, c)
    BY <1>0, <2>1, <2>2, TombKeepsCopies DEF Is
  <2> QED BY <2>1, <2>3 DEF CopiesKept
<1>8. ASSUME NEW s \in Sidecars, TombSidecar(s) PROVE CopiesKept /\ owed' = owed
  <2>1. PICK t \in Targets : s \in {S(t), B(t), R(t)}
    BY SidecarCases
  <2>2. /\ UNCHANGED <<live, owed>>
        /\ \A r \in Sidecars : r # s => side'[r] = side[r] /\ tomb'[r] = tomb[r]
        /\ side'[s] = "absent" /\ tomb'[s] = side[s] /\ tomb[s] = "absent"
    BY <1>0, <1>8 DEF TombSidecar, FilesType, history
  <2>3. \A c \in UserBytes, u \in Targets : Copies(u, c)' = Copies(u, c)
    BY <2>1, <2>2, TombKeepsCopies DEF Is
  <2> QED BY <2>2, <2>3 DEF CopiesKept
<1>9. ASSUME NEW s \in Sidecars, SaveTombed(s) \/ SaveRemoved(s)
      PROVE  CopiesKept /\ owed' = owed
  BY <1>1, <1>9 DEF SaveTombed, SaveRemoved, history
<1>10. CASE Quiet
  BY <1>1, <1>10, QuietKeeps DEF files
<1> QED
  BY <1>1, <1>3, <1>4, <1>5, <1>6, <1>7, <1>8, <1>9, <1>10, StepKinds
  DEF PrepareStep, Prepare, SavePrepared, CommitGuard, Decide, SaveRollingBack,
      Recover, Rollback, AdoptBackup, SaveBackedUp, SaveCommitted, CommitFails,
      RewindPending, RewindAdvanced, SaveRolledBack, RecordSidecars, TombJournal,
      UnlinkJournal, history

\* An edit moves the books with the bytes.
LEMMA EditKeepsBooks ==
  ASSUME TypeOK, NEW t \in Targets, NEW c \in Contents, Edit(t, c),
         NEW b \in UserBytes, \A u \in Targets : Copies(u, b) = owed[u][b]
  PROVE  \A u \in Targets : Copies(u, b)' = owed'[u][b]
<1>1. /\ UNCHANGED <<side, tomb>> /\ live'[t] = c
      /\ \A u \in Targets : u # t => live'[u] = live[u] /\ owed'[u] = owed[u]
      /\ owed'[t] = [d \in UserBytes |-> owed[t][d] + (IF c = d THEN 1 ELSE 0)
                                           - (IF live[t] = d THEN 1 ELSE 0)]
  BY DEF TypeOK, FilesType, HistoryType, Edit
<1>2. ASSUME NEW u \in Targets, u # t PROVE Copies(u, b)' = owed'[u][b]
  BY <1>1, <1>2, CopiesFrame
<1>3. Copies(t, b)' = owed'[t][b]
  <2>1. owed'[t][b] = owed[t][b] + Is(c = b) - Is(live[t] = b)
    BY <1>1 DEF Is
  <2>2. Copies(t, b)' = Copies(t, b) + Is(c = b) - Is(live[t] = b)
    BY <1>1 DEF Copies, Is
  <2> QED BY <2>1, <2>2
<1> QED BY <1>2, <1>3

\* The deletion of a tomb destroys nothing but what csk staged or withdrew, and the
\* displaced preimages of a committed transaction.
LEMMA RemoveTombKeeps ==
  ASSUME ContentsInv, NEW s \in Sidecars, RemoveTomb(s), NEW b \in UserBytes,
         journal.phase = "cleanup" => \A t \in Targets : journal.backup[t] # b
  PROVE  owed' = owed /\ \A u \in Targets : Copies(u, b)' = Copies(u, b)
<1>0. /\ FilesType /\ ContentsAgree /\ RemovalAgrees /\ SidecarsAgree
  BY DEF ContentsInv, RemovalInv, Inv, TypeOK
<1>1. PICK t \in Targets : s \in {S(t), B(t), R(t)}
  BY SidecarCases
<1>2. /\ UNCHANGED <<live, side, owed>> /\ pc = "discard"
      /\ \A r \in Sidecars : r # s => side'[r] = side[r] /\ tomb'[r] = tomb[r]
      /\ tomb'[s] = "absent" /\ tomb[s] # "absent"
  BY <1>0 DEF RemoveTomb, FilesType, history, Discarding
<1>3. Recorded
  BY <1>0, <1>2 DEF RemovalAgrees
<1>4. tomb[s] # b
  BY <1>0, <1>1, <1>2, <1>3, SidecarPaths DEF ContentsAgree, SidecarsAgree, UserBytes
<1>5. Is(side'[s] = b) + Is(tomb'[s] = b) = Is(side[s] = b) + Is(tomb[s] = b)
  BY <1>2, <1>4 DEF Is, UserBytes
<1> QED BY <1>1, <1>2, <1>5, TombKeepsCopies

\* The verdict of a committed transaction stands.
LEMMA CommitStands == Inv /\ [Next]_vars /\ verdict = "commit" => verdict' = "commit"
<1> SUFFICES ASSUME Inv, [Next]_vars, verdict = "commit" PROVE verdict' = "commit"
  OBVIOUS
<1>1. CASE Quiet
  BY <1>1, QuietKeeps
<1> QED
  BY <1>1, StepKinds
  DEF Inv, PhaseAgrees, PrepareStep, Prepare, StageTarget, SavePrepared, CommitGuard,
      Decide, SaveRollingBack,
      Recover, Rollback, AdoptBackup, SaveBackedUp, SaveCommitted, CommitFails,
      RewindPending, RewindAdvanced, SaveRolledBack, RecordSidecars, TombJournal,
      DisplaceLive, PlaceStaged, UndoPlaced, RestoreBackup, TombSidecar,
      SaveTombed, RemoveTomb, SaveRemoved, Edit, UnlinkJournal, history

LEMMA InitBooks ==
  Init => \A t \in Targets, b \in UserBytes : Copies(t, b) = owed[t][b]
<1> SUFFICES ASSUME Init, NEW t \in Targets, NEW b \in UserBytes
             PROVE  Copies(t, b) = owed[t][b]
  OBVIOUS
<1>1. /\ live[t] = plan.expected[t] /\ b # "absent"
      /\ owed[t][b] = IF plan.expected[t] = b THEN 1 ELSE 0
      /\ \A s \in Sidecars : side[s] = "absent" /\ tomb[s] = "absent"
  BY DEF Init, UserBytes
<1> QED BY <1>1, SidecarPaths DEF Copies, Is

\* Until the commit point no preimage is lost, nor any other entry a user put where
\* one was: _rollback restores what _commit_target displaced, or leaves it in its
\* backup.  For any number of crashes, faults and edits.
THEOREM PreimageTheorem == Spec => []PreimageKept
<1>1. Init => PreimageKept
  BY InitBooks DEF PreimageKept, UserBytes
<1>2. ContentsInv /\ PreimageKept /\ [Next]_vars => PreimageKept'
  <2> SUFFICES ASSUME ContentsInv, PreimageKept, [Next]_vars, verdict' # "commit"
               PROVE  \A t \in Targets : Copies(t, "old")' = owed'[t]["old"]
    BY DEF PreimageKept
  <2>1. Inv /\ TypeOK /\ PhaseAgrees
    BY DEF ContentsInv, RemovalInv, Inv
  <2>2. verdict # "commit"
    BY <2>1, CommitStands
  <2>3. \A t \in Targets : Copies(t, "old") = owed[t]["old"]
    BY <2>2 DEF PreimageKept
  <2>4. "old" \in UserBytes /\ journal.phase # "cleanup"
    BY <2>1, <2>2 DEF UserBytes, PhaseAgrees
  <2>5. CASE CopiesKept /\ owed' = owed
    BY <2>3, <2>4, <2>5 DEF CopiesKept
  <2>6. ASSUME NEW s \in Sidecars, RemoveTomb(s)
        PROVE  \A t \in Targets : Copies(t, "old")' = owed'[t]["old"]
    BY <2>3, <2>4, <2>6, RemoveTombKeeps
  <2>7. ASSUME NEW u \in Targets, NEW c \in Contents, Edit(u, c)
        PROVE  \A t \in Targets : Copies(t, "old")' = owed'[t]["old"]
    BY <2>1, <2>3, <2>4, <2>7, EditKeepsBooks
  <2> QED BY <2>5, <2>6, <2>7, EngineKeepsCopies
<1> QED
  BY <1>1, <1>2, SpecContents, PTL DEF Spec

\* What the commit loop takes for a preimage is the planned one, unless a user has
\* written the path three times while it looked: once before it read the path, once
\* before it compared, and once before it renamed.
EditsAgree ==
  /\ spent.edit = 0 => /\ \A t \in Targets : live[t] # "foreign"
                       /\ \A s \in Sidecars : side[s] # "foreign"
  /\ seen = "foreign" =>
       /\ pc = "verify" =>
            spent.edit >= 1 /\ (live[cur] # "foreign" => spent.edit >= 2)
       /\ pc = "displace" =>
            spent.edit >= 2 /\ (live[cur] = "foreign" => spent.edit >= 3)
       /\ pc = "captured" /\ side[B(cur)] = "foreign" => spent.edit >= 3
  /\ \A t \in Targets : journal.backup[t] = "foreign" => spent.edit >= 3

EditsInv == ContentsInv /\ EditsAgree

LEMMA InitEdits == Init => EditsAgree
<1> SUFFICES ASSUME Init PROVE EditsAgree
  OBVIOUS
<1>1. \A t \in Targets : live[t] # "foreign"
  BY DEF Init, Plans
<1>2. \A s \in Sidecars : side[s] # "foreign"
  BY DEF Init
<1>3. \A t \in Targets : journal.backup[t] # "foreign"
  BY DEF Init, NoJournal
<1>4. seen = "absent"
  BY DEF Init
<1> QED
  BY <1>1, <1>2, <1>3, <1>4 DEF EditsAgree

\* Only an edit counts as one.
LEMMA EditCount ==
  TypeOK /\ [Next]_vars =>
    \/ UNCHANGED <<spent.edit, spent.touched>>
    \/ \E t \in Targets, c \in Contents : Edit(t, c)
<1> SUFFICES ASSUME TypeOK, [Next]_vars PROVE
    \/ UNCHANGED <<spent.edit, spent.touched>>
    \/ \E t \in Targets, c \in Contents : Edit(t, c)
  OBVIOUS
<1> USE DEF TypeOK, Budgets
<1>1. CASE UNCHANGED spent
  BY <1>1
<1>2. CASE Crash \/ PrepareFails \/ CommitFails \/ StepFails \/ MoveBoundary
  BY <1>2 DEF Crash, PrepareFails, CommitFails, StepFails, MoveBoundary
<1>3. CASE Quiet /\ ~(Crash \/ PrepareFails \/ StepFails \/ MoveBoundary)
  BY <1>1, <1>3 DEF Quiet, Commit, ReadLive, VerifyPreimage, InspectBackedUp,
     CheckCommitted, HookRefusesForward, SkipTarget, VerifyCommitted, BeginRemoval,
     RestoreBoundary, vars, env
<1> QED
  BY <1>1, <1>2, <1>3, StepKinds
  DEF PrepareStep, Prepare, StageTarget, SavePrepared, CommitGuard, Decide,
      SaveRollingBack, Recover, Rollback, AdoptBackup, SaveBackedUp, SaveCommitted,
      RewindPending, RewindAdvanced, SaveRolledBack, RecordSidecars, TombJournal,
      DisplaceLive, PlaceStaged, UndoPlaced, RestoreBackup, TombSidecar,
      SaveTombed, RemoveTomb, SaveRemoved, UnlinkJournal, env

\* Without an edit, foreign bytes do not come from nowhere.
LEMMA ForeignStays ==
  ASSUME ContentsInv, [Next]_vars, spent'.edit = spent.edit,
         \A t \in Targets : live[t] # "foreign",
         \A s \in Sidecars : side[s] # "foreign"
  PROVE  /\ \A t \in Targets : live'[t] # "foreign"
         /\ \A s \in Sidecars : side'[s] # "foreign"
<1>0. FilesType /\ cur \in Targets /\ spent \in Budgets
  BY DEF ContentsInv, RemovalInv, Inv, TypeOK, ControlType
<1>1. CASE UNCHANGED <<live, side>>
  BY <1>1
<1>2. ASSUME NEW s \in Sidecars, MoveOut(cur, s) \/ MoveIn(s, cur)
      PROVE  /\ \A t \in Targets : live'[t] # "foreign"
             /\ \A r \in Sidecars : side'[r] # "foreign"
  BY <1>0, <1>2 DEF MoveOut, MoveIn, FilesType
<1>3. CASE DisplaceLive \/ PlaceStaged \/ UndoPlaced \/ RestoreBackup
  BY <1>0, <1>1, <1>2, <1>3, SidecarPaths
  DEF DisplaceLive, PlaceStaged, UndoPlaced, RestoreBackup
<1>4. CASE StageTarget
  BY <1>0, <1>4, SidecarPaths DEF StageTarget, FilesType
<1>5. ASSUME NEW s \in Sidecars, TombSidecar(s) \/ RemoveTomb(s)
      PROVE  /\ \A t \in Targets : live'[t] # "foreign"
             /\ \A r \in Sidecars : side'[r] # "foreign"
  BY <1>0, <1>5 DEF TombSidecar, RemoveTomb, FilesType
<1>6. ASSUME NEW t \in Targets, NEW c \in Contents, Edit(t, c) PROVE FALSE
  BY <1>0, <1>6 DEF Edit, Budgets
<1>7. CASE Quiet
  BY <1>1, <1>7, QuietKeeps
<1> QED
  BY <1>1, <1>3, <1>4, <1>5, <1>6, <1>7, StepKinds
  DEF PrepareStep, Prepare, SavePrepared, CommitGuard, Decide,
      SaveRollingBack, Recover, Rollback, AdoptBackup, SaveBackedUp, SaveCommitted,
      CommitFails, RewindPending, RewindAdvanced, SaveRolledBack, RecordSidecars,
      TombJournal, SaveTombed, SaveRemoved, UnlinkJournal, files

LEMMA NextEdits == EditsInv /\ [Next]_vars => EditsAgree'
<1> SUFFICES ASSUME EditsInv, [Next]_vars PROVE EditsAgree'
  OBVIOUS
<1>0. /\ ContentsInv /\ EditsAgree /\ TypeOK /\ FilesType /\ journal \in Journals
      /\ cur \in Targets /\ spent \in Budgets /\ spent.edit \in Nat
  BY DEF EditsInv, ContentsInv, RemovalInv, Inv, TypeOK, ControlType, Budgets
<1>1. ASSUME NEW t \in Targets, NEW c \in Contents, Edit(t, c) PROVE EditsAgree'
  <2>1. /\ spent'.edit = spent.edit + 1
        /\ UNCHANGED <<side, journal, pc, cur, seen>>
        /\ \A u \in Targets : u # t => live'[u] = live[u]
    BY <1>0, <1>1 DEF Edit, Budgets, FilesType, control
  <2> QED BY <1>0, <2>1 DEF EditsAgree
<1>2. CASE UNCHANGED <<spent.edit, spent.touched>>
  <2>0. spent'.edit = spent.edit
    BY <1>2
  <2>1. spent'.edit = 0 => /\ \A t \in Targets : live'[t] # "foreign"
                           /\ \A s \in Sidecars : side'[s] # "foreign"
    BY <1>0, <2>0, ForeignStays DEF EditsAgree
  <2> DEFINE Look ==
        seen = "foreign" =>
          /\ pc = "verify" =>
               spent.edit >= 1 /\ (live[cur] # "foreign" => spent.edit >= 2)
          /\ pc = "displace" =>
               spent.edit >= 2 /\ (live[cur] = "foreign" => spent.edit >= 3)
          /\ pc = "captured" /\ side[B(cur)] = "foreign" => spent.edit >= 3
  <2>2. Look'
    <3>1. CASE pc' \notin {"verify", "displace", "captured"}
      BY <3>1
    <3>2. CASE UNCHANGED <<live, side, pc, cur, seen>>
      BY <1>0, <2>0, <3>2 DEF EditsAgree
    <3>3. CASE ReadLive
      <4>1. /\ live' = live /\ cur' = cur /\ seen' = live[cur] /\ pc' = "verify"
        BY <3>3 DEF ReadLive, files
      <4>2. live[cur] = "foreign" => spent.edit >= 1
        BY <1>0 DEF EditsAgree
      <4> QED BY <2>0, <4>1, <4>2
    <3>4. CASE VerifyPreimage
      <4>1. Expected(cur) # "foreign"
        BY <1>0 DEF TypeOK, Plans, Expected
      <4> QED BY <1>0, <2>0, <3>4, <4>1 DEF VerifyPreimage, EditsAgree, files, Goto
    <3>5. CASE DisplaceLive
      BY <1>0, <2>0, <3>5, SidecarPaths
      DEF DisplaceLive, MoveOut, EditsAgree, FilesType, Goto
    <3>6. CASE Quiet /\ ~ReadLive /\ ~VerifyPreimage
      BY <3>1, <3>2, <3>6
      DEF Quiet, PrepareFails, Commit, InspectBackedUp, CheckCommitted,
          HookRefusesForward, SkipTarget, VerifyCommitted, BeginRemoval, Crash,
          StepFails, MoveBoundary, RestoreBoundary, vars, control, files, Goto,
          Retain, NextForward, NextBackward
    <3>7. CASE ~Quiet /\ ~DisplaceLive
               /\ ~(\E t \in Targets, c \in Contents : Edit(t, c))
      <4>1. CASE PrepareStep \/ CommitGuard \/ Decide \/ SaveRollingBack
                 \/ Recover \/ Rollback
        BY <4>1, <3>1 DEF PrepareStep, Prepare, StageTarget, SavePrepared,
           CommitGuard, Decide, SaveRollingBack, Recover, Rollback, Goto, Retain,
           NextStaging, control
      <4>2. CASE AdoptBackup \/ SaveBackedUp \/ SaveCommitted \/ CommitFails
        BY <4>2, <3>1 DEF AdoptBackup, SaveBackedUp, SaveCommitted, CommitFails,
           Goto, Retain, NextForward, control
      <4>3. CASE RewindPending \/ RewindAdvanced \/ SaveRolledBack
                 \/ PlaceStaged \/ UndoPlaced \/ RestoreBackup
        BY <4>3, <3>1 DEF RewindPending, RewindAdvanced, SaveRolledBack, PlaceStaged,
           UndoPlaced, RestoreBackup, Goto, Retain, NextBackward
      <4>4. CASE RecordSidecars \/ TombJournal \/ UnlinkJournal
        BY <4>4, <3>1 DEF RecordSidecars, TombJournal, UnlinkJournal, Goto, Retain
      <4>5. ASSUME NEW s \in Sidecars,
                   TombSidecar(s) \/ SaveTombed(s) \/ RemoveTomb(s) \/ SaveRemoved(s)
            PROVE  Look'
        BY <4>5, <3>1 DEF TombSidecar, SaveTombed, RemoveTomb, SaveRemoved,
           Discarding, control
      <4> QED BY <3>7, <4>1, <4>2, <4>3, <4>4, <4>5, StepKinds
    <3> QED BY <1>1, <3>3, <3>4, <3>5, <3>6, <3>7 DEF EditsAgree
  <2>3. \A t \in Targets : journal'.backup[t] = "foreign" => spent.edit >= 3
    <3> USE SaveEffects, StateNames, Contained, SidecarPaths, <1>0
    <3>1. CASE \A t \in Targets :
                 journal'.backup[t] \in {journal.backup[t], "none", "absent", "old"}
      BY <3>1 DEF EditsAgree
    <3>2. CASE Quiet \/ TombJournal \/ DisplaceLive \/ PlaceStaged \/ UndoPlaced
               \/ RestoreBackup \/ StageTarget
      BY <3>1, <3>2, QuietKeeps DEF TombJournal, DisplaceLive, PlaceStaged,
         UndoPlaced, RestoreBackup, StageTarget
    <3>3. CASE Prepare \/ UnlinkJournal
      BY <3>1, <3>3 DEF Prepare, UnlinkJournal, NoJournal
    <3>4. CASE SavePrepared \/ CommitGuard \/ Decide \/ SaveRollingBack
               \/ Recover \/ Rollback
      BY <3>1, <3>4 DEF SavePrepared, CommitGuard, Decide, SaveRollingBack, Recover,
         Rollback
    <3>5. CASE AdoptBackup \/ RewindPending
      <4>1. Expected(cur) \in {"absent", "old"}
        BY DEF TypeOK, Plans, Expected
      <4> QED BY <3>1, <3>5, <4>1 DEF AdoptBackup, RewindPending
    <3>6. CASE SaveBackedUp
      <4>1. seen \in Bytes
        BY DEF TypeOK, ControlType
      <4>2. CASE SaveBackup(cur, seen) /\ (seen = "absent" \/ side[B(cur)] = seen)
        <5>1. \A t \in Targets : t # cur => journal'.backup[t] = journal.backup[t]
          BY <4>1, <4>2
        <5>2. journal'.backup[cur] = seen
          BY <4>1, <4>2
        <5>3. seen = "foreign" => spent.edit >= 3
          BY <3>6, <4>2 DEF SaveBackedUp, EditsAgree
        <5> QED BY <5>1, <5>2, <5>3 DEF EditsAgree
      <4>3. CASE journal' = journal
        BY <3>1, <4>3
      <4> QED BY <3>6, <4>2, <4>3 DEF SaveBackedUp
    <3>7. CASE SaveCommitted \/ CommitFails \/ RewindAdvanced \/ SaveRolledBack
      <4>1. journal' = journal
            \/ \E x \in TargetStates : SaveState(cur, x)
        BY <3>7 DEF SaveCommitted, CommitFails, RewindAdvanced, SaveRolledBack
      <4>2. journal' = journal => journal'.backup = journal.backup
        OBVIOUS
      <4>3. \A x \in TargetStates :
              SaveState(cur, x) => journal'.backup = journal.backup
        BY <1>0, SaveEffects
      <4>4. journal'.backup = journal.backup
        BY <4>1, <4>2, <4>3
      <4> QED BY <3>1, <4>4
    <3>8. CASE RecordSidecars
      <4>1. journal'.backup = journal.backup
        BY <3>8, RecordEffects
      <4> QED BY <3>1, <4>1
    <3>9. ASSUME NEW s \in Sidecars,
                 TombSidecar(s) \/ SaveTombed(s) \/ RemoveTomb(s) \/ SaveRemoved(s)
          PROVE  \A t \in Targets : journal'.backup[t] = "foreign" => spent.edit >= 3
      BY <3>1, <3>9 DEF TombSidecar, SaveTombed, RemoveTomb, SaveRemoved
    <3>10. CASE \E t \in Targets, c \in Contents : Edit(t, c)
      BY <3>1, <3>10 DEF Edit
    <3> QED BY <3>2, <3>3, <3>4, <3>5, <3>6, <3>7, <3>8, <3>9, <3>10, StepKinds
            DEF PrepareStep
  <2> QED BY <2>0, <2>1, <2>2, <2>3 DEF EditsAgree
<1> QED BY <1>0, <1>1, <1>2, EditCount

\* Bytes csk never saw survive every interleaving with up to two writes by users,
\* of the same path or of several: what a rename captured is compared with what was
\* read, and only the planned preimage is ever thrown away (_commit_target,
\* _rollback_target).  With a third write the comparison can be deceived.
THEOREM UserBytesTheorem == Spec => [](spent.edit <= 2 => UserBytesKept)
<1> DEFINE Kept == spent.edit <= 2 => UserBytesKept
<1>1. Init => EditsInv /\ Kept
  BY InitInv, InitRemoval, InitContents, InitEdits, InitBooks
  DEF EditsInv, ContentsInv, RemovalInv, UserBytesKept, UserBytes
<1>2. EditsInv /\ Kept /\ [Next]_vars => EditsInv' /\ Kept'
  <2> SUFFICES ASSUME EditsInv, Kept, [Next]_vars, spent'.edit <= 2
               PROVE  \A t \in Targets : Copies(t, "foreign")' = owed'[t]["foreign"]
    BY NextContents, NextEdits DEF EditsInv, UserBytesKept
  <2>1. /\ ContentsInv /\ EditsAgree /\ TypeOK /\ spent.edit \in Nat
        /\ "foreign" \in UserBytes
    BY DEF EditsInv, ContentsInv, RemovalInv, Inv, TypeOK, Budgets, UserBytes
  <2>2. ASSUME NEW u \in Targets, NEW c \in Contents, Edit(u, c)
        PROVE  \A t \in Targets : Copies(t, "foreign")' = owed'[t]["foreign"]
    <3>1. spent'.edit = spent.edit + 1
      BY <2>1, <2>2 DEF Edit, TypeOK, Budgets
    <3>2. \A t \in Targets : Copies(t, "foreign") = owed[t]["foreign"]
      BY <2>1, <3>1 DEF UserBytesKept
    <3> QED BY <2>1, <2>2, <3>2, EditKeepsBooks
  <2>3. CASE UNCHANGED <<spent.edit, spent.touched>>
    <3>1. \A t \in Targets : Copies(t, "foreign") = owed[t]["foreign"]
      BY <2>3 DEF UserBytesKept
    <3>2. CASE CopiesKept /\ owed' = owed
      BY <2>1, <3>1, <3>2 DEF CopiesKept
    <3>3. ASSUME NEW s \in Sidecars, RemoveTomb(s)
          PROVE  \A t \in Targets : Copies(t, "foreign")' = owed'[t]["foreign"]
      <4>1. \A t \in Targets : journal.backup[t] # "foreign"
        BY <2>1, <2>3 DEF EditsAgree
      <4> QED BY <2>1, <3>1, <3>3, <4>1, RemoveTombKeeps
    <3> QED BY <2>1, <2>2, <3>2, <3>3, EngineKeepsCopies
  <2> QED BY <2>1, <2>2, <2>3, EditCount
<1>3. Kept => (spent.edit <= 2 => UserBytesKept)
  OBVIOUS
<1> QED
  BY <1>1, <1>2, <1>3, PTL DEF Spec

-----------------------------------------------------------------------------
(* All of the plan or nothing.                                              *)

\* How far the forward loop has come, and which states a phase allows.
LoopAgrees ==
  /\ \A t \in Targets : State(t) = "rolled_back" => journal.phase = "rolling_back"
  /\ journal.phase \in {"none", "preparing", "prepared"} =>
       \A t \in Targets : State(t) = "pending"
  /\ journal.phase = "cleanup" => \A t \in Targets : State(t) = "committed"
  /\ pc \in CommitSteps => \A t \in Targets : t < cur => State(t) = "committed"
  /\ pc = "decide" => \A t \in Targets : State(t) = "committed"
  /\ pc \in {"verify", "displace", "captured"} => State(cur) = "pending"
  /\ pc \in {"place", "placed"} => State(cur) = "backed_up"
  /\ pc = "place" => side[S(cur)] = Desired(cur)

\* Where the entries of a target are that only csk has written, by the state the
\* journal gives it.
TargetAgrees(t) ==
  /\ verdict = "commit" => live[t] = Desired(t)
  /\ verdict # "commit" =>
       /\ State(t) = "pending" =>
            \/ live[t] = Expected(t) /\ side[B(t)] = "absent"
            \/ live[t] = "absent" /\ side[B(t)] = Expected(t)
       /\ State(t) \in {"backed_up", "committed"} =>
            /\ journal.backup[t] = Expected(t)
            /\ \/ side[B(t)] = Expected(t) /\ live[t] \in {"absent", Desired(t)}
               \/ /\ journal.phase = "rolling_back"
                  /\ side[B(t)] = "absent" /\ live[t] = Expected(t)
       /\ State(t) = "committed" /\ journal.phase = "committing" =>
            live[t] = Desired(t)
       /\ State(t) = "rolled_back" => live[t] = Expected(t) /\ side[B(t)] = "absent"

\* What the routine that works on such a target knows of it.
CursorAgrees(t) ==
  /\ pc \in {"verify", "displace", "captured"} => seen = Expected(t)
  /\ pc = "captured" => live[t] = "absent" /\ side[B(t)] = Expected(t)
  /\ pc = "placed" => live[t] = Desired(t)
  /\ pc = "undo" => side[B(t)] = Expected(t) /\ live[t] \in {"absent", Desired(t)}
  /\ pc = "restore" => side[B(t)] = Expected(t) /\ live[t] = "absent"
  /\ pc = "restored" => side[B(t)] = "absent" /\ live[t] = Expected(t)

UntouchedAgree ==
  \A t \in Targets \ spent.touched : TargetAgrees(t) /\ (t = cur => CursorAgrees(t))

OutcomeInv == RemovalInv /\ LoopAgrees /\ UntouchedAgree

LEMMA InitOutcome == Init => LoopAgrees /\ UntouchedAgree
<1> SUFFICES ASSUME Init PROVE LoopAgrees /\ UntouchedAgree
  OBVIOUS
<1>1. LoopAgrees
  BY DEF Init, LoopAgrees, NoJournal, CommitSteps, State
<1>2. UntouchedAgree
  BY SidecarPaths DEF Init, UntouchedAgree, TargetAgrees, CursorAgrees, NoJournal,
     State, Expected, Desired
<1> QED BY <1>1, <1>2

LEMMA QuietLoop == OutcomeInv /\ Quiet => LoopAgrees'
<1> SUFFICES ASSUME OutcomeInv, Quiet PROVE LoopAgrees'
  OBVIOUS
<1>0. /\ LoopAgrees /\ PhaseAgrees /\ cur \in Targets /\ cur \in Int
      /\ UNCHANGED <<plan, live, side, journal>>
  BY QuietKeeps DEF OutcomeInv, RemovalInv, Inv, TypeOK, ControlType, Targets
<1> USE DEF LoopAgrees, PhaseAgrees, State, Desired, CommitSteps, PrepareSteps,
            RewindSteps, RemoveSteps, ForwardSteps, Goto, Retain
<1>1. CASE PrepareFails \/ Commit \/ Crash \/ StepFails
  BY <1>0, <1>1 DEF PrepareFails, Commit, Crash, StepFails
<1>2. CASE ReadLive
  BY <1>0, <1>2 DEF ReadLive
<1>3. CASE VerifyPreimage
  BY <1>0, <1>3 DEF VerifyPreimage
<1>4. CASE InspectBackedUp
  BY <1>0, <1>4 DEF InspectBackedUp
<1>5. CASE CheckCommitted
  <2>1. \A t \in Targets : t < cur \/ t = cur => State(t) = "committed"
    BY <1>0, <1>5 DEF CheckCommitted
  <2>2. /\ cur = N => \A t \in Targets : t < cur \/ t = cur
        /\ \A t \in Targets : t < cur + 1 => t < cur \/ t = cur
    BY <1>0, NAssumption DEF Targets
  <2> QED BY <1>0, <1>5, <2>1, <2>2 DEF CheckCommitted, NextForward
<1>6. CASE HookRefusesForward
  BY <1>0, <1>6 DEF HookRefusesForward
<1>7. CASE SkipTarget
  BY <1>0, <1>7 DEF SkipTarget, NextBackward
<1>8. CASE VerifyCommitted \/ BeginRemoval
  BY <1>0, <1>8 DEF VerifyCommitted, BeginRemoval
<1>9. CASE MoveBoundary \/ RestoreBoundary \/ UNCHANGED vars
  BY <1>0, <1>9 DEF MoveBoundary, RestoreBoundary, vars, control
<1> QED BY <1>1, <1>2, <1>3, <1>4, <1>5, <1>6, <1>7, <1>8, <1>9 DEF Quiet

LEMMA PhaseLoop ==
  OutcomeInv /\ (PrepareStep \/ CommitGuard \/ Decide \/ SaveRollingBack \/ Recover
                 \/ Rollback)
    => LoopAgrees'
<1> SUFFICES ASSUME OutcomeInv,
                    PrepareStep \/ CommitGuard \/ Decide \/ SaveRollingBack
                    \/ Recover \/ Rollback
             PROVE  LoopAgrees'
  OBVIOUS
<1>0. /\ LoopAgrees /\ PhaseAgrees /\ journal \in Journals /\ plan' = plan
  BY DEF OutcomeInv, RemovalInv, Inv, TypeOK, PrepareStep, Prepare, StageTarget,
         SavePrepared, CommitGuard, Decide, SaveRollingBack, Recover, Rollback
<1> USE SaveEffects, StateNames
        DEF LoopAgrees, PhaseAgrees, State, Desired, CommitSteps, PrepareSteps,
            RewindSteps, RemoveSteps, ForwardSteps, Goto, Retain
<1>1. CASE Prepare
  BY <1>0, <1>1 DEF Prepare, NoJournal
<1>2. CASE StageTarget
  BY <1>0, <1>2 DEF StageTarget, NextStaging, control
<1>3. CASE SavePrepared
  BY <1>0, <1>3 DEF SavePrepared
<1>4. CASE CommitGuard
  <2>1. \A t \in Targets : ~(t < 1)
    BY DEF Targets
  <2> QED BY <1>0, <1>4, <2>1 DEF CommitGuard
<1>5. CASE Decide
  BY <1>0, <1>5 DEF Decide
<1>6. CASE SaveRollingBack
  BY <1>0, <1>6 DEF SaveRollingBack
<1>7. CASE Recover \/ Rollback
  BY <1>0, <1>7 DEF Recover, Rollback
<1> QED BY <1>1, <1>2, <1>3, <1>4, <1>5, <1>6, <1>7 DEF PrepareStep

LEMMA StateLoop ==
  OutcomeInv /\ (AdoptBackup \/ SaveBackedUp \/ SaveCommitted \/ CommitFails
                 \/ RewindPending \/ RewindAdvanced \/ SaveRolledBack)
    => LoopAgrees'
<1> SUFFICES ASSUME OutcomeInv,
                    AdoptBackup \/ SaveBackedUp \/ SaveCommitted \/ CommitFails
                    \/ RewindPending \/ RewindAdvanced \/ SaveRolledBack
             PROVE  LoopAgrees'
  OBVIOUS
<1>0. /\ LoopAgrees /\ PhaseAgrees /\ journal \in Journals /\ cur \in Targets
      /\ FilesType /\ seen \in Bytes /\ cur \in Int
      /\ \A t \in Targets : t \in Int
  BY DEF OutcomeInv, RemovalInv, Inv, TypeOK, ControlType, Targets
<1> USE SaveEffects, StateNames, Contained, SidecarPaths
        DEF LoopAgrees, PhaseAgrees, State, CommitSteps, PrepareSteps,
            RewindSteps, RemoveSteps, ForwardSteps, Goto, Retain
<1>1. CASE AdoptBackup
  <2>1. CASE journal' = journal
    BY <1>0, <1>1, <2>1 DEF AdoptBackup, control
  <2>2. CASE SaveBackup(cur, side[B(cur)]) /\ UNCHANGED control
    <3>1. /\ pc = "inspect" /\ pc' = "inspect" /\ cur' = cur
          /\ journal'.phase = journal.phase /\ journal'.phase = "committing"
          /\ journal'.state[cur] = "backed_up"
          /\ \A t \in Targets : t # cur => journal'.state[t] = journal.state[t]
      BY <1>0, <1>1, <2>2 DEF AdoptBackup, control
    <3> QED BY <1>0, <3>1
  <2> QED BY <1>1, <2>1, <2>2 DEF AdoptBackup
<1>2. CASE SaveBackedUp
  BY <1>0, <1>2 DEF SaveBackedUp
<1>3. CASE SaveCommitted
  <2>1. /\ pc = "placed" /\ journal.phase = "committing" /\ journal'.phase = "committing"
        /\ \A t \in Targets : t < cur \/ t = cur => journal'.state[t] = "committed"
        /\ \A t \in Targets : journal'.state[t] # "rolled_back"
    BY <1>0, <1>3 DEF SaveCommitted
  <2>2. /\ cur = N => \A t \in Targets : t < cur \/ t = cur
        /\ \A t \in Targets : t < cur + 1 => t < cur \/ t = cur
    BY <1>0, NAssumption DEF Targets
  <2> QED BY <1>3, <2>1, <2>2 DEF SaveCommitted, NextForward
<1>4. CASE CommitFails
  BY <1>0, <1>4 DEF CommitFails
<1>5. CASE RewindPending
  BY <1>0, <1>5 DEF RewindPending
<1>6. CASE RewindAdvanced
  BY <1>0, <1>6 DEF RewindAdvanced, NextBackward
<1>7. CASE SaveRolledBack
  BY <1>0, <1>7 DEF SaveRolledBack, NextBackward
<1> QED BY <1>1, <1>2, <1>3, <1>4, <1>5, <1>6, <1>7

LEMMA FilesLoop ==
  OutcomeInv /\ (DisplaceLive \/ PlaceStaged \/ UndoPlaced \/ RestoreBackup
                 \/ RecordSidecars \/ TombJournal \/ UnlinkJournal
                 \/ (\E s \in Sidecars : TombSidecar(s) \/ SaveTombed(s)
                                         \/ RemoveTomb(s) \/ SaveRemoved(s))
                 \/ \E t \in Targets, c \in Contents : Edit(t, c))
    => LoopAgrees'
<1> SUFFICES ASSUME OutcomeInv PROVE
      (DisplaceLive \/ PlaceStaged \/ UndoPlaced \/ RestoreBackup
       \/ RecordSidecars \/ TombJournal \/ UnlinkJournal
       \/ (\E s \in Sidecars : TombSidecar(s) \/ SaveTombed(s)
                               \/ RemoveTomb(s) \/ SaveRemoved(s))
       \/ \E t \in Targets, c \in Contents : Edit(t, c)) => LoopAgrees'
  OBVIOUS
<1>0. /\ LoopAgrees /\ PhaseAgrees /\ journal \in Journals /\ cur \in Targets
  BY DEF OutcomeInv, RemovalInv, Inv, TypeOK, ControlType
<1> USE DEF LoopAgrees, PhaseAgrees, State, Desired, CommitSteps, PrepareSteps,
            RewindSteps, RemoveSteps, ForwardSteps, Goto, Retain
<1>1. CASE DisplaceLive
  BY <1>0, <1>1 DEF DisplaceLive
<1>2. CASE PlaceStaged
  BY <1>0, <1>2 DEF PlaceStaged
<1>3. CASE UndoPlaced \/ RestoreBackup
  BY <1>0, <1>3 DEF UndoPlaced, RestoreBackup
<1>4. CASE RecordSidecars
  BY <1>0, <1>4, RecordEffects DEF RecordSidecars
<1>5. CASE TombJournal
  BY <1>0, <1>5 DEF TombJournal
<1>6. CASE UnlinkJournal
  BY <1>0, <1>6 DEF UnlinkJournal, NoJournal
<1>7. ASSUME NEW s \in Sidecars,
             TombSidecar(s) \/ SaveTombed(s) \/ RemoveTomb(s) \/ SaveRemoved(s)
      PROVE  LoopAgrees'
  <2>1. /\ pc = "discard" /\ UNCHANGED <<pc, cur>>
        /\ journal'.phase = journal.phase /\ journal'.state = journal.state
    BY <1>0, <1>7, SaveEffects, StateNames
    DEF TombSidecar, SaveTombed, RemoveTomb, SaveRemoved, Discarding, control
  <2> QED BY <1>0, <2>1
<1>8. ASSUME NEW t \in Targets, NEW c \in Contents, Edit(t, c) PROVE LoopAgrees'
  BY <1>0, <1>8 DEF Edit, control
<1> QED BY <1>1, <1>2, <1>3, <1>4, <1>5, <1>6, <1>7, <1>8

\* A step that leaves the entries of a target, and what the journal says of it,
\* as they are.
LEMMA TargetFrame ==
  ASSUME NEW t \in Targets, TargetAgrees(t), plan' = plan,
         live'[t] = live[t], side'[B(t)] = side[B(t)],
         journal'.state[t] = journal.state[t],
         journal'.backup[t] = journal.backup[t],
         verdict' = "commit" <=> verdict = "commit",
         journal'.phase = "committing" =>
           journal.phase = "committing" \/ State(t) = "pending",
         journal.phase = "rolling_back" => journal'.phase = "rolling_back"
  PROVE  TargetAgrees(t)'
BY DEF TargetAgrees, State, Expected, Desired

\* Where the cursor knows something, the commit or the rollback loop is at work.
CursorSteps ==
  {"verify", "displace", "captured", "placed", "undo", "restore", "restored"}

LEMMA CursorFrame ==
  ASSUME NEW t \in Targets
  PROVE  /\ pc' \notin CursorSteps => CursorAgrees(t)'
         /\ CursorAgrees(t) /\ UNCHANGED <<pc, seen, plan>>
            /\ live'[t] = live[t] /\ side'[B(t)] = side[B(t)]
              => CursorAgrees(t)'
BY DEF CursorAgrees, CursorSteps, Expected, Desired

LEMMA QuietUntouched ==
  ASSUME OutcomeInv, Quiet, NEW t \in Targets \ spent.touched
  PROVE  TargetAgrees(t)' /\ (t = cur' => CursorAgrees(t)')
<1>0. /\ UNCHANGED <<plan, live, side, journal, verdict>>
      /\ TargetAgrees(t) /\ (t = cur => CursorAgrees(t))
      /\ PhaseAgrees /\ LoopAgrees /\ t \in Targets
  BY QuietKeeps DEF OutcomeInv, UntouchedAgree, RemovalInv, Inv
<1>1. TargetAgrees(t)'
  BY <1>0, TargetFrame
<1>2. t = cur' => CursorAgrees(t)'
  <2>1. CASE ReadLive
    <3>1. /\ cur' = cur /\ seen' = live[cur] /\ pc' = "verify"
          /\ State(cur) = "pending" /\ side[B(cur)] = "absent"
          /\ verdict # "commit"
      BY <1>0, <2>1 DEF ReadLive, PhaseAgrees, CommitSteps
    <3>2. t = cur => live[t] = Expected(t)
      BY <1>0, <3>1 DEF TargetAgrees
    <3> QED BY <1>0, <3>1, <3>2 DEF CursorAgrees, Expected
  <2>2. CASE VerifyPreimage
    <3>1. /\ cur' = cur /\ seen' = seen /\ verdict # "commit"
          /\ State(cur) = "pending"
          /\ pc' = "captured" => live[cur] = Expected(cur) /\ seen = "absent"
          /\ pc' \in {"captured", "displace", "failing"}
          /\ t = cur => seen = Expected(t)
      BY <1>0, <2>2 DEF VerifyPreimage, PhaseAgrees, CommitSteps, Goto, CursorAgrees,
         LoopAgrees
    <3> QED BY <1>0, <3>1 DEF CursorAgrees, TargetAgrees, Expected
  <2>3. CASE InspectBackedUp
    BY <1>0, <2>3 DEF InspectBackedUp, CursorAgrees, Goto, Desired
  <2>4. CASE CheckCommitted \/ SkipTarget
    <3>1. pc' \notin CursorSteps
      BY <2>4 DEF CheckCommitted, SkipTarget, NextForward, NextBackward, Goto,
         CursorSteps
    <3> QED BY <1>0, <3>1, CursorFrame
  <2>5. CASE PrepareFails \/ Commit \/ HookRefusesForward \/ VerifyCommitted
             \/ BeginRemoval \/ Crash \/ StepFails
    <3>1. pc' \notin CursorSteps
      BY <2>5 DEF PrepareFails, Commit, HookRefusesForward, VerifyCommitted,
         BeginRemoval, Crash, StepFails, Goto, Retain, CursorSteps
    <3> QED BY <1>0, <3>1, CursorFrame
  <2>6. CASE MoveBoundary \/ RestoreBoundary \/ UNCHANGED vars
    <3>1. UNCHANGED <<pc, cur, seen>>
      BY <2>6 DEF MoveBoundary, RestoreBoundary, vars, control
    <3> QED BY <1>0, <3>1, CursorFrame
  <2> QED BY <2>1, <2>2, <2>3, <2>4, <2>5, <2>6 DEF Quiet
<1> QED BY <1>1, <1>2

LEMMA PhaseUntouched ==
  ASSUME OutcomeInv, NEW t \in Targets \ spent.touched,
         PrepareStep \/ CommitGuard \/ Decide \/ SaveRollingBack \/ Recover
         \/ Rollback
  PROVE  TargetAgrees(t)' /\ (t = cur' => CursorAgrees(t)')
<1>0. /\ TargetAgrees(t) /\ PhaseAgrees /\ LoopAgrees /\ t \in Targets
      /\ journal \in Journals /\ FilesType /\ cur \in Targets
  BY DEF OutcomeInv, UntouchedAgree, RemovalInv, Inv, TypeOK, ControlType
<1>1. live' = live /\ side'[B(t)] = side[B(t)] /\ plan' = plan
  BY <1>0, SidecarPaths, SidecarsDistinct
  DEF PrepareStep, Prepare, StageTarget, SavePrepared, CommitGuard, Decide,
      SaveRollingBack, Recover, Rollback, files, FilesType
<1>2. pc' \notin CursorSteps
  BY DEF PrepareStep, Prepare, StageTarget, SavePrepared, CommitGuard, Decide,
      SaveRollingBack, Recover, Rollback, NextStaging, Goto, Retain, control,
      CursorSteps
<1>3. CASE Prepare
  <2>1. /\ journal'.state[t] = "pending" /\ verdict' = "open"
        /\ verdict = "unstarted"
    BY <1>0, <1>3 DEF Prepare, NoJournal
  <2>2. State(t) = "pending"
    BY <1>0, <2>1 DEF LoopAgrees, PhaseAgrees
  <2>3. TargetAgrees(t)'
    BY <1>0, <1>1, <2>1, <2>2 DEF TargetAgrees, State, Expected
  <2> QED BY <1>2, <2>3, CursorFrame
<1>4. CASE Decide
  <2>1. /\ verdict' = "commit" /\ verdict # "commit"
        /\ State(t) = "committed" /\ journal.phase = "committing"
    BY <1>0, <1>4 DEF Decide, PhaseAgrees, LoopAgrees
  <2>2. live[t] = Desired(t)
    BY <1>0, <2>1 DEF TargetAgrees
  <2>3. TargetAgrees(t)'
    BY <1>1, <2>1, <2>2 DEF TargetAgrees, Desired
  <2> QED BY <1>2, <2>3, CursorFrame
<1>5. CASE StageTarget \/ SavePrepared \/ CommitGuard \/ SaveRollingBack
           \/ Recover \/ Rollback
  <2>1. /\ verdict' = verdict /\ journal'.state = journal.state
        /\ journal'.backup = journal.backup
    BY <1>0, <1>5, SaveEffects, StateNames
    DEF StageTarget, SavePrepared, CommitGuard, SaveRollingBack, Recover, Rollback,
        history
  <2>2. /\ journal'.phase = "committing" =>
             journal.phase = "committing" \/ State(t) = "pending"
        /\ journal.phase = "rolling_back" => journal'.phase = "rolling_back"
    BY <1>0, <1>5, SaveEffects, StateNames
    DEF StageTarget, SavePrepared, CommitGuard, SaveRollingBack, Recover, Rollback,
        PhaseAgrees, LoopAgrees
  <2>3. TargetAgrees(t)'
    BY <1>0, <1>1, <2>1, <2>2, TargetFrame
  <2> QED BY <1>2, <2>3, CursorFrame
<1> QED BY <1>3, <1>4, <1>5 DEF PrepareStep

LEMMA EditUntouched ==
  ASSUME OutcomeInv, NEW u \in Targets, NEW c \in Contents, Edit(u, c),
         NEW t \in Targets \ spent'.touched
  PROVE  TargetAgrees(t)' /\ (t = cur' => CursorAgrees(t)')
<1>1. spent \in Budgets /\ live \in [Targets -> Bytes]
  BY DEF OutcomeInv, RemovalInv, Inv, TypeOK, FilesType
<1>2. t # u /\ t \notin spent.touched
  BY <1>1 DEF Edit, Budgets
<1>3. /\ UNCHANGED <<plan, side, journal, pc, cur, seen, verdict>>
      /\ live'[t] = live[t]
  BY <1>1, <1>2 DEF Edit, control
<1>4. TargetAgrees(t) /\ (t = cur => CursorAgrees(t))
  BY <1>2 DEF OutcomeInv, UntouchedAgree
<1> QED BY <1>3, <1>4, TargetFrame, CursorFrame

LEMMA DiscardUntouched ==
  ASSUME OutcomeInv, NEW t \in Targets \ spent.touched,
         \/ RecordSidecars \/ TombJournal \/ UnlinkJournal
         \/ \E s \in Sidecars :
              TombSidecar(s) \/ SaveTombed(s) \/ RemoveTomb(s) \/ SaveRemoved(s)
  PROVE  TargetAgrees(t)' /\ (t = cur' => CursorAgrees(t)')
<1>0. /\ TargetAgrees(t) /\ PhaseAgrees /\ RemovalAgrees /\ SidecarsAgree
      /\ t \in Targets /\ journal \in Journals /\ FilesType
  BY DEF OutcomeInv, UntouchedAgree, RemovalInv, Inv, TypeOK
<1>1. pc' \notin CursorSteps
  BY DEF RecordSidecars, TombJournal, UnlinkJournal, TombSidecar, SaveTombed,
     RemoveTomb, SaveRemoved, Discarding, Goto, Retain, control, CursorSteps
<1>2. CASE RecordSidecars \/ TombJournal
  <2>1. UNCHANGED <<plan, live, side, verdict>>
    BY <1>2 DEF RecordSidecars, TombJournal, files, history
  <2>2. /\ journal'.phase = journal.phase /\ journal'.state = journal.state
        /\ journal'.backup = journal.backup
    BY <1>0, <1>2, RecordEffects DEF TombJournal
  <2> QED BY <1>0, <1>1, <2>1, <2>2, TargetFrame, CursorFrame
<1>3. CASE UnlinkJournal
  <2>1. record = "delete" /\ side[B(t)] = "absent" /\ RemovalReady
    BY <1>0, <1>3, SidecarPaths
    DEF UnlinkJournal, RemovalAgrees, SidecarsAgree, AllRemoved, Recorded
  <2>2. /\ UNCHANGED <<plan, live, side>> /\ journal'.state[t] = "pending"
        /\ verdict' = "commit" <=> verdict = "commit"
    BY <1>0, <1>3 DEF UnlinkJournal, NoJournal, files
  <2>3. verdict # "commit" => live[t] = Expected(t)
    BY <1>0, <2>1 DEF TargetAgrees, RemovalReady, PhaseAgrees
  <2>4. TargetAgrees(t)'
    BY <1>0, <2>1, <2>2, <2>3 DEF TargetAgrees, State, Expected, Desired
  <2> QED BY <1>1, <2>4, CursorFrame
<1>4. ASSUME NEW s \in Sidecars, TombSidecar(s)
      PROVE  TargetAgrees(t)'
  <2>1. /\ UNCHANGED <<plan, live, journal, verdict>> /\ pc = "discard"
        /\ journal.cleanup[s] = "pending"
        /\ \A r \in Sidecars : r # s => side'[r] = side[r]
    BY <1>0, <1>4 DEF TombSidecar, Discarding, history, FilesType
  <2>2. CASE s = B(t)
    <3>1. verdict = "commit"
      BY <1>0, <2>1, <2>2 DEF RemovalAgrees, SidecarsAgree, PhaseAgrees
    <3> QED BY <1>0, <2>1, <3>1 DEF TargetAgrees, Desired
  <2>3. CASE s # B(t)
    BY <1>0, <2>1, <2>3, SidecarPaths, TargetFrame
  <2> QED BY <2>2, <2>3
<1>5. ASSUME NEW s \in Sidecars, SaveTombed(s) \/ RemoveTomb(s) \/ SaveRemoved(s)
      PROVE  TargetAgrees(t)'
  <2>1. UNCHANGED <<plan, live, side, verdict>>
    BY <1>5 DEF SaveTombed, RemoveTomb, SaveRemoved, files, history
  <2>2. /\ journal'.phase = journal.phase /\ journal'.state = journal.state
        /\ journal'.backup = journal.backup
    BY <1>0, <1>5, SaveEffects, StateNames DEF SaveTombed, RemoveTomb, SaveRemoved
  <2> QED BY <1>0, <2>1, <2>2, TargetFrame
<1> QED BY <1>1, <1>2, <1>3, <1>4, <1>5, CursorFrame

LEMMA SaveUntouched ==
  ASSUME OutcomeInv, NEW t \in Targets \ spent.touched,
         AdoptBackup \/ SaveBackedUp \/ SaveCommitted \/ CommitFails
         \/ RewindPending \/ RewindAdvanced \/ SaveRolledBack
  PROVE  TargetAgrees(t)' /\ (t = cur' => CursorAgrees(t)')
<1>0. /\ TargetAgrees(t) /\ (t = cur => CursorAgrees(t))
      /\ PhaseAgrees /\ LoopAgrees /\ RemovalAgrees /\ t \in Targets
      /\ journal \in Journals /\ FilesType /\ cur \in Targets /\ seen \in Bytes
  BY DEF OutcomeInv, UntouchedAgree, RemovalInv, Inv, TypeOK, ControlType
<1>1. UNCHANGED <<plan, live, side, verdict>>
  BY DEF AdoptBackup, SaveBackedUp, SaveCommitted, CommitFails, RewindPending,
     RewindAdvanced, SaveRolledBack, files, history
<1>2. \/ pc \in CommitSteps /\ journal.phase = "committing"
      \/ pc \in RewindSteps /\ journal.phase = "rolling_back"
  BY <1>0 DEF AdoptBackup, SaveBackedUp, SaveCommitted, CommitFails, RewindPending,
     RewindAdvanced, SaveRolledBack, PhaseAgrees, CommitSteps, RewindSteps
<1>3. verdict # "commit"
  BY <1>0, <1>2 DEF PhaseAgrees
<1>4. CASE journal' = journal
  <2>1. TargetAgrees(t)'
    BY <1>0, <1>1, <1>4, TargetFrame
  <2>2. pc' \notin CursorSteps \/ (RewindAdvanced /\ pc' \in {"undo", "restore"})
    <3> USE DEF CursorSteps, Goto, Retain
    <3>1. CASE RewindAdvanced
      BY <3>1 DEF RewindAdvanced, NextBackward
    <3>2. CASE AdoptBackup
      <4>1. journal.state[cur] = "pending"
        BY <3>2 DEF AdoptBackup, State
      <4>2. ~SaveBackup(cur, side[B(cur)])
        BY <1>0, <1>4, <4>1, SaveEffects, SidecarPaths, Contained
      <4> QED BY <3>2, <4>2 DEF AdoptBackup
    <3>3. CASE RewindPending
      <4>1. journal.state[cur] = "pending"
        BY <3>3 DEF RewindPending, State
      <4>2. ~SaveBackup(cur, side[B(cur)])
        BY <1>0, <1>4, <4>1, SaveEffects, SidecarPaths, Contained
      <4> QED BY <3>3, <4>2 DEF RewindPending
    <3>4. CASE SaveBackedUp \/ SaveCommitted \/ CommitFails \/ SaveRolledBack
      BY <3>4 DEF SaveBackedUp, SaveCommitted, CommitFails, SaveRolledBack,
         NextForward, NextBackward
    <3> QED BY <3>1, <3>2, <3>3, <3>4
  <2>3. CASE RewindAdvanced /\ pc' \in {"undo", "restore"} /\ t = cur'
    <3>1. /\ cur' = cur /\ State(t) \in {"backed_up", "committed"}
          /\ ~AlreadyRestored /\ ~RewindRefused
          /\ pc' = "restore" => live[t] = "absent"
          /\ pc' = "undo" => live[t] # "absent"
      BY <2>3 DEF RewindAdvanced, Goto, Retain, NextBackward
    <3>2. /\ journal.backup[t] = Expected(t)
          /\ \/ side[B(t)] = Expected(t) /\ live[t] \in {"absent", Desired(t)}
             \/ side[B(t)] = "absent" /\ live[t] = Expected(t)
      BY <1>0, <1>3, <3>1 DEF TargetAgrees
    <3>3. side[B(t)] = Expected(t) /\ live[t] \in {"absent", Desired(t)}
      BY <2>3, <3>1, <3>2 DEF AlreadyRestored, RewindRefused
    <3> QED BY <1>1, <2>1, <2>3, <3>1, <3>3 DEF CursorAgrees, Expected, Desired
  <2> QED BY <2>1, <2>2, <2>3, CursorFrame
<1>5. CASE AdoptBackup /\ SaveBackup(cur, side[B(cur)]) /\ journal' # journal
  <2>1. /\ State(cur) = "pending" /\ side[B(cur)] # "absent"
        /\ side[B(cur)] = Expected(cur) /\ live[cur] \in {"absent", Desired(cur)}
        /\ pc' \notin CursorSteps
    BY <1>5 DEF AdoptBackup, control, Goto, CursorSteps
  <2>2. /\ journal'.phase = journal.phase
        /\ journal'.state[cur] = "backed_up"
        /\ journal'.backup[cur] = Expected(cur)
        /\ \A u \in Targets \ {cur} : /\ journal'.state[u] = journal.state[u]
                                      /\ journal'.backup[u] = journal.backup[u]
    BY <1>0, <1>5, <2>1, SaveEffects, SidecarPaths, Contained
  <2>3. CASE t = cur
    <3>1. TargetAgrees(t)'
      BY <1>0, <1>1, <1>3, <2>1, <2>2, <2>3 DEF TargetAgrees, State, Expected, Desired
    <3> QED BY <2>1, <3>1, CursorFrame
  <2>4. CASE t # cur
    BY <1>0, <1>1, <2>1, <2>2, <2>4, TargetFrame, CursorFrame
  <2> QED BY <2>3, <2>4
<1>6. CASE SaveBackedUp /\ SaveBackup(cur, seen)
  <2>1. pc = "captured" /\ pc' \notin CursorSteps
    BY <1>6 DEF SaveBackedUp, Goto, CursorSteps
  <2>2. /\ journal'.phase = journal.phase
        /\ journal'.state[cur] = "backed_up" /\ journal'.backup[cur] = seen
        /\ \A u \in Targets \ {cur} : /\ journal'.state[u] = journal.state[u]
                                      /\ journal'.backup[u] = journal.backup[u]
    BY <1>0, <1>6, SaveEffects
  <2>3. CASE t = cur
    <3>1. seen = Expected(t) /\ live[t] = "absent" /\ side[B(t)] = Expected(t)
      BY <1>0, <2>1, <2>3 DEF CursorAgrees
    <3>2. TargetAgrees(t)'
      BY <1>1, <1>2, <1>3, <2>1, <2>2, <2>3, <3>1
      DEF TargetAgrees, State, Expected, Desired, RewindSteps
    <3> QED BY <2>1, <3>2, CursorFrame
  <2>4. CASE t # cur
    BY <1>0, <1>1, <2>1, <2>2, <2>4, TargetFrame, CursorFrame
  <2> QED BY <2>3, <2>4
<1>7. CASE (SaveCommitted \/ CommitFails) /\ pc = "placed"
           /\ SaveState(cur, "committed")
  <2>1. pc' \notin CursorSteps /\ State(cur) = "backed_up"
        /\ journal.phase = "committing"
    BY <1>0, <1>2, <1>7
    DEF SaveCommitted, CommitFails, NextForward, Goto, CursorSteps, LoopAgrees,
        RewindSteps
  <2>2. /\ journal'.phase = journal.phase
        /\ journal'.state[cur] = "committed" /\ journal'.backup = journal.backup
        /\ \A u \in Targets \ {cur} : journal'.state[u] = journal.state[u]
    BY <1>0, <1>7, SaveEffects, StateNames
  <2>3. CASE t = cur
    <3>1. /\ live[t] = Desired(t) /\ journal.backup[t] = Expected(t)
          /\ side[B(t)] = Expected(t)
      BY <1>0, <1>3, <1>7, <2>1, <2>3 DEF CursorAgrees, TargetAgrees
    <3>2. TargetAgrees(t)'
      BY <1>1, <1>3, <2>1, <2>2, <2>3, <3>1
      DEF TargetAgrees, State, Expected, Desired
    <3> QED BY <2>1, <3>2, CursorFrame
  <2>4. CASE t # cur
    BY <1>0, <1>1, <2>1, <2>2, <2>4, TargetFrame, CursorFrame
  <2> QED BY <2>3, <2>4
<1>8. CASE RewindPending /\ SaveBackup(cur, side[B(cur)]) /\ journal' # journal
  <2>1. /\ side[B(cur)] = Expected(cur) /\ live[cur] = "absent"
        /\ pc' = "restore" /\ cur' = cur
    BY <1>8 DEF RewindPending, Goto
  <2>2. /\ journal'.phase = journal.phase
        /\ journal'.state[cur] = "backed_up"
        /\ journal'.backup[cur] = Expected(cur)
        /\ \A u \in Targets \ {cur} : /\ journal'.state[u] = journal.state[u]
                                      /\ journal'.backup[u] = journal.backup[u]
    BY <1>0, <1>8, <2>1, SaveEffects, SidecarPaths, Contained
  <2>3. CASE t = cur
    BY <1>1, <1>3, <2>1, <2>2, <2>3
    DEF TargetAgrees, CursorAgrees, State, Expected, Desired
  <2>4. CASE t # cur
    BY <1>0, <1>1, <2>1, <2>2, <2>4, TargetFrame
  <2> QED BY <2>3, <2>4
<1>9. CASE (RewindAdvanced \/ SaveRolledBack) /\ SaveState(cur, "rolled_back")
           /\ journal' # journal
  <2>1. /\ pc' \notin CursorSteps /\ journal.phase = "rolling_back"
        /\ State(cur) \in {"backed_up", "committed"}
    BY <1>0, <1>2, <1>9
    DEF RewindAdvanced, SaveRolledBack, NextBackward, Goto, CursorSteps,
        RemovalAgrees, CommitSteps
  <2>2. /\ journal'.phase = journal.phase
        /\ journal'.state[cur] = "rolled_back" /\ journal'.backup = journal.backup
        /\ \A u \in Targets \ {cur} : journal'.state[u] = journal.state[u]
    BY <1>0, <1>9, SaveEffects, StateNames
  <2>3. CASE t = cur
    <3>1. live[t] = Expected(t) /\ side[B(t)] = "absent"
      <4>1. CASE SaveRolledBack
        BY <1>0, <2>3, <4>1 DEF SaveRolledBack, CursorAgrees
      <4>2. CASE RewindAdvanced
        <5>1. AlreadyRestored
          BY <1>9, <4>2 DEF RewindAdvanced
        <5> QED BY <1>0, <1>3, <2>1, <2>3, <5>1 DEF AlreadyRestored, TargetAgrees
      <4> QED BY <1>9, <4>1, <4>2
    <3>2. TargetAgrees(t)'
      BY <1>1, <1>3, <2>1, <2>2, <2>3, <3>1
      DEF TargetAgrees, State, Expected, Desired
    <3> QED BY <2>1, <3>2, CursorFrame
  <2>4. CASE t # cur
    BY <1>0, <1>1, <2>1, <2>2, <2>4, TargetFrame, CursorFrame
  <2> QED BY <2>3, <2>4
<1> QED
  BY <1>4, <1>5, <1>6, <1>7, <1>8, <1>9
  DEF AdoptBackup, SaveBackedUp, SaveCommitted, CommitFails, RewindPending,
      RewindAdvanced, SaveRolledBack

LEMMA MoveUntouched ==
  ASSUME OutcomeInv, NEW t \in Targets \ spent.touched,
         DisplaceLive \/ PlaceStaged \/ UndoPlaced \/ RestoreBackup
  PROVE  TargetAgrees(t)' /\ (t = cur' => CursorAgrees(t)')
<1>0. /\ TargetAgrees(t) /\ (t = cur => CursorAgrees(t))
      /\ PhaseAgrees /\ LoopAgrees /\ RemovalAgrees /\ t \in Targets
      /\ journal \in Journals /\ FilesType /\ cur \in Targets
  BY DEF OutcomeInv, UntouchedAgree, RemovalInv, Inv, TypeOK, ControlType
<1>1. UNCHANGED <<plan, journal, verdict>>
      /\ \/ cur' = cur
         \/ pc' \notin CursorSteps
  BY DEF DisplaceLive, PlaceStaged, UndoPlaced, RestoreBackup, history, Goto, Retain,
     CursorSteps
<1>2. verdict # "commit"
  BY <1>0 DEF DisplaceLive, PlaceStaged, UndoPlaced, RestoreBackup, PhaseAgrees,
     CommitSteps, RewindSteps
<1>3. CASE t # cur \/ (live'[t] = live[t] /\ side'[B(t)] = side[B(t)]
                       /\ pc' \notin CursorSteps)
  <2>1. live'[t] = live[t] /\ side'[B(t)] = side[B(t)]
    <3>1. CASE t # cur
      <4>1. B(t) # B(cur) /\ B(t) # S(cur) /\ B(t) # R(cur)
        BY <1>0, <3>1, SidecarsDistinct
      <4> QED BY <1>0, <3>1, <4>1, SidecarPaths
              DEF DisplaceLive, PlaceStaged, UndoPlaced, RestoreBackup, MoveIn,
                  MoveOut, FilesType
    <3> QED BY <1>3, <3>1
  <2> QED BY <1>0, <1>1, <1>3, <2>1, TargetFrame, CursorFrame
<1>4. CASE DisplaceLive /\ t = cur /\ pc' = "captured"
  <2>1. /\ State(t) = "pending" /\ live[t] # "absent" /\ seen = Expected(t)
        /\ MoveOut(t, B(t)) /\ seen' = seen /\ cur' = cur
    BY <1>0, <1>4 DEF DisplaceLive, LoopAgrees, CursorAgrees, Goto
  <2>2. live[t] = Expected(t)
    BY <1>0, <1>2, <2>1 DEF TargetAgrees
  <2>3. live'[t] = "absent" /\ side'[B(t)] = Expected(t)
    BY <1>0, <2>1, <2>2, SidecarPaths DEF MoveOut, FilesType
  <2> QED BY <1>1, <1>2, <1>4, <2>1, <2>3
          DEF TargetAgrees, CursorAgrees, State, Expected
<1>5. CASE PlaceStaged /\ t = cur /\ pc' = "placed"
  <2>1. /\ State(t) = "backed_up" /\ side[S(t)] = Desired(t)
        /\ journal.phase = "committing" /\ MoveIn(S(t), t)
    BY <1>0, <1>5 DEF PlaceStaged, LoopAgrees, PhaseAgrees, CommitSteps, Goto
  <2>2. live'[t] = Desired(t) /\ side'[B(t)] = side[B(t)]
    BY <1>0, <2>1, SidecarPaths, SidecarsDistinct DEF MoveIn, FilesType
  <2> QED BY <1>0, <1>1, <1>2, <1>5, <2>1, <2>2
          DEF TargetAgrees, CursorAgrees, State, Expected, Desired
<1>6. CASE UndoPlaced /\ t = cur /\ live[cur] # "absent" /\ MoveOut(cur, R(cur))
              /\ IF live[cur] = Desired(cur) THEN Goto("restore") ELSE Retain
  <2>1. /\ State(t) \in {"backed_up", "committed"}
        /\ journal.phase = "rolling_back" /\ live[t] # "absent"
        /\ side[B(t)] = Expected(t) /\ MoveOut(t, R(t))
        /\ pc' \notin CursorSteps \/ (pc' = "restore" /\ cur' = cur)
    BY <1>0, <1>6 DEF UndoPlaced, RemovalAgrees, PhaseAgrees, RewindSteps, CursorAgrees,
       Goto, Retain, CursorSteps
  <2>2. live'[t] = "absent" /\ side'[B(t)] = Expected(t)
    BY <1>0, <2>1, SidecarPaths, SidecarsDistinct DEF MoveOut, FilesType
  <2>3. TargetAgrees(t)'
    BY <1>0, <1>1, <1>2, <2>1, <2>2 DEF TargetAgrees, State, Expected, Desired
  <2>4. t = cur' => CursorAgrees(t)'
    BY <1>1, <2>1, <2>2 DEF CursorAgrees, CursorSteps, Expected
  <2> QED BY <2>3, <2>4
<1>7. CASE RestoreBackup /\ t = cur /\ pc' = "restored"
  <2>1. /\ State(t) \in {"backed_up", "committed"}
        /\ journal.phase = "rolling_back" /\ live[t] = "absent"
        /\ side[B(t)] = Expected(t) /\ pc = "restore"
    BY <1>0, <1>7 DEF RestoreBackup, RemovalAgrees, PhaseAgrees, RewindSteps,
       CursorAgrees
  <2>2. journal.backup[t] = Expected(t)
    BY <1>0, <1>2, <2>1 DEF TargetAgrees
  <2>3. live'[t] = Expected(t) /\ side'[B(t)] = "absent"
    <3>1. CASE side[B(t)] = "absent" /\ UNCHANGED <<live, side>>
      BY <2>1, <3>1
    <3>2. CASE MoveIn(B(t), t)
      BY <1>0, <2>1, <3>2, SidecarPaths DEF MoveIn, FilesType
    <3> QED BY <1>7, <3>1, <3>2 DEF RestoreBackup, Retain
  <2> QED BY <1>1, <1>2, <1>7, <2>1, <2>2, <2>3
          DEF TargetAgrees, CursorAgrees, State, Expected, Desired
<1>8. CASE DisplaceLive /\ t = cur
  BY <1>3, <1>4, <1>8 DEF DisplaceLive, Goto, CursorSteps
<1>9. CASE PlaceStaged /\ t = cur
  BY <1>3, <1>5, <1>9 DEF PlaceStaged, Goto, CursorSteps
<1>10. CASE UndoPlaced /\ t = cur
  BY <1>3, <1>6, <1>10 DEF UndoPlaced, Retain, CursorSteps
<1>11. CASE RestoreBackup /\ t = cur
  BY <1>3, <1>7, <1>11 DEF RestoreBackup, Goto, Retain, CursorSteps
<1> QED BY <1>3, <1>8, <1>9, <1>10, <1>11

LEMMA NextOutcome == OutcomeInv /\ [Next]_vars => OutcomeInv'
<1> SUFFICES ASSUME OutcomeInv, [Next]_vars PROVE OutcomeInv'
  OBVIOUS
<1>1. RemovalInv' /\ TypeOK
  BY NextRemoval DEF OutcomeInv, RemovalInv, Inv
<1>2. LoopAgrees'
  BY StepKinds, QuietLoop, PhaseLoop, StateLoop, FilesLoop
<1>3. UntouchedAgree'
  <2>1. ASSUME NEW u \in Targets, NEW c \in Contents, Edit(u, c)
        PROVE  UntouchedAgree'
    BY <2>1, EditUntouched DEF UntouchedAgree
  <2>2. CASE spent'.touched = spent.touched
             /\ ~(\E u \in Targets, c \in Contents : Edit(u, c))
    <3>1. ASSUME NEW t \in Targets \ spent.touched
          PROVE  TargetAgrees(t)' /\ (t = cur' => CursorAgrees(t)')
      BY <2>2, StepKinds, QuietUntouched, PhaseUntouched, SaveUntouched,
         MoveUntouched, DiscardUntouched
    <3> QED BY <2>2, <3>1 DEF UntouchedAgree
  <2> QED BY <1>1, <2>1, <2>2, EditCount
<1> QED BY <1>1, <1>2, <1>3 DEF OutcomeInv

LEMMA SpecOutcome == Spec => []OutcomeInv
<1>1. Init => OutcomeInv
  BY InitInv, InitRemoval, InitOutcome DEF OutcomeInv, RemovalInv
<1> QED
  BY <1>1, NextOutcome, PTL DEF Spec

\* A transaction that has ended shows one plan on every target nobody else wrote:
\* the new content everywhere, or the preimage everywhere, for any number of
\* targets, crashes, faults, edits and moves of the boundary (_commit_journal,
\* _rollback, _cleanup_committed).
THEOREM AllOrNothingTheorem == Spec => []AllOrNothing
<1>1. OutcomeInv => AllOrNothing
  <2> SUFFICES ASSUME OutcomeInv, record = "none", verdict \in {"commit", "abort"},
                      NEW t \in Targets \ spent.touched
               PROVE  live[t] = IF verdict = "commit" THEN Desired(t) ELSE Expected(t)
    BY DEF AllOrNothing
  <2>1. /\ TargetAgrees(t) /\ State(t) = "pending" /\ side[B(t)] = "absent"
    BY SidecarPaths DEF OutcomeInv, RemovalInv, Inv, UntouchedAgree, LoopAgrees,
       PhaseAgrees, SidecarsAgree
  <2> QED BY <2>1 DEF TargetAgrees
<1> QED
  BY SpecOutcome, <1>1, PTL

-----------------------------------------------------------------------------
(* The engine implements AtomicInstall.                                     *)

\* Where the planned content is before the commit loop places it.
StagedAgrees ==
  /\ pc = "stage" => \A t \in Targets : t < cur => side[S(t)] = Desired(t)
  /\ pc = "staged" => \A t \in Targets : side[S(t)] = Desired(t)
  /\ journal.phase = "prepared" /\ ~Recorded =>
       \A t \in Targets : side[S(t)] = Desired(t)
  /\ journal.phase \in {"none", "preparing", "prepared", "committing"} =>
       \A t \in Targets : side[R(t)] = "absent" /\ tomb[R(t)] = "absent"

\* The planned content of a target is in one place at a time, and where it is
\* neither live nor unwanted the commit loop still has it.
ReplacementAgrees(t) ==
  /\ Desired(t) = "absent" =>
       /\ live[t] # "new" /\ side[S(t)] = "absent" /\ tomb[S(t)] = "absent"
       /\ side[R(t)] # "new" /\ tomb[R(t)] # "new"
  /\ live[t] = "new" => side[S(t)] = "absent" /\ side[R(t)] = "absent"
  /\ side[R(t)] = "new" \/ tomb[R(t)] = "new" =>
       side[S(t)] # "new" /\ tomb[S(t)] # "new"
  /\ journal.phase = "committing" /\ live[t] # Desired(t) =>
       side[S(t)] = Desired(t)

PlainAgrees ==
  /\ spent.edit = 0 /\ spent.touched = {}
  /\ verdict = "abort" => journal.phase = "none"
  /\ StagedAgrees
  /\ \A t \in Targets : ReplacementAgrees(t)

\* What holds while no user has written a live path.
PlainInv == OutcomeInv /\ ContentsAgree /\ PlainAgrees

LEMMA InitPlain == Init => PlainAgrees
<1> SUFFICES ASSUME Init PROVE PlainAgrees
  OBVIOUS
<1>1. StagedAgrees
  BY SidecarPaths DEF Init, StagedAgrees, NoJournal
<1>2. ASSUME NEW t \in Targets PROVE ReplacementAgrees(t)
  BY SidecarPaths DEF Init, ReplacementAgrees, NoJournal, Plans, Desired
<1> QED BY <1>1, <1>2 DEF Init, PlainAgrees

\* What the invariants say of every target of an unedited transaction.
LEMMA PlainFacts ==
  ASSUME PlainInv
  PROVE  /\ TypeOK /\ PhaseAgrees /\ RemovalAgrees /\ SidecarsAgree /\ LoopAgrees
         /\ ContentsAgree /\ StagedAgrees
         /\ FilesType /\ journal \in Journals /\ cur \in Targets
         /\ \A t \in Targets :
              /\ TargetAgrees(t) /\ (t = cur => CursorAgrees(t))
              /\ ReplacementAgrees(t)
              /\ Expected(t) \in {"absent", "old"} /\ Desired(t) \in {"absent", "new"}
<1>1. /\ TypeOK /\ PhaseAgrees /\ RemovalAgrees /\ SidecarsAgree /\ LoopAgrees
      /\ ContentsAgree /\ StagedAgrees
      /\ FilesType /\ journal \in Journals /\ cur \in Targets
  BY DEF PlainInv, PlainAgrees, OutcomeInv, RemovalInv, Inv, TypeOK, ControlType
<1>2. ASSUME NEW t \in Targets
      PROVE  /\ TargetAgrees(t) /\ (t = cur => CursorAgrees(t))
             /\ ReplacementAgrees(t)
  BY DEF PlainInv, PlainAgrees, OutcomeInv, UntouchedAgree
<1>3. ASSUME NEW t \in Targets
      PROVE  Expected(t) \in {"absent", "old"} /\ Desired(t) \in {"absent", "new"}
  BY <1>1 DEF TypeOK, Plans, Expected, Desired
<1> QED BY <1>1, <1>2, <1>3

\* The steps that neither rename a file nor change the phase or the manifest's
\* standing.
Still ==
  \/ Quiet \/ AdoptBackup \/ SaveBackedUp \/ SaveCommitted \/ CommitFails
  \/ RewindPending \/ RewindAdvanced \/ SaveRolledBack \/ TombJournal
  \/ \E s \in Sidecars : SaveTombed(s) \/ SaveRemoved(s)

LEMMA StillKeeps ==
  ASSUME RemovalInv, Still
  PROVE  /\ UNCHANGED <<plan, live, side, tomb, verdict>>
         /\ journal'.phase = journal.phase
         /\ Recorded' <=> Recorded
         /\ pc' \notin {"stage", "staged"} \/ UNCHANGED <<pc, cur>>
<1>0. /\ journal \in Journals /\ FilesType /\ cur \in Targets /\ seen \in Bytes
      /\ RemovalAgrees
  BY DEF RemovalInv, Inv, TypeOK, ControlType
<1>1. CASE Quiet
  <2>1. UNCHANGED <<plan, live, side, tomb, verdict, journal>>
    BY <1>1, QuietKeeps
  <2>2. pc' \notin {"stage", "staged"} \/ UNCHANGED <<pc, cur>>
    BY <1>1 DEF Quiet, PrepareFails, Commit, ReadLive, VerifyPreimage,
       InspectBackedUp, CheckCommitted, HookRefusesForward, SkipTarget,
       VerifyCommitted, BeginRemoval, Crash, StepFails, MoveBoundary,
       RestoreBoundary, vars, control, Goto, Retain, NextForward, NextBackward
  <2> QED BY <2>1, <2>2 DEF Recorded
<1>2. CASE AdoptBackup \/ SaveBackedUp \/ SaveCommitted \/ CommitFails
           \/ RewindPending \/ RewindAdvanced \/ SaveRolledBack
  <2>1. UNCHANGED <<plan, live, side, tomb, verdict>>
    BY <1>2 DEF AdoptBackup, SaveBackedUp, SaveCommitted, CommitFails, RewindPending,
       RewindAdvanced, SaveRolledBack, files, history
  <2>2. pc' \notin {"stage", "staged"}
    BY <1>2 DEF AdoptBackup, SaveBackedUp, SaveCommitted, CommitFails, RewindPending,
       RewindAdvanced, SaveRolledBack, control, Goto, Retain, NextForward,
       NextBackward
  <2>3. \/ journal' = journal
        \/ \E x \in TargetStates : SaveState(cur, x)
        \/ \E d \in Bytes : SaveBackup(cur, d)
    BY <1>0, <1>2, StateNames, SidecarPaths, Contained
    DEF AdoptBackup, SaveBackedUp, SaveCommitted, CommitFails, RewindPending,
        RewindAdvanced, SaveRolledBack
  <2>4. journal'.phase = journal.phase /\ journal'.cleanup = journal.cleanup
    BY <1>0, <2>3, SaveEffects
  <2> QED BY <2>1, <2>2, <2>4 DEF Recorded
<1>3. CASE TombJournal
  BY <1>3 DEF TombJournal, files, history, Recorded, Goto
<1>4. ASSUME NEW s \in Sidecars, SaveTombed(s) \/ SaveRemoved(s)
      PROVE  /\ UNCHANGED <<plan, live, side, tomb, verdict, pc, cur>>
             /\ journal'.phase = journal.phase
             /\ Recorded' <=> Recorded
  <2>1. /\ UNCHANGED <<plan, live, side, tomb, verdict, pc, cur>> /\ Recorded
    BY <1>0, <1>4 DEF SaveTombed, SaveRemoved, Discarding, RemovalAgrees, files,
       history, control
  <2>2. /\ journal'.phase = journal.phase /\ journal'.cleanup[s] # "unrecorded"
        /\ \A r \in Sidecars \ {s} : journal'.cleanup[r] = journal.cleanup[r]
    BY <1>0, <1>4, SaveEffects, StateNames DEF SaveTombed, SaveRemoved
  <2>3. Recorded'
    BY <2>1, <2>2 DEF Recorded
  <2> QED BY <2>1, <2>2, <2>3
<1> QED BY <1>1, <1>2, <1>3, <1>4 DEF Still

\* Steps that leave every file where it is.
LEMMA FilesFrame ==
  ASSUME PlainInv, UNCHANGED <<plan, live, side, tomb>>,
         journal'.phase = "committing" =>
           journal.phase = "committing" \/ (journal.phase = "prepared" /\ ~Recorded)
  PROVE  \A t \in Targets : ReplacementAgrees(t)'
BY PlainFacts DEF ReplacementAgrees, StagedAgrees, Desired

LEMMA StillPlain ==
  ASSUME PlainInv, Still
  PROVE  /\ StagedAgrees'
         /\ verdict' = "abort" => journal'.phase = "none"
         /\ \A t \in Targets : ReplacementAgrees(t)'
<1>1. RemovalInv
  BY DEF PlainInv, OutcomeInv
<1>2. \A t \in Targets : ReplacementAgrees(t)'
  BY <1>1, StillKeeps, FilesFrame
<1>3. StagedAgrees'
  BY <1>1, StillKeeps, PlainFacts DEF StagedAgrees, Desired
<1> QED BY <1>1, <1>2, <1>3, StillKeeps DEF PlainInv, PlainAgrees

LEMMA PhasePlain ==
  ASSUME PlainInv,
         Prepare \/ SavePrepared \/ CommitGuard \/ Decide \/ SaveRollingBack
         \/ Recover \/ Rollback \/ RecordSidecars \/ UnlinkJournal
  PROVE  /\ StagedAgrees'
         /\ verdict' = "abort" => journal'.phase = "none"
         /\ \A t \in Targets : ReplacementAgrees(t)'
<1>0. /\ UNCHANGED <<plan, live, side, tomb>>
      /\ PhaseAgrees /\ RemovalAgrees /\ SidecarsAgree /\ StagedAgrees
      /\ journal \in Journals
  BY PlainFacts DEF Prepare, SavePrepared, CommitGuard, Decide, SaveRollingBack,
     Recover, Rollback, RecordSidecars, UnlinkJournal, files
<1>1. pc' = "stage" => cur' = 1
  BY DEF Prepare, SavePrepared, CommitGuard, Decide, SaveRollingBack, Recover,
     Rollback, RecordSidecars, UnlinkJournal, Goto, Retain
<1>2. pc' # "staged" /\ (\A t \in Targets : ~(t < 1))
  BY DEF Targets, Prepare, SavePrepared, CommitGuard, Decide, SaveRollingBack,
     Recover, Rollback, RecordSidecars, UnlinkJournal, Goto, Retain
<1>3. CASE Prepare \/ UnlinkJournal
  <2>1. journal'.phase \in {"none", "preparing"}
    BY <1>3 DEF Prepare, UnlinkJournal, NoJournal
  <2>2. \A t \in Targets : side[R(t)] = "absent" /\ tomb[R(t)] = "absent"
    <3>1. CASE Prepare
      BY <3>1, SidecarPaths DEF Prepare
    <3>2. CASE UnlinkJournal
      BY <1>0, <3>2, SidecarPaths DEF UnlinkJournal, RemovalAgrees, SidecarsAgree,
         AllRemoved
    <3> QED BY <1>3, <3>1, <3>2
  <2>3. StagedAgrees'
    BY <1>0, <1>1, <1>2, <2>1, <2>2 DEF StagedAgrees
  <2>4. verdict' = "abort" => journal'.phase = "none"
    BY <1>3 DEF Prepare, UnlinkJournal, NoJournal
  <2>5. \A t \in Targets : ReplacementAgrees(t)'
    BY <1>0, <2>1, FilesFrame
  <2> QED BY <2>3, <2>4, <2>5
<1>4. CASE SavePrepared \/ CommitGuard \/ Decide \/ SaveRollingBack \/ Recover
           \/ Rollback \/ RecordSidecars
  <2>1. verdict' # "abort"
    BY <1>0, <1>4 DEF SavePrepared, CommitGuard, Decide, SaveRollingBack, Recover,
       Rollback, RecordSidecars, PhaseAgrees, PlainInv, PlainAgrees, history
  <2>2. /\ journal'.phase = "committing" =>
             journal.phase = "committing" \/ (journal.phase = "prepared" /\ ~Recorded)
        /\ journal'.phase \in {"none", "preparing", "prepared", "committing"} =>
             journal.phase \in {"none", "preparing", "prepared", "committing"}
        /\ journal'.phase = "prepared" =>
             \/ pc = "staged"
             \/ (journal.phase = "prepared" /\ (Recorded => Recorded'))
    <3>1. CASE RecordSidecars
      BY <1>0, <3>1, RecordEffects DEF RecordSidecars, RemovalAgrees
    <3>2. CASE CommitGuard
      BY <1>0, <3>2, SaveEffects, StateNames DEF CommitGuard, PhaseAgrees, Recorded
    <3>3. CASE SavePrepared \/ Decide \/ SaveRollingBack
      BY <1>0, <3>3, SaveEffects, StateNames
      DEF SavePrepared, Decide, SaveRollingBack, PhaseAgrees
    <3>4. CASE Recover \/ Rollback
      <4>1. journal' = journal \/ SavePhase("rolling_back")
        BY <3>4 DEF Recover, Rollback
      <4> QED BY <1>0, <4>1, SaveEffects, StateNames DEF Recorded
    <3> QED BY <1>4, <3>1, <3>2, <3>3, <3>4
  <2>3. StagedAgrees'
    <3>1. journal'.phase = "prepared" /\ ~Recorded' =>
            \A t \in Targets : side[S(t)] = Desired(t)
      BY <1>0, <2>2 DEF StagedAgrees
    <3>2. pc' # "stage"
      BY <1>4 DEF SavePrepared, CommitGuard, Decide, SaveRollingBack, Recover,
         Rollback, RecordSidecars, Goto, Retain
    <3> QED BY <1>0, <1>2, <2>2, <3>1, <3>2 DEF StagedAgrees, Desired
  <2> QED BY <1>0, <2>1, <2>2, <2>3, FilesFrame
<1> QED BY <1>3, <1>4

LEMMA StagePlain ==
  ASSUME PlainInv, StageTarget
  PROVE  /\ StagedAgrees'
         /\ verdict' = "abort" => journal'.phase = "none"
         /\ \A t \in Targets : ReplacementAgrees(t)'
<1>0. /\ UNCHANGED <<plan, live, tomb, journal, verdict>> /\ pc = "stage"
      /\ journal.phase = "preparing" /\ ~Recorded
  BY PlainFacts DEF StageTarget, history, PhaseAgrees, RemovalAgrees, PrepareSteps
<1>1. \A t \in Targets : /\ live[t] # "new" /\ tomb[S(t)] = "absent"
                         /\ side[R(t)] = "absent" /\ tomb[R(t)] = "absent"
  BY <1>0, PlainFacts, SidecarPaths
  DEF TargetAgrees, PhaseAgrees, LoopAgrees, SidecarsAgree, RemovalAgrees,
      StagedAgrees
<1>2. \A t \in Targets :
        /\ side'[R(t)] = side[R(t)]
        /\ t # cur => side'[S(t)] = side[S(t)]
        /\ Desired(t) = "absent" => side'[S(t)] = side[S(t)]
  BY PlainFacts, SidecarPaths, SidecarsDistinct DEF StageTarget, FilesType
<1>3. ASSUME NEW t \in Targets PROVE ReplacementAgrees(t)'
  BY <1>0, <1>1, <1>2, PlainFacts DEF ReplacementAgrees, Desired
<1>4. StagedAgrees'
  <2>1. pc' = "staged" \/ cur' # cur => side'[S(cur)] = Desired(cur)
    BY PlainFacts, SidecarPaths
    DEF StageTarget, ReplacementAgrees, control, FilesType
  <2>2. /\ pc' = "stage" => cur' = cur \/ cur' = cur + 1
        /\ pc' = "staged" => cur = N
        /\ cur' = cur \/ pc' = "stage"
    BY DEF StageTarget, NextStaging, control, Goto
  <2>3. /\ \A t \in Targets : t < cur + 1 => t < cur \/ t = cur
        /\ cur = N => \A t \in Targets : t < cur \/ t = cur
        /\ cur + 1 # cur
    BY PlainFacts, NAssumption DEF Targets
  <2>4. \A t \in Targets : t < cur => side'[S(t)] = Desired(t)
    BY <1>0, <1>2, PlainFacts DEF StagedAgrees, Targets
  <2> QED BY <1>0, <1>1, <1>2, <2>1, <2>2, <2>3, <2>4 DEF StagedAgrees, Desired, Recorded
<1> QED BY <1>0, <1>3, <1>4 DEF PlainInv, PlainAgrees

\* What a rename between a live path and a sidecar does to the target under the
\* cursor, and that no other target sees it.
LEMMA MoveFacts ==
  ASSUME PlainInv, DisplaceLive \/ PlaceStaged \/ UndoPlaced \/ RestoreBackup
  PROVE  /\ UNCHANGED <<plan, tomb, journal, verdict>> /\ verdict # "commit"
         /\ \A t \in Targets \ {cur} :
              /\ live'[t] = live[t] /\ side'[S(t)] = side[S(t)]
              /\ side'[B(t)] = side[B(t)] /\ side'[R(t)] = side[R(t)]
         /\ \/ /\ live'[cur] = live[cur] /\ side'[S(cur)] = side[S(cur)]
               /\ side'[B(cur)] = side[B(cur)] /\ side'[R(cur)] = side[R(cur)]
            \/ /\ DisplaceLive /\ journal.phase = "committing"
               /\ live[cur] = "old" /\ live'[cur] = "absent" /\ side'[B(cur)] = "old"
               /\ side'[S(cur)] = side[S(cur)] /\ side'[R(cur)] = side[R(cur)]
            \/ /\ PlaceStaged /\ journal.phase = "committing"
               /\ side[S(cur)] = "new" /\ Desired(cur) = "new"
               /\ live[cur] = "absent" /\ live'[cur] = "new"
               /\ side'[S(cur)] = "absent"
               /\ side'[B(cur)] = side[B(cur)] /\ side'[R(cur)] = side[R(cur)]
            \/ /\ UndoPlaced /\ journal.phase = "rolling_back"
               /\ live[cur] = "new" /\ live'[cur] = "absent" /\ side'[R(cur)] = "new"
               /\ side'[S(cur)] = side[S(cur)] /\ side'[B(cur)] = side[B(cur)]
            \/ /\ RestoreBackup /\ journal.phase = "rolling_back"
               /\ live[cur] = "absent" /\ live'[cur] = "old"
               /\ side[B(cur)] = "old" /\ side'[B(cur)] = "absent"
               /\ side'[S(cur)] = side[S(cur)] /\ side'[R(cur)] = side[R(cur)]
<1>0. /\ UNCHANGED <<plan, tomb, journal, verdict>> /\ verdict # "commit"
  BY PlainFacts DEF DisplaceLive, PlaceStaged, UndoPlaced, RestoreBackup, history,
     PhaseAgrees, CommitSteps, RewindSteps
<1>1. \A t \in Targets \ {cur} :
        /\ live'[t] = live[t] /\ side'[S(t)] = side[S(t)]
        /\ side'[B(t)] = side[B(t)] /\ side'[R(t)] = side[R(t)]
  BY PlainFacts, SidecarPaths, SidecarsDistinct
  DEF DisplaceLive, PlaceStaged, UndoPlaced, RestoreBackup, MoveIn, MoveOut, FilesType
<1>2. CASE UNCHANGED <<live, side>>
  BY <1>0, <1>1, <1>2
<1>3. CASE DisplaceLive /\ ~UNCHANGED <<live, side>>
  <2>1. /\ journal.phase = "committing" /\ State(cur) = "pending"
        /\ live[cur] # "absent" /\ MoveOut(cur, B(cur))
    BY <1>3, PlainFacts DEF DisplaceLive, PhaseAgrees, LoopAgrees, CommitSteps
  <2>2. live[cur] = "old"
    BY <1>0, <2>1, PlainFacts DEF TargetAgrees
  <2>3. /\ live'[cur] = "absent" /\ side'[B(cur)] = "old"
        /\ side'[S(cur)] = side[S(cur)] /\ side'[R(cur)] = side[R(cur)]
    BY <2>1, <2>2, PlainFacts, SidecarPaths, SidecarsDistinct DEF MoveOut, FilesType
  <2> QED BY <1>0, <1>1, <1>3, <2>1, <2>2, <2>3
<1>4. CASE PlaceStaged /\ ~UNCHANGED <<live, side>>
  <2>1. /\ journal.phase = "committing" /\ side[S(cur)] = Desired(cur)
        /\ live[cur] = "absent" /\ MoveIn(S(cur), cur)
    BY <1>4, PlainFacts DEF PlaceStaged, PhaseAgrees, LoopAgrees, CommitSteps
  <2>2. /\ live'[cur] = Desired(cur) /\ side'[S(cur)] = "absent"
        /\ side'[B(cur)] = side[B(cur)] /\ side'[R(cur)] = side[R(cur)]
    BY <2>1, PlainFacts, SidecarPaths, SidecarsDistinct DEF MoveIn, FilesType
  <2>3. Desired(cur) \in {"absent", "new"}
    BY PlainFacts
  <2> QED BY <1>0, <1>1, <1>4, <2>1, <2>2, <2>3
<1>5. CASE UndoPlaced /\ ~UNCHANGED <<live, side>>
  <2>1. /\ journal.phase = "rolling_back" /\ live[cur] = Desired(cur)
        /\ live[cur] # "absent" /\ MoveOut(cur, R(cur))
    BY <1>5, PlainFacts DEF UndoPlaced, PhaseAgrees, CursorAgrees, RewindSteps
  <2>2. live[cur] = "new"
    BY <2>1, PlainFacts
  <2>3. /\ live'[cur] = "absent" /\ side'[R(cur)] = "new"
        /\ side'[S(cur)] = side[S(cur)] /\ side'[B(cur)] = side[B(cur)]
    BY <2>1, <2>2, PlainFacts, SidecarPaths, SidecarsDistinct DEF MoveOut, FilesType
  <2> QED BY <1>0, <1>1, <1>5, <2>1, <2>2, <2>3
<1>6. CASE RestoreBackup /\ ~UNCHANGED <<live, side>>
  <2>1. /\ journal.phase = "rolling_back" /\ side[B(cur)] = Expected(cur)
        /\ side[B(cur)] # "absent" /\ live[cur] = "absent" /\ MoveIn(B(cur), cur)
    BY <1>6, PlainFacts DEF RestoreBackup, PhaseAgrees, CursorAgrees, RewindSteps
  <2>2. side[B(cur)] = "old"
    BY <2>1, PlainFacts
  <2>3. /\ live'[cur] = "old" /\ side'[B(cur)] = "absent"
        /\ side'[S(cur)] = side[S(cur)] /\ side'[R(cur)] = side[R(cur)]
    BY <2>1, <2>2, PlainFacts, SidecarPaths, SidecarsDistinct DEF MoveIn, FilesType
  <2> QED BY <1>0, <1>1, <1>6, <2>1, <2>2, <2>3
<1> QED BY <1>2, <1>3, <1>4, <1>5, <1>6

LEMMA MovePlain ==
  ASSUME PlainInv, DisplaceLive \/ PlaceStaged \/ UndoPlaced \/ RestoreBackup
  PROVE  /\ StagedAgrees'
         /\ verdict' = "abort" => journal'.phase = "none"
         /\ \A t \in Targets : ReplacementAgrees(t)'
<1>0. /\ UNCHANGED <<plan, tomb, journal, verdict>>
      /\ journal.phase \in {"committing", "rolling_back"} /\ ~Recorded
      /\ pc' \notin {"stage", "staged"}
  BY PlainFacts
  DEF DisplaceLive, PlaceStaged, UndoPlaced, RestoreBackup, PhaseAgrees, history,
      RemovalAgrees, RemovalReady, CommitSteps, RewindSteps, Goto, Retain
<1>1. \A t \in Targets : tomb[S(t)] = "absent" /\ tomb[R(t)] = "absent"
  BY <1>0, PlainFacts, SidecarPaths DEF RemovalAgrees, SidecarsAgree
<1>2. journal.phase = "committing" => \A t \in Targets : side'[R(t)] = "absent"
  <2>1. journal.phase = "committing" => \A t \in Targets : side[R(t)] = "absent"
    BY PlainFacts DEF StagedAgrees
  <2> QED BY <2>1, MoveFacts
<1>3. StagedAgrees'
  BY <1>0, <1>1, <1>2 DEF StagedAgrees
<1>4. ASSUME NEW t \in Targets PROVE ReplacementAgrees(t)'
  <2>1. ReplacementAgrees(t) /\ Desired(t) \in {"absent", "new"} /\ Desired(t)' = Desired(t)
    BY <1>0, PlainFacts DEF Desired
  <2>2. CASE /\ live'[t] = live[t] /\ side'[S(t)] = side[S(t)]
             /\ side'[R(t)] = side[R(t)]
    BY <1>0, <2>1, <2>2 DEF ReplacementAgrees
  <2>3. CASE /\ live'[t] = "absent" /\ live[t] = "old"
             /\ side'[S(t)] = side[S(t)] /\ side'[R(t)] = side[R(t)]
    BY <1>0, <2>1, <2>3 DEF ReplacementAgrees
  <2>4. CASE /\ live'[t] = "new" /\ side'[S(t)] = "absent" /\ Desired(t) = "new"
             /\ journal.phase = "committing"
    BY <1>0, <1>1, <1>2, <2>1, <2>4 DEF ReplacementAgrees
  <2>5. CASE /\ live'[t] = "absent" /\ live[t] = "new" /\ side'[R(t)] = "new"
             /\ side'[S(t)] = side[S(t)] /\ journal.phase = "rolling_back"
    BY <1>0, <1>1, <2>1, <2>5 DEF ReplacementAgrees
  <2>6. CASE /\ live'[t] = "old" /\ journal.phase = "rolling_back"
             /\ side'[S(t)] = side[S(t)] /\ side'[R(t)] = side[R(t)]
    BY <1>0, <2>1, <2>6 DEF ReplacementAgrees
  <2> QED BY <2>2, <2>3, <2>4, <2>5, <2>6, MoveFacts
<1> QED BY <1>0, <1>3, <1>4 DEF PlainInv, PlainAgrees

\* A sidecar on its way out: its content moves to its tomb, or leaves the tomb.
LEMMA DiscardFacts ==
  ASSUME PlainInv, NEW s \in Sidecars, TombSidecar(s) \/ RemoveTomb(s)
  PROVE  /\ UNCHANGED <<plan, live, journal, verdict, pc>>
         /\ pc = "discard" /\ Recorded /\ RemovalReady
         /\ \A r \in Sidecars \ {s} : side'[r] = side[r] /\ tomb'[r] = tomb[r]
         /\ side'[s] = "absent"
         /\ \/ TombSidecar(s) /\ tomb[s] = "absent" /\ tomb'[s] = side[s]
            \/ /\ RemoveTomb(s) /\ journal.cleanup[s] = "tombed"
               /\ side[s] = "absent" /\ tomb'[s] = "absent"
<1>1. /\ UNCHANGED <<plan, live, journal, verdict, pc>>
      /\ pc = "discard" /\ Recorded /\ RemovalReady
  BY PlainFacts DEF TombSidecar, RemoveTomb, Discarding, control, history, RemovalAgrees
<1>2. CASE TombSidecar(s)
  BY <1>1, <1>2, PlainFacts DEF TombSidecar, FilesType
<1>3. CASE RemoveTomb(s)
  BY <1>1, <1>3, PlainFacts DEF RemoveTomb, FilesType
<1> QED BY <1>2, <1>3

LEMMA DiscardPlain ==
  ASSUME PlainInv, NEW s \in Sidecars, TombSidecar(s) \/ RemoveTomb(s)
  PROVE  /\ StagedAgrees'
         /\ verdict' = "abort" => journal'.phase = "none"
         /\ \A t \in Targets : ReplacementAgrees(t)'
<1>1. /\ UNCHANGED <<plan, live, journal, verdict, pc>>
      /\ pc = "discard" /\ Recorded /\ journal.phase # "committing"
      /\ \A r \in Sidecars : \/ side'[r] = side[r] /\ tomb'[r] = tomb[r]
                             \/ side'[r] = "absent" /\ tomb'[r] \in {side[r], "absent"}
  BY DiscardFacts, PlainFacts DEF RemovalReady
<1>2. StagedAgrees'
  BY <1>1, PlainFacts, SidecarPaths DEF StagedAgrees, Recorded
<1>3. ASSUME NEW t \in Targets PROVE ReplacementAgrees(t)'
  <2>1. /\ \/ side'[S(t)] = side[S(t)] /\ tomb'[S(t)] = tomb[S(t)]
           \/ side'[S(t)] = "absent" /\ tomb'[S(t)] \in {side[S(t)], "absent"}
        /\ \/ side'[R(t)] = side[R(t)] /\ tomb'[R(t)] = tomb[R(t)]
           \/ side'[R(t)] = "absent" /\ tomb'[R(t)] \in {side[R(t)], "absent"}
    BY <1>1, SidecarPaths
  <2> QED BY <1>1, <2>1, PlainFacts DEF ReplacementAgrees, Desired
<1> QED BY <1>1, <1>2, <1>3 DEF PlainInv, PlainAgrees

\* A transaction nobody writes into stays one.
LEMMA NextPlain ==
  ASSUME PlainInv, [Next]_vars, spent'.edit = 0
  PROVE  PlainInv'
<1>1. /\ ~(\E t \in Targets, c \in Contents : Edit(t, c))
      /\ spent'.edit = 0 /\ spent'.touched = {}
  <2>1. TypeOK /\ spent \in Budgets /\ spent.edit = 0 /\ spent.touched = {}
    BY PlainFacts DEF TypeOK, PlainInv, PlainAgrees
  <2>2. \A t \in Targets, c \in Contents : Edit(t, c) => spent'.edit = spent.edit + 1
    BY <2>1 DEF Edit, Budgets
  <2> QED BY <2>1, <2>2, EditCount
<1>2. /\ StagedAgrees'
      /\ verdict' = "abort" => journal'.phase = "none"
      /\ \A t \in Targets : ReplacementAgrees(t)'
  BY <1>1, StepKinds, StillPlain, PhasePlain, StagePlain, MovePlain, DiscardPlain
  DEF Still, PrepareStep
<1>3. OutcomeInv' /\ ContentsAgree'
  BY NextOutcome, NextContents DEF PlainInv, OutcomeInv, ContentsInv
<1> QED BY <1>1, <1>2, <1>3 DEF PlainInv, PlainAgrees

\* The abstract entries are read from the live path, the sidecars and their tombs.
LEMMA AbsEntries ==
  /\ AbsOriginal \in [Targets -> {"live", "aside", "absent"}]
  /\ AbsReplacement \in [Targets -> {"live", "withdrawn", "staged", "absent"}]
  /\ \A t \in Targets :
       /\ AbsOriginal[t] = "live" <=> live[t] = "old"
       /\ AbsOriginal[t] = "aside" <=>
            live[t] # "old" /\ (side[B(t)] = "old" \/ tomb[B(t)] = "old")
       /\ AbsReplacement[t] = "live" <=> live[t] = "new"
       /\ AbsReplacement[t] = "withdrawn" <=>
            live[t] # "new" /\ (side[R(t)] = "new" \/ tomb[R(t)] = "new")
       /\ AbsReplacement[t] = "staged" <=>
            /\ live[t] # "new" /\ side[R(t)] # "new" /\ tomb[R(t)] # "new"
            /\ side[S(t)] = "new" \/ tomb[S(t)] = "new"
BY DEF AbsOriginal, AbsReplacement

LEMMA AbsEntriesNext ==
  /\ AbsOriginal' \in [Targets -> {"live", "aside", "absent"}]
  /\ AbsReplacement' \in [Targets -> {"live", "withdrawn", "staged", "absent"}]
  /\ \A t \in Targets :
       /\ AbsOriginal'[t] = "live" <=> live'[t] = "old"
       /\ AbsOriginal'[t] = "aside" <=>
            live'[t] # "old" /\ (side'[B(t)] = "old" \/ tomb'[B(t)] = "old")
       /\ AbsReplacement'[t] = "live" <=> live'[t] = "new"
       /\ AbsReplacement'[t] = "withdrawn" <=>
            live'[t] # "new" /\ (side'[R(t)] = "new" \/ tomb'[R(t)] = "new")
       /\ AbsReplacement'[t] = "staged" <=>
            /\ live'[t] # "new" /\ side'[R(t)] # "new" /\ tomb'[R(t)] # "new"
            /\ side'[S(t)] = "new" \/ tomb'[S(t)] = "new"
BY DEF AbsOriginal, AbsReplacement

\* Two functions on the same entries that agree everywhere are the same.
LEMMA SameEntries ==
  ASSUME NEW V, NEW f \in [Targets -> V], NEW g \in [Targets -> V],
         \A t \in Targets : f[t] = g[t]
  PROVE  f = g
OBVIOUS

LEMMA OriginalsStay ==
  ASSUME \A t \in Targets :
           /\ live'[t] = "old" <=> live[t] = "old"
           /\ (side'[B(t)] = "old" \/ tomb'[B(t)] = "old") <=>
                (side[B(t)] = "old" \/ tomb[B(t)] = "old")
  PROVE  AbsOriginal' = AbsOriginal
<1>1. \A t \in Targets : AbsOriginal'[t] = AbsOriginal[t]
  BY AbsEntries, AbsEntriesNext
<1> QED BY <1>1, AbsEntries, AbsEntriesNext, SameEntries

LEMMA ReplacementsStay ==
  ASSUME \A t \in Targets :
           /\ live'[t] = "new" <=> live[t] = "new"
           /\ (side'[S(t)] = "new" \/ tomb'[S(t)] = "new") <=>
                (side[S(t)] = "new" \/ tomb[S(t)] = "new")
           /\ (side'[R(t)] = "new" \/ tomb'[R(t)] = "new") <=>
                (side[R(t)] = "new" \/ tomb[R(t)] = "new")
  PROVE  AbsReplacement' = AbsReplacement
<1>1. \A t \in Targets : AbsReplacement'[t] = AbsReplacement[t]
  BY AbsEntries, AbsEntriesNext
<1> QED BY <1>1, AbsEntries, AbsEntriesNext, SameEntries

LEMMA OriginalMoves ==
  ASSUME NEW t \in Targets, NEW x, AbsOriginal'[t] = x,
         \A u \in Targets \ {t} : live'[u] = live[u] /\ side'[B(u)] = side[B(u)]
                                  /\ tomb'[B(u)] = tomb[B(u)]
  PROVE  AbsOriginal' = [AbsOriginal EXCEPT ![t] = x]
<1>1. \A u \in Targets \ {t} : AbsOriginal'[u] = AbsOriginal[u]
  BY AbsEntries, AbsEntriesNext
<1>2. \A u \in Targets : AbsOriginal'[u] = [AbsOriginal EXCEPT ![t] = x][u]
  BY <1>1, AbsEntries
<1> QED BY <1>2, AbsEntries, AbsEntriesNext

LEMMA ReplacementMoves ==
  ASSUME NEW t \in Targets, NEW x, AbsReplacement'[t] = x,
         \A u \in Targets \ {t} :
           /\ live'[u] = live[u]
           /\ side'[S(u)] = side[S(u)] /\ tomb'[S(u)] = tomb[S(u)]
           /\ side'[R(u)] = side[R(u)] /\ tomb'[R(u)] = tomb[R(u)]
  PROVE  AbsReplacement' = [AbsReplacement EXCEPT ![t] = x]
<1>1. \A u \in Targets \ {t} : AbsReplacement'[u] = AbsReplacement[u]
  BY AbsEntries, AbsEntriesNext
<1>2. \A u \in Targets : AbsReplacement'[u] = [AbsReplacement EXCEPT ![t] = x][u]
  BY <1>1, AbsEntries
<1> QED BY <1>2, AbsEntries, AbsEntriesNext

LEMMA PlanStays ==
  plan' = plan => UNCHANGED Atomic!plan
BY DEF Atomic!plan, Expected, Desired

LEMMA InitAtomic == Init => Atomic!Init
<1> SUFFICES ASSUME Init PROVE Atomic!Init
  OBVIOUS
<1>1. AbsDecision = "open"
  BY DEF Init, NoJournal, AbsDecision
<1>2. \A t \in Targets :
        /\ live[t] = Expected(t) /\ Expected(t) \in {"absent", "old"}
        /\ side[S(t)] = "absent" /\ side[B(t)] = "absent" /\ side[R(t)] = "absent"
        /\ tomb[S(t)] = "absent" /\ tomb[B(t)] = "absent" /\ tomb[R(t)] = "absent"
  BY SidecarPaths DEF Init, Plans, Expected
<1>3. AbsOriginal = [t \in Targets |->
        IF t \in {u \in Targets : Expected(u) # "absent"} THEN "live" ELSE "absent"]
  BY <1>2 DEF AbsOriginal
<1>4. AbsReplacement = [t \in Targets |-> "absent"]
  BY <1>2 DEF AbsReplacement
<1> QED BY <1>1, <1>3, <1>4 DEF Atomic!Init

LEMMA StillSimulates ==
  ASSUME PlainInv, Still
  PROVE  UNCHANGED Atomic!vars
<1>1. /\ UNCHANGED <<plan, live, side, tomb, verdict>>
      /\ journal'.phase = journal.phase /\ (Recorded' <=> Recorded)
  BY StillKeeps DEF PlainInv, OutcomeInv
<1>2. AbsDecision' = AbsDecision
  BY <1>1 DEF AbsDecision
<1>3. AbsOriginal' = AbsOriginal /\ AbsReplacement' = AbsReplacement
  BY <1>1, OriginalsStay, ReplacementsStay
<1> QED BY <1>1, <1>2, <1>3, PlanStays DEF Atomic!vars, Atomic!plan

\* Saving a phase or the manifest is a stutter or the abstract decision to abort.
LEMMA PhaseSimulates ==
  ASSUME PlainInv,
         Prepare \/ SavePrepared \/ CommitGuard \/ SaveRollingBack \/ Recover
         \/ Rollback \/ RecordSidecars \/ UnlinkJournal
  PROVE  [Atomic!Next]_(Atomic!vars)
<1>0. UNCHANGED <<plan, live, side, tomb>> /\ PhaseAgrees /\ RemovalAgrees
      /\ journal \in Journals
  BY PlainFacts DEF Prepare, SavePrepared, CommitGuard, SaveRollingBack,
     Recover, Rollback, RecordSidecars, UnlinkJournal, files
<1>1. UNCHANGED Atomic!plan /\ AbsOriginal' = AbsOriginal
      /\ AbsReplacement' = AbsReplacement
  BY <1>0, OriginalsStay, ReplacementsStay, PlanStays
<1>2. AbsDecision' = AbsDecision \/ (AbsDecision = "open" /\ AbsDecision' = "abort")
  <2>1. CASE Prepare
    <3>1. /\ verdict = "unstarted" /\ verdict' = "open"
          /\ journal.phase = "none" /\ journal'.phase = "preparing"
          /\ journal'.cleanup[S(1)] = "unrecorded"
      BY <1>0, <2>1, FirstTarget, SidecarPaths DEF Prepare, NoJournal, PhaseAgrees
    <3>2. ~Recorded'
      BY <3>1, FirstTarget, SidecarPaths DEF Recorded
    <3> QED BY <3>1, <3>2 DEF AbsDecision
  <2>2. CASE SavePrepared \/ CommitGuard
    <3>1. /\ ~Recorded \/ journal' = journal
          /\ verdict' = verdict /\ journal'.cleanup = journal.cleanup
          /\ journal.phase \in {"preparing", "prepared", "committing"}
          /\ journal'.phase \in {"preparing", "prepared", "committing"}
      BY <1>0, <2>2, SaveEffects, StateNames
      DEF SavePrepared, CommitGuard, RemovalAgrees, PhaseAgrees, PrepareSteps, history
    <3>2. Recorded' <=> Recorded
      BY <3>1 DEF Recorded
    <3> QED BY <3>1, <3>2 DEF AbsDecision
  <2>3. CASE SaveRollingBack \/ Recover \/ Rollback
    <3>1. verdict' = verdict /\ (journal' = journal \/ SavePhase("rolling_back"))
      BY <2>3 DEF SaveRollingBack, Recover, Rollback, history
    <3>2. CASE journal' = journal
      BY <3>1, <3>2 DEF AbsDecision, Recorded
    <3>3. CASE SavePhase("rolling_back")
      <4>1. journal'.phase = "rolling_back"
        BY <1>0, <3>3, SaveEffects, StateNames
      <4> QED BY <3>1, <4>1 DEF AbsDecision
    <3> QED BY <3>1, <3>2, <3>3
  <2>4. CASE RecordSidecars
    <3>1. verdict' = verdict /\ journal'.phase = journal.phase /\ ~Recorded
      BY <1>0, <2>4, RecordEffects DEF RecordSidecars, RemovalAgrees, history
    <3> QED BY <3>1 DEF AbsDecision
  <2>5. CASE UnlinkJournal
    <3>1. verdict' = IF verdict = "commit" THEN "commit" ELSE "abort"
      BY <2>5 DEF UnlinkJournal
    <3> QED BY <3>1 DEF AbsDecision
  <2> QED BY <2>1, <2>2, <2>3, <2>4, <2>5
<1> QED BY <1>1, <1>2 DEF Atomic!Next, Atomic!Abort, Atomic!vars, Atomic!plan

\* The save of phase "cleanup" is the abstract commit.
LEMMA DecideSimulates ==
  ASSUME PlainInv, Decide
  PROVE  Atomic!Next
<1>1. /\ UNCHANGED <<plan, live, side, tomb>> /\ verdict' = "commit"
      /\ journal.phase = "committing" /\ verdict \notin {"commit", "abort"}
      /\ \A t \in Targets : State(t) = "committed"
  BY PlainFacts DEF Decide, PhaseAgrees, LoopAgrees, PlainInv, PlainAgrees, files
<1>2. \A t \in Targets : live[t] = Desired(t) /\ Desired(t) \in {"absent", "new"}
  BY <1>1, PlainFacts DEF TargetAgrees
<1>3. AbsDecision = "open" /\ AbsDecision' = "commit"
  BY <1>1 DEF AbsDecision
<1>4. /\ \A t \in Targets : AbsOriginal[t] # "live"
      /\ \A t \in {u \in Targets : Desired(u) # "absent"} : AbsReplacement[t] = "live"
  BY <1>2, AbsEntries
<1>5. AbsOriginal' = AbsOriginal /\ AbsReplacement' = AbsReplacement
  BY <1>1, OriginalsStay, ReplacementsStay
<1>6. UNCHANGED Atomic!plan
  BY <1>1, PlanStays
<1> QED BY <1>3, <1>4, <1>5, <1>6 DEF Atomic!Next, Atomic!Commit, Atomic!plan

\* A staged tree counts once it is complete.
LEMMA StageSimulates ==
  ASSUME PlainInv, StageTarget
  PROVE  [Atomic!Next]_(Atomic!vars)
<1>1. /\ UNCHANGED <<plan, live, tomb, journal, verdict>>
      /\ journal.phase = "preparing" /\ ~Recorded
      /\ verdict \notin {"commit", "abort"} /\ cur \in Targets
  BY PlainFacts DEF StageTarget, history, PhaseAgrees, RemovalAgrees, PrepareSteps,
     PlainInv, PlainAgrees
<1>2. /\ side'[B(cur)] = side[B(cur)] /\ side'[R(cur)] = side[R(cur)]
      /\ \A u \in Targets \ {cur} :
           /\ side'[S(u)] = side[S(u)] /\ side'[B(u)] = side[B(u)]
           /\ side'[R(u)] = side[R(u)]
      /\ \/ side'[S(cur)] = side[S(cur)]
         \/ side[S(cur)] = "absent" /\ side'[S(cur)] = "partial"
         \/ side'[S(cur)] = "new" /\ Desired(cur) # "absent"
  BY PlainFacts, SidecarPaths, SidecarsDistinct DEF StageTarget, FilesType
<1>3. /\ AbsDecision' = AbsDecision /\ AbsDecision = "open"
      /\ AbsOriginal' = AbsOriginal /\ UNCHANGED Atomic!plan
  <2>1. AbsOriginal' = AbsOriginal
    BY <1>1, <1>2, OriginalsStay
  <2> QED BY <1>1, <2>1, PlanStays DEF AbsDecision, Recorded
<1>4. CASE side'[S(cur)] = "new" /\ side[S(cur)] # "new" /\ Desired(cur) # "absent"
  <2>1. /\ live[cur] # "new" /\ side[R(cur)] = "absent" /\ tomb[R(cur)] = "absent"
        /\ tomb[S(cur)] = "absent"
    BY <1>1, PlainFacts, SidecarPaths
    DEF TargetAgrees, LoopAgrees, StagedAgrees, SidecarsAgree, RemovalAgrees
  <2>2. AbsReplacement[cur] = "absent"
    BY <1>1, <1>4, <2>1, AbsEntries
  <2>3. AbsReplacement'[cur] = "staged"
    BY <1>1, <1>2, <1>4, <2>1, AbsEntriesNext
  <2>4. AbsReplacement' = [AbsReplacement EXCEPT ![cur] = "staged"]
    BY <1>1, <1>2, <2>3, ReplacementMoves
  <2>5. Atomic!Stage(cur)
    BY <1>1, <1>3, <1>4, <2>2, <2>4 DEF Atomic!Stage, Atomic!plan
  <2> QED BY <1>1, <2>5 DEF Atomic!Next
<1>5. CASE ~(side'[S(cur)] = "new" /\ side[S(cur)] # "new" /\ Desired(cur) # "absent")
  <2>1. \A u \in Targets : side'[S(u)] = "new" <=> side[S(u)] = "new"
    BY <1>2, <1>5
  <2>2. AbsReplacement' = AbsReplacement
    BY <1>1, <1>2, <2>1, ReplacementsStay
  <2> QED BY <1>3, <2>2 DEF Atomic!vars, Atomic!plan
<1> QED BY <1>4, <1>5

\* Each rename of a live entry is one abstract step, or none when nothing moved.
LEMMA MoveSimulates ==
  ASSUME PlainInv, DisplaceLive \/ PlaceStaged \/ UndoPlaced \/ RestoreBackup
  PROVE  [Atomic!Next]_(Atomic!vars)
<1>0. /\ UNCHANGED <<plan, tomb, journal, verdict>> /\ cur \in Targets
      /\ verdict \notin {"commit", "abort"}
      /\ \A u \in Targets \ {cur} :
           /\ live'[u] = live[u] /\ side'[S(u)] = side[S(u)]
           /\ side'[B(u)] = side[B(u)] /\ side'[R(u)] = side[R(u)]
           /\ tomb'[S(u)] = tomb[S(u)] /\ tomb'[B(u)] = tomb[B(u)]
           /\ tomb'[R(u)] = tomb[R(u)]
  <2>1. verdict # "abort"
    BY PlainFacts DEF PlainInv, PlainAgrees, PhaseAgrees, DisplaceLive, PlaceStaged,
       UndoPlaced, RestoreBackup
  <2> QED BY <2>1, PlainFacts, MoveFacts
<1>1. UNCHANGED Atomic!plan /\ AbsDecision' = AbsDecision
  BY <1>0, PlanStays DEF AbsDecision, Recorded
<1>2. /\ journal.phase = "committing" => AbsDecision = "open"
      /\ journal.phase = "rolling_back" => AbsDecision = "abort"
  BY <1>0 DEF AbsDecision
<1>3. journal.phase = "committing" =>
        \A u \in {t \in Targets : Desired(t) # "absent"} : AbsReplacement[u] # "absent"
  <2> SUFFICES ASSUME journal.phase = "committing", NEW u \in Targets,
                      Desired(u) # "absent"
               PROVE  AbsReplacement[u] # "absent"
    OBVIOUS
  <2>1. Desired(u) = "new" /\ (live[u] = "new" \/ side[S(u)] = "new")
    BY PlainFacts DEF ReplacementAgrees
  <2> QED BY <2>1, AbsEntries
<1>4. CASE /\ live'[cur] = live[cur] /\ side'[S(cur)] = side[S(cur)]
           /\ side'[B(cur)] = side[B(cur)] /\ side'[R(cur)] = side[R(cur)]
  <2>1. AbsOriginal' = AbsOriginal
    BY <1>0, <1>4, OriginalsStay
  <2>2. AbsReplacement' = AbsReplacement
    BY <1>0, <1>4, ReplacementsStay
  <2> QED BY <1>1, <2>1, <2>2 DEF Atomic!vars, Atomic!plan
<1>5. CASE /\ DisplaceLive /\ journal.phase = "committing"
           /\ live[cur] = "old" /\ live'[cur] = "absent" /\ side'[B(cur)] = "old"
           /\ side'[S(cur)] = side[S(cur)] /\ side'[R(cur)] = side[R(cur)]
  <2>1. AbsOriginal[cur] = "live" /\ AbsOriginal'[cur] = "aside"
    BY <1>0, <1>5, AbsEntries, AbsEntriesNext
  <2>2. AbsOriginal' = [AbsOriginal EXCEPT ![cur] = "aside"]
    BY <1>0, <2>1, OriginalMoves
  <2>3. AbsReplacement' = AbsReplacement
    BY <1>0, <1>5, ReplacementsStay
  <2>4. Atomic!Displace(cur)
    BY <1>1, <1>2, <1>3, <1>5, <2>1, <2>2, <2>3 DEF Atomic!Displace, Atomic!plan
  <2> QED BY <1>0, <2>4 DEF Atomic!Next
<1>6. CASE /\ PlaceStaged /\ journal.phase = "committing"
           /\ side[S(cur)] = "new" /\ Desired(cur) = "new"
           /\ live[cur] = "absent" /\ live'[cur] = "new"
           /\ side'[S(cur)] = "absent"
           /\ side'[B(cur)] = side[B(cur)] /\ side'[R(cur)] = side[R(cur)]
  <2>1. side[R(cur)] = "absent" /\ tomb[R(cur)] = "absent"
    BY <1>6, PlainFacts DEF StagedAgrees
  <2>2. /\ AbsReplacement[cur] = "staged" /\ AbsReplacement'[cur] = "live"
        /\ AbsOriginal[cur] # "live"
    BY <1>0, <1>6, <2>1, AbsEntries, AbsEntriesNext
  <2>3. AbsReplacement' = [AbsReplacement EXCEPT ![cur] = "live"]
    BY <1>0, <2>2, ReplacementMoves
  <2>4. AbsOriginal' = AbsOriginal
    BY <1>0, <1>6, OriginalsStay
  <2>5. Atomic!Place(cur)
    BY <1>1, <1>2, <1>3, <1>6, <2>2, <2>3, <2>4 DEF Atomic!Place, Atomic!plan
  <2> QED BY <1>0, <2>5 DEF Atomic!Next
<1>7. CASE /\ UndoPlaced /\ journal.phase = "rolling_back"
           /\ live[cur] = "new" /\ live'[cur] = "absent" /\ side'[R(cur)] = "new"
           /\ side'[S(cur)] = side[S(cur)] /\ side'[B(cur)] = side[B(cur)]
  <2>1. AbsReplacement[cur] = "live" /\ AbsReplacement'[cur] = "withdrawn"
    BY <1>0, <1>7, AbsEntries, AbsEntriesNext
  <2>2. AbsReplacement' = [AbsReplacement EXCEPT ![cur] = "withdrawn"]
    BY <1>0, <2>1, ReplacementMoves
  <2>3. AbsOriginal' = AbsOriginal
    BY <1>0, <1>7, OriginalsStay
  <2>4. Atomic!Withdraw(cur)
    BY <1>1, <1>2, <1>7, <2>1, <2>2, <2>3 DEF Atomic!Withdraw, Atomic!plan
  <2> QED BY <1>0, <2>4 DEF Atomic!Next
<1>8. CASE /\ RestoreBackup /\ journal.phase = "rolling_back"
           /\ live[cur] = "absent" /\ live'[cur] = "old"
           /\ side[B(cur)] = "old" /\ side'[B(cur)] = "absent"
           /\ side'[S(cur)] = side[S(cur)] /\ side'[R(cur)] = side[R(cur)]
  <2>1. /\ AbsOriginal[cur] = "aside" /\ AbsOriginal'[cur] = "live"
        /\ AbsReplacement[cur] # "live"
    BY <1>0, <1>8, AbsEntries, AbsEntriesNext
  <2>2. AbsOriginal' = [AbsOriginal EXCEPT ![cur] = "live"]
    BY <1>0, <2>1, OriginalMoves
  <2>3. AbsReplacement' = AbsReplacement
    BY <1>0, <1>8, ReplacementsStay
  <2>4. Atomic!Restore(cur)
    BY <1>1, <1>2, <1>8, <2>1, <2>2, <2>3 DEF Atomic!Restore, Atomic!plan
  <2> QED BY <1>0, <2>4 DEF Atomic!Next
<1> QED BY <1>4, <1>5, <1>6, <1>7, <1>8, MoveFacts

\* A sidecar renamed to its tomb is where it was; a tomb that goes is disposed of.
LEMMA DiscardSimulates ==
  ASSUME PlainInv, NEW s \in Sidecars, TombSidecar(s) \/ RemoveTomb(s)
  PROVE  [Atomic!Next]_(Atomic!vars)
<1>0. /\ UNCHANGED <<plan, live, journal, verdict>>
      /\ Recorded /\ RemovalReady /\ side'[s] = "absent"
      /\ \A r \in Sidecars \ {s} : side'[r] = side[r] /\ tomb'[r] = tomb[r]
  BY DiscardFacts
<1>1. UNCHANGED Atomic!plan /\ AbsDecision' = AbsDecision
  BY <1>0, PlanStays DEF AbsDecision, Recorded
<1> DEFINE Keeps(c) == \A r \in Sidecars :
             (side'[r] = c \/ tomb'[r] = c) <=> (side[r] = c \/ tomb[r] = c)
<1>2. Keeps("old") => AbsOriginal' = AbsOriginal
  BY <1>0, SidecarPaths, OriginalsStay
<1>3. Keeps("new") => AbsReplacement' = AbsReplacement
  BY <1>0, SidecarPaths, ReplacementsStay
<1>4. CASE Keeps("old") /\ Keeps("new")
  BY <1>1, <1>2, <1>3, <1>4 DEF Atomic!vars, Atomic!plan
<1>5. CASE RemoveTomb(s) /\ tomb[s] \in {"old", "new"}
  <2>0. /\ side[s] = "absent" /\ tomb'[s] = "absent"
        /\ journal.cleanup[s] = "tombed"
    BY <1>5, DiscardFacts DEF RemoveTomb
  <2>1. Keeps("old") \/ tomb[s] = "old"
    BY <1>0, <2>0
  <2>2. Keeps("new") \/ tomb[s] = "new"
    BY <1>0, <2>0
  <2>3. PICK t \in Targets : s = S(t) \/ s = B(t) \/ s = R(t)
    BY SidecarCases
  <2>4. CASE journal.phase = "cleanup"
    <3>1. verdict = "commit" /\ live[t] = Desired(t) /\ AbsDecision = "commit"
      BY <2>4, PlainFacts DEF PhaseAgrees, TargetAgrees, AbsDecision
    <3>2. s = B(t)
      BY <1>0, <1>5, <2>3, <2>4, PlainFacts DEF ContentsAgree
    <3>3. journal.backup[t] \in {"old", "new"} /\ tomb[s] = journal.backup[t]
      BY <1>0, <1>5, <2>4, <3>2, PlainFacts DEF ContentsAgree
    <3>4. CASE tomb[s] = "old"
      <4>1. live[t] # "old"
        BY <3>1, PlainFacts
      <4>2. AbsOriginal[t] = "aside" /\ AbsOriginal'[t] = "absent"
        BY <1>0, <2>0, <3>2, <3>4, <4>1, AbsEntries, AbsEntriesNext
      <4>3. AbsOriginal' = [AbsOriginal EXCEPT ![t] = "absent"]
        BY <1>0, <3>2, <4>2, SidecarPaths, SidecarsDistinct, OriginalMoves
      <4>4. AbsReplacement' = AbsReplacement
        BY <1>3, <2>2, <3>4
      <4>5. Atomic!DisposeOriginal(t)
        BY <1>1, <3>1, <4>2, <4>3, <4>4 DEF Atomic!DisposeOriginal, Atomic!plan
      <4> QED BY <4>5 DEF Atomic!Next
    <3>5. CASE tomb[s] = "new"
      <4>1. AbsReplacement' = AbsReplacement
        BY <1>0, <3>2, SidecarPaths, SidecarsDistinct, ReplacementsStay
      <4>2. AbsOriginal' = AbsOriginal
        BY <1>2, <2>1, <3>5
      <4> QED BY <1>1, <4>1, <4>2 DEF Atomic!vars, Atomic!plan
    <3> QED BY <1>5, <3>4, <3>5
  <2>5. CASE journal.phase # "cleanup"
    <3>1. /\ journal.phase \in {"preparing", "prepared", "rolling_back"}
          /\ \A u \in Targets : State(u) \in {"pending", "rolled_back"}
      BY <1>0, <2>5 DEF RemovalReady
    <3>2. /\ \A u \in Targets : journal.cleanup[B(u)] = "removed"
          /\ \A u \in Targets : side[B(u)] = "absent" /\ tomb[B(u)] = "absent"
      BY <1>0, <2>5, PlainFacts, SidecarPaths DEF SidecarsAgree
    <3>3. verdict \notin {"commit", "abort"} /\ AbsDecision = "abort"
      BY <1>0, <3>1, PlainFacts DEF PhaseAgrees, PlainInv, PlainAgrees, AbsDecision
    <3>4. \A u \in Targets : live[u] # "new"
      BY <3>1, <3>2, <3>3, PlainFacts DEF TargetAgrees
    <3>5. \A u \in Targets : AbsOriginal[u] # "aside" /\ AbsReplacement[u] # "live"
      BY <3>2, <3>4, AbsEntries
    <3>6. (s = S(t) \/ s = R(t)) /\ tomb[s] = "new"
      BY <1>0, <1>5, <2>0, <2>3, <2>5, <3>2, PlainFacts DEF ContentsAgree
    <3>7. /\ AbsReplacement[t] \in {"staged", "withdrawn"}
          /\ AbsReplacement'[t] = "absent"
      <4>1. s = S(t) => /\ side[R(t)] # "new" /\ tomb[R(t)] # "new"
                        /\ side'[R(t)] = side[R(t)] /\ tomb'[R(t)] = tomb[R(t)]
        BY <1>0, <3>6, PlainFacts, SidecarPaths, SidecarsDistinct DEF ReplacementAgrees
      <4>2. s = R(t) => /\ side[S(t)] # "new" /\ tomb[S(t)] # "new"
                        /\ side'[S(t)] = side[S(t)] /\ tomb'[S(t)] = tomb[S(t)]
        BY <1>0, <3>6, PlainFacts, SidecarPaths, SidecarsDistinct DEF ReplacementAgrees
      <4>3. live[t] # "new" /\ live'[t] # "new"
        BY <1>0, <3>4
      <4> QED BY <1>0, <2>0, <3>6, <4>1, <4>2, <4>3, AbsEntries, AbsEntriesNext
    <3>8. AbsReplacement' = [AbsReplacement EXCEPT ![t] = "absent"]
      BY <1>0, <3>6, <3>7, SidecarPaths, SidecarsDistinct, ReplacementMoves
    <3>9. AbsOriginal' = AbsOriginal
      BY <1>2, <2>1, <3>6
    <3>10. Atomic!DisposeReplacement(t)
      BY <1>1, <3>3, <3>5, <3>7, <3>8, <3>9 DEF Atomic!DisposeReplacement, Atomic!plan
    <3> QED BY <3>10 DEF Atomic!Next
  <2> QED BY <2>4, <2>5
<1>6. (Keeps("old") /\ Keeps("new")) \/ (RemoveTomb(s) /\ tomb[s] \in {"old", "new"})
  <2>1. CASE TombSidecar(s)
    <3>1. tomb[s] = "absent" /\ tomb'[s] = side[s]
      BY <2>1, DiscardFacts DEF TombSidecar
    <3> QED BY <1>0, <3>1
  <2>2. CASE RemoveTomb(s) /\ tomb[s] \notin {"old", "new"}
    <3>1. side[s] = "absent" /\ tomb'[s] = "absent"
      BY <2>2, DiscardFacts DEF RemoveTomb
    <3> QED BY <1>0, <2>2, <3>1
  <2> QED BY <2>1, <2>2
<1> QED BY <1>4, <1>5, <1>6

LEMMA NextSimulates ==
  ASSUME PlainInv, [Next]_vars, spent'.edit = 0
  PROVE  [Atomic!Next]_(Atomic!vars)
<1>1. ~(\E t \in Targets, c \in Contents : Edit(t, c))
  <2>1. spent \in Budgets /\ spent.edit = 0
    BY PlainFacts DEF TypeOK, PlainInv, PlainAgrees
  <2>2. \A t \in Targets, c \in Contents : Edit(t, c) => spent'.edit = spent.edit + 1
    BY <2>1 DEF Edit, Budgets
  <2> QED BY <2>1, <2>2
<1>2. CASE Still
  BY <1>2, StillSimulates
<1>3. CASE Prepare \/ SavePrepared \/ CommitGuard \/ SaveRollingBack \/ Recover
           \/ Rollback \/ RecordSidecars \/ UnlinkJournal
  BY <1>3, PhaseSimulates
<1>4. CASE Decide \/ StageTarget
  BY <1>4, DecideSimulates, StageSimulates
<1>5. CASE DisplaceLive \/ PlaceStaged \/ UndoPlaced \/ RestoreBackup
  BY <1>5, MoveSimulates
<1>6. ASSUME NEW s \in Sidecars, TombSidecar(s) \/ RemoveTomb(s)
      PROVE  [Atomic!Next]_(Atomic!vars)
  BY <1>6, DiscardSimulates
<1> QED BY <1>1, <1>2, <1>3, <1>4, <1>5, <1>6, StepKinds DEF Still, PrepareStep

\* Without user edits the engine is the atomic publication of its plan, whatever
\* crashes, faults, replays and refusals do to it (_commit_journal, _rollback,
\* _cleanup_committed): every step is a step of AtomicInstall or none.
THEOREM RefinementTheorem ==
  Spec /\ [](spent.edit = 0) => ImplementsAtomicInstall
<1>1. Init => PlainInv
  BY InitInv, InitRemoval, InitContents, InitOutcome, InitPlain
  DEF PlainInv, OutcomeInv, RemovalInv
<1>2. PlainInv /\ [Next]_vars /\ (spent.edit = 0)' => PlainInv'
  BY NextPlain
<1>3. PlainInv /\ [Next]_vars /\ (spent.edit = 0)' => [Atomic!Next]_(Atomic!vars)
  BY NextSimulates
<1> QED
  BY <1>1, <1>2, <1>3, InitAtomic, PTL DEF Spec, ImplementsAtomicInstall, Atomic!Spec
=============================================================================
