------------------------- MODULE TransactionEngine -------------------------
(***************************************************************************)
(* csk's durable multi-target replacement transaction                      *)
(* (src/csk/transactions.py, class TransactionEngine).                     *)
(*                                                                         *)
(* A transaction replaces the entries at N live paths.  Every step that    *)
(* the file system makes visible is an action: a rename, one save of the   *)
(* journal, one deletion.  Between any two of them the process may die,    *)
(* the step may raise, a user's editor may rewrite a live path, and the    *)
(* publication boundary that the pre-write hooks verify may move.          *)
(*                                                                         *)
(* The contents of a path are what the digests tell apart: "absent", the   *)
(* planned preimage "old", the planned content "new", a half-written       *)
(* staging tree "partial", and bytes csk never saw, "foreign".  The        *)
(* journal in memory and the journal on disk differ only inside one save,  *)
(* so one variable holds both.                                             *)
(***************************************************************************)
EXTENDS Integers

CONSTANTS
  N,          \* number of targets; the journal keeps them sorted
  Hooked,     \* the targets that carry a publication recheck payload
  Adopting,   \* those whose hook knows a displaced preimage by its backup
  Guarded,    \* TRUE when some payload carries a commit guard
  Contents,   \* what a user's editor may leave at a live path
  MaxCrashes, MaxFaults, MaxMoves, MaxEdits   \* bounds on the environment

UserBytes == {"old", "foreign"}   \* contents only a user can have written

Targets == 1..N
Roles   == {"staged", "backup", "rollback"}
Sidecars == Roles \X Targets
Bytes   == {"absent", "old", "new", "partial", "foreign"}

ASSUME NAssumption        == N \in Nat \ {0}
ASSUME HookedAssumption   == Hooked \subseteq Targets
ASSUME AdoptingAssumption == Adopting \subseteq Hooked
ASSUME GuardedAssumption  == Guarded \in BOOLEAN
ASSUME ContentsAssumption == Contents \subseteq {"absent", "old", "new", "foreign"}
ASSUME BoundsAssumption   ==
  /\ MaxCrashes \in Nat /\ MaxFaults \in Nat
  /\ MaxMoves \in Nat   /\ MaxEdits \in Nat

VARIABLES
  plan,      \* what the caller asked for: [expected, desired, modeSwitch]
  live,      \* content of each target's live path
  side,      \* content of each sidecar path
  tomb,      \* content of each sidecar's cleanup tomb
  record,    \* where the journal file is: "none", "json" or "delete"
  journal,   \* its content
  call,      \* the engine method that is running
  pc,        \* the step it makes next
  cur,       \* the target it works on
  seen,      \* the live digest read before the backup rename
  boundary,  \* TRUE while the recorded publication boundary holds
  spent,     \* how many crashes, faults, moves and edits have happened
  verdict,   \* history: "unstarted", "open", "commit" or "abort"
  owed       \* history: copies of user bytes of each content

files   == <<live, side, tomb>>
control == <<call, pc, cur, seen>>
env     == <<boundary, spent>>
history == <<verdict, owed>>
vars    == <<plan, live, side, tomb, record, journal, call, pc, cur, seen,
             boundary, spent, verdict, owed>>

-----------------------------------------------------------------------------
(* Paths, digests and the journal. *)

S(t) == <<"staged", t>>
B(t) == <<"backup", t>>
R(t) == <<"rollback", t>>

Expected(t) == plan.expected[t]
Desired(t)  == plan.desired[t]

Phases == {"none", "preparing", "prepared", "committing", "rolling_back",
           "cleanup"}
TargetStates  == {"pending", "backed_up", "committed", "rolled_back"}
CleanupStates == {"unrecorded", "pending", "tombed", "removed"}

Journals == [phase   : Phases,
             state   : [Targets -> TargetStates],
             backup  : [Targets -> Bytes \union {"none"}],
             cleanup : [Sidecars -> CleanupStates],
             digest  : [Sidecars -> Bytes \union {"none"}]]

NoJournal ==
  [phase   |-> "none",
   state   |-> [t \in Targets |-> "pending"],
   backup  |-> [t \in Targets |-> "none"],
   cleanup |-> [s \in Sidecars |-> "unrecorded"],
   digest  |-> [s \in Sidecars |-> "none"]]

Plans == [expected : [Targets -> {"absent", "old"}],
          desired  : [Targets -> {"absent", "new"}],
          modeSwitch : BOOLEAN]

State(t) == journal.state[t]

\* _hook_require_recognized_state: what this transaction explains at a live
\* path.  A preimage that was displaced and not saved is none of it, except
\* where the hook looks into the backup.
Recognized(t) ==
  IF State(t) \in {"pending", "rolled_back"}
  THEN \/ live[t] = Expected(t)
       \/ /\ t \in Adopting /\ State(t) = "pending" /\ Expected(t) # "absent"
          /\ live[t] \in {"absent", Desired(t)} /\ side[B(t)] = Expected(t)
  ELSE \/ live[t] \in {"absent", Desired(t)}
       \/ live[t] = Expected(t) /\ side[B(t)] = "absent"

\* The pre-write hook of a target refuses once its boundary has moved, or when
\* it does not recognize the live path.  The hook reads that path before the
\* step that it guards, so an edit may fall between the two.
Hook(t) ==
  t \in Hooked => boundary /\ (Recognized(t) \/ t \in spent.touched)
HookRefuses(t) ==
  t \in Hooked /\ (~boundary \/ ~Recognized(t) \/ t \in spent.touched)

\* _save_journal: the record is replaced in one atomic rename.
SavePhase(phase) == journal' = [journal EXCEPT !.phase = phase]
SaveState(t, state) == journal' = [journal EXCEPT !.state[t] = state]
SaveBackup(t, digest) ==
  journal' = [journal EXCEPT !.state[t] = "backed_up", !.backup[t] = digest]

\* _rename_no_replace: the caller has checked that "to" is absent.
MoveOut(t, s) == live' = [live EXCEPT ![t] = "absent"]
                 /\ side' = [side EXCEPT ![s] = live[t]]
MoveIn(s, t)  == live' = [live EXCEPT ![t] = side[s]]
                 /\ side' = [side EXCEPT ![s] = "absent"]

\* Sidecars are discarded last target first: staged, backup, rollback.
Rank(s) ==
  3 * (N - s[2]) + (CASE s[1] = "staged" -> 0
                      [] s[1] = "backup" -> 1
                      [] s[1] = "rollback" -> 2)

Recorded == \A s \in Sidecars : journal.cleanup[s] # "unrecorded"
\* Fault: a tomb counts as removed once it is recorded.
AllTombed == \A s \in Sidecars : journal.cleanup[s] # "pending"
AllRemoved == \A s \in Sidecars : journal.cleanup[s] = "removed"

\* _allowed_cleanup_digests, with the unfinished staging of "preparing".
Allowed(s) ==
  CASE s[1] = "staged" /\ journal.phase = "preparing" -> Bytes
    [] s[1] = "staged" /\ journal.phase \in {"prepared", "rolling_back"} ->
         {"absent", Desired(s[2])}
    [] s[1] = "rollback" /\ journal.phase = "rolling_back" ->
         {"absent", Desired(s[2])}
    [] s[1] = "backup" /\ journal.phase = "cleanup" -> {journal.backup[s[2]]}
    [] OTHER -> {"absent"}

\* _validate_journal_removal_ready.
RemovalReady ==
  CASE journal.phase \in {"preparing", "prepared"} ->
         \A t \in Targets : State(t) = "pending"
    [] journal.phase = "cleanup"   -> \A t \in Targets : State(t) = "committed"
    [] journal.phase = "rolling_back" ->
         \A t \in Targets : State(t) \in {"pending", "rolled_back"}
    [] OTHER -> FALSE

-----------------------------------------------------------------------------
(* How a step ends. *)

Calls == {"none", "prepare", "commit", "recover", "rollback"}

PrepareSteps == {"stage", "staged", "ready"}
CommitSteps  == {"inspect", "verify", "displace", "captured", "place", "placed"}
RewindSteps  == {"rewind", "undo", "restore", "restored"}
RemoveSteps  == {"remove", "manifest", "discard", "unlink"}
Steps == PrepareSteps \union CommitSteps \union RewindSteps \union RemoveSteps
           \union {"idle", "guard", "decide", "failing", "cleanup"}

Goto(step) == pc' = step /\ UNCHANGED <<call, cur, seen>>

\* The call raises and the journal stays for a later recovery.
Retain == call' = "none" /\ pc' = "idle" /\ cur' = 1 /\ seen' = "absent"

\* Fault: the forward loop runs one target too far.
NextForwardPastEnd ==
  IF cur > N THEN Goto("decide")
  ELSE pc' = "inspect" /\ cur' = cur + 1 /\ seen' = "absent" /\ UNCHANGED call

\* The next target of the forward loop, or the decision after the last one.
NextForward ==
  IF cur = N THEN Goto("decide")
  ELSE pc' = "inspect" /\ cur' = cur + 1 /\ seen' = "absent" /\ UNCHANGED call

\* The next target of the rollback loop, which runs backwards.
NextBackward ==
  IF cur = 1 THEN Goto("remove")
  ELSE pc' = "rewind" /\ cur' = cur - 1 /\ UNCHANGED <<call, seen>>

-----------------------------------------------------------------------------
(* prepare: the journal first, then one staged tree per present target. *)

Prepare ==
  /\ pc = "idle" /\ verdict = "unstarted"
  /\ \A s \in Sidecars : side[s] = "absent" /\ tomb[s] = "absent"
  /\ record' = "json"
  /\ journal' = [NoJournal EXCEPT !.phase = "preparing"]
  /\ call' = "prepare" /\ pc' = "stage" /\ cur' = 1
  /\ verdict' = "open"
  /\ UNCHANGED <<plan, files, seen, env, owed>>

\* Fault: staging stops after the first target.
NextStagingStops == Goto("staged")

NextStaging ==
  IF cur = N THEN Goto("staged")
  ELSE pc' = "stage" /\ cur' = cur + 1 /\ UNCHANGED <<call, seen>>

StageTarget ==
  /\ pc = "stage"
  /\ IF Desired(cur) = "absent" THEN UNCHANGED side /\ NextStaging
     ELSE IF side[S(cur)] = "absent"
     THEN side' = [side EXCEPT ![S(cur)] = "partial"] /\ UNCHANGED control
     ELSE side' = [side EXCEPT ![S(cur)] = "new"] /\ NextStaging
  /\ UNCHANGED <<plan, live, tomb, record, journal, env, history>>

SavePrepared ==
  /\ pc = "staged"
  /\ SavePhase("prepared")
  /\ Goto("ready")
  /\ UNCHANGED <<plan, files, record, env, history>>

\* An exception in prepare.  The first save is outside the handler.  A save of
\* "prepared" that fails before its rename leaves a journal the handler does not
\* recognise; one that fails after it (the directory sync) is discarded as
\* "prepared".
PrepareFails ==
  /\ spent.fault < MaxFaults
  /\ spent' = [spent EXCEPT !.fault = @ + 1]
  /\ \/ pc = "stage" /\ cur = 1 /\ side[S(1)] = "absent" /\ Retain
     \/ pc = "stage" /\ Goto("remove")
     \/ pc = "staged" /\ Retain
     \/ pc = "ready" /\ Goto("remove")
  /\ UNCHANGED <<plan, files, record, journal, boundary, history>>

-----------------------------------------------------------------------------
(* commit, recover and rollback: which routine the journal's phase selects. *)

Commit ==
  /\ pc = "ready"
  /\ call' = "commit" /\ pc' = "guard" /\ UNCHANGED <<cur, seen>>
  /\ UNCHANGED <<plan, files, record, journal, env, history>>

Recover ==
  /\ pc = "idle" /\ record # "none"
  /\ call' = "recover" /\ UNCHANGED seen
  /\ \/ /\ record = "delete" \/ journal.phase = "preparing"
        /\ pc' = "remove" /\ cur' = 1 /\ UNCHANGED journal
     \/ /\ record = "json" /\ journal.phase \in {"prepared", "committing"}
        /\ IF plan.modeSwitch
           THEN SavePhase("rolling_back") /\ pc' = "rewind" /\ cur' = N
           ELSE pc' = "guard" /\ cur' = 1 /\ UNCHANGED journal
     \/ /\ record = "json" /\ journal.phase = "rolling_back"
        /\ pc' = "rewind" /\ cur' = N /\ UNCHANGED journal
     \/ /\ record = "json" /\ journal.phase = "cleanup"
        /\ pc' = "cleanup" /\ cur' = 1 /\ UNCHANGED journal
  /\ UNCHANGED <<plan, files, record, env, history>>

\* Fault: the rollback does not ask whether the transaction has committed.
RollbackCommitted ==
  /\ pc = "idle" /\ record # "none"
  /\ call' = "rollback" /\ UNCHANGED seen
  /\ SavePhase("rolling_back") /\ pc' = "rewind" /\ cur' = N
  /\ UNCHANGED <<plan, files, record, env, history>>

\* Fault: the rollback resumes what recover would resume.
RollbackResumes ==
  /\ pc = "idle" /\ record = "json" /\ journal.phase = "prepared"
  /\ call' = "rollback" /\ pc' = "guard" /\ cur' = 1
  /\ UNCHANGED <<plan, files, seen, record, journal, env, history>>

\* csk recover --rollback; a committed transaction is refused.
Rollback ==
  /\ pc = "idle" /\ record # "none" /\ journal.phase # "cleanup"
  /\ call' = "rollback" /\ UNCHANGED seen
  /\ IF record = "delete" \/ journal.phase = "preparing"
     THEN pc' = "remove" /\ cur' = 1 /\ UNCHANGED journal
     ELSE SavePhase("rolling_back") /\ pc' = "rewind" /\ cur' = N
  /\ UNCHANGED <<plan, files, record, env, history>>

-----------------------------------------------------------------------------
(* _commit_journal and _commit_target: forward, in journal order. *)

\* The commit guard runs before the first target and never after a decision.
\* _validate_journal refuses to save "committing" once a discard has begun.
CommitGuard ==
  /\ pc = "guard"
  /\ IF (Guarded => boundary) /\ ~Recorded
     THEN /\ SavePhase("committing")
          /\ pc' = "inspect" /\ cur' = 1 /\ UNCHANGED <<call, seen>>
     ELSE UNCHANGED journal /\ Retain
  /\ UNCHANGED <<plan, files, record, env, history>>

\* The backup rename was done before a crash: adopt it.
AdoptBackup ==
  /\ pc = "inspect" /\ State(cur) = "pending" /\ Hook(cur)
  /\ side[B(cur)] # "absent"
  /\ IF live[cur] \in {"absent", Desired(cur)} /\ side[B(cur)] = Expected(cur)
     THEN SaveBackup(cur, side[B(cur)]) /\ UNCHANGED control
     ELSE UNCHANGED journal /\ Goto("failing")
  /\ UNCHANGED <<plan, files, record, env, history>>

ReadLive ==
  /\ pc = "inspect" /\ State(cur) = "pending" /\ Hook(cur)
  /\ side[B(cur)] = "absent"
  /\ seen' = live[cur] /\ pc' = "verify" /\ UNCHANGED <<call, cur>>
  /\ UNCHANGED <<plan, files, record, journal, env, history>>

\* _verify_expected_at reads live a second time.
VerifyPreimage ==
  /\ pc = "verify"
  /\ IF live[cur] = Expected(cur)
     THEN Goto(IF seen = "absent" THEN "captured" ELSE "displace")
     ELSE Goto("failing")
  /\ UNCHANGED <<plan, files, record, journal, env, history>>

DisplaceLive ==
  /\ pc = "displace"
  /\ \/ /\ Hook(cur) /\ live[cur] # "absent" /\ side[B(cur)] = "absent"
        /\ MoveOut(cur, B(cur)) /\ Goto("captured")
     \/ /\ HookRefuses(cur) \/ live[cur] = "absent" \/ side[B(cur)] # "absent"
        /\ UNCHANGED <<live, side>> /\ Goto("failing")
  /\ UNCHANGED <<plan, tomb, record, journal, env, history>>

\* Fault: whatever the rename captured becomes the preimage.
SaveCaptured ==
  /\ pc = "captured"
  /\ SaveBackup(cur, side[B(cur)]) /\ Goto("inspect")
  /\ UNCHANGED <<plan, files, record, env, history>>

\* What the rename captured must be what was read before it.
SaveBackedUp ==
  /\ pc = "captured"
  /\ IF seen = "absent" \/ side[B(cur)] = seen
     THEN SaveBackup(cur, seen) /\ Goto("inspect")
     ELSE UNCHANGED journal /\ Goto("failing")
  /\ UNCHANGED <<plan, files, record, env, history>>

InspectBackedUp ==
  /\ pc = "inspect" /\ State(cur) = "backed_up" /\ Hook(cur)
  /\ Goto(IF live[cur] = Desired(cur) THEN "placed"
          ELSE IF /\ live[cur] = "absent"
                  /\ side[S(cur)] = Desired(cur)
               THEN "place" ELSE "failing")
  /\ UNCHANGED <<plan, files, record, journal, env, history>>

PlaceStaged ==
  /\ pc = "place"
  /\ \/ /\ Hook(cur) /\ live[cur] = "absent"
        /\ MoveIn(S(cur), cur) /\ Goto("placed")
     \/ /\ HookRefuses(cur) \/ live[cur] # "absent"
        /\ UNCHANGED <<live, side>> /\ Goto("failing")
  /\ UNCHANGED <<plan, tomb, record, journal, env, history>>

SaveCommitted ==
  /\ pc = "placed"
  /\ SaveState(cur, "committed")
  /\ NextForward
  /\ UNCHANGED <<plan, files, record, env, history>>

\* A replay finds a target it had committed before the crash.
CheckCommitted ==
  /\ pc = "inspect" /\ State(cur) = "committed"
  /\ IF live[cur] = Desired(cur) THEN NextForward ELSE Goto("failing")
  /\ UNCHANGED <<plan, files, record, journal, env, history>>

HookRefusesForward ==
  /\ pc = "inspect" /\ State(cur) \in {"pending", "backed_up"}
  /\ HookRefuses(cur)
  /\ Goto("failing")
  /\ UNCHANGED <<plan, files, record, journal, env, history>>

\* The commit point: the save of phase "cleanup".
Decide ==
  /\ pc = "decide"
  /\ SavePhase("cleanup")
  /\ verdict' = "commit"
  /\ Goto("cleanup")
  /\ UNCHANGED <<plan, files, record, env, owed>>

\* Any forward step may raise; the handler saves "rolling_back" first, with
\* the state a failed save had already set in memory.
CommitFails ==
  /\ pc \in CommitSteps
  /\ spent.fault < MaxFaults
  /\ spent' = [spent EXCEPT !.fault = @ + 1]
  /\ UNCHANGED journal \/ (pc = "placed" /\ SaveState(cur, "committed"))
  /\ Goto("failing")
  /\ UNCHANGED <<plan, files, record, boundary, history>>

\* Fault: the handler rolls back before it records that it does.
RollBackUnrecorded ==
  /\ pc = "failing"
  /\ pc' = "rewind" /\ cur' = N /\ seen' = "absent" /\ UNCHANGED call
  /\ UNCHANGED <<plan, files, record, journal, env, history>>

SaveRollingBack ==
  /\ pc = "failing"
  /\ SavePhase("rolling_back")
  /\ pc' = "rewind" /\ cur' = N /\ seen' = "absent" /\ UNCHANGED call
  /\ UNCHANGED <<plan, files, record, env, history>>

-----------------------------------------------------------------------------
(* _rollback and _rollback_target: backwards, refusing unknown bytes. *)

Untouched == State(cur) = "pending" /\ side[B(cur)] = "absent"

SkipTarget ==
  /\ pc = "rewind"
  /\ Untouched \/ State(cur) = "rolled_back"
  /\ NextBackward
  /\ UNCHANGED <<plan, files, record, journal, env, history>>

\* Died between the backup rename and its save, or captured other bytes.
RewindPending ==
  /\ pc = "rewind" /\ State(cur) = "pending" /\ ~Untouched
  /\ IF live[cur] = "absent" /\ side[B(cur)] = Expected(cur)
     THEN SaveBackup(cur, side[B(cur)]) /\ Goto("restore")
     ELSE UNCHANGED journal /\ Retain
  /\ UNCHANGED <<plan, files, record, env, history>>

\* Fault: any entry at the live path passes for the restored preimage.
AnythingRestored ==
  live[cur] # "absent" /\ side[B(cur)] = "absent" /\ State(cur) = "committed"

\* Fault: a replay does not recognise the preimage it restored before.
NeverRestored == FALSE

\* Died between the restoring rename and its save.
AlreadyRestored ==
  /\ live[cur] # "absent" /\ live[cur] = journal.backup[cur]
  /\ side[B(cur)] = "absent"
  /\ side[R(cur)] \in {Desired(cur), "absent"}

\* Only the bytes this transaction installed may be taken out of the way.
RewindRefused ==
  \/ side[R(cur)] \notin {"absent", Desired(cur)}
  \/ live[cur] # "absent" /\ side[R(cur)] # "absent"
  \/ live[cur] \notin {"absent", Desired(cur)}
  \/ /\ live[cur] = "absent" /\ side[R(cur)] = "absent"
     /\ State(cur) = "committed" /\ Desired(cur) # "absent"

RewindAdvanced ==
  /\ pc = "rewind" /\ State(cur) \in {"backed_up", "committed"}
  /\ \/ HookRefuses(cur) /\ Retain /\ UNCHANGED journal
     \/ Hook(cur) /\ AlreadyRestored
        /\ SaveState(cur, "rolled_back") /\ NextBackward
     \/ Hook(cur) /\ ~AlreadyRestored /\ RewindRefused
        /\ Retain /\ UNCHANGED journal
     \/ Hook(cur) /\ ~AlreadyRestored /\ ~RewindRefused
        /\ Goto(IF live[cur] = "absent" THEN "restore" ELSE "undo")
        /\ UNCHANGED journal
  /\ UNCHANGED <<plan, files, record, env, history>>

\* The rename, then the digest of what it captured.
UndoPlaced ==
  /\ pc = "undo"
  /\ \/ /\ Hook(cur) /\ live[cur] # "absent"
        /\ MoveOut(cur, R(cur))
        /\ IF live[cur] = Desired(cur) THEN Goto("restore") ELSE Retain
     \/ /\ HookRefuses(cur) \/ live[cur] = "absent"
        /\ UNCHANGED <<live, side>> /\ Retain
  /\ UNCHANGED <<plan, tomb, record, journal, env, history>>

\* Fault: the restoring rename replaces what stands at the live path.
RestoreOver ==
  /\ pc = "restore"
  /\ IF side[B(cur)] = "absent" THEN UNCHANGED <<live, side>>
     ELSE MoveIn(B(cur), cur)
  /\ Goto("restored")
  /\ UNCHANGED <<plan, tomb, record, journal, env, history>>

RestoreBackup ==
  /\ pc = "restore"
  /\ \/ /\ side[B(cur)] = "absent" /\ journal.backup[cur] = "absent"
        /\ Goto("restored") /\ UNCHANGED <<live, side>>
     \/ /\ side[B(cur)] # "absent" /\ side[B(cur)] = journal.backup[cur]
        /\ live[cur] = "absent" /\ Hook(cur)
        /\ MoveIn(B(cur), cur) /\ Goto("restored")
     \/ /\ \/ side[B(cur)] # journal.backup[cur]
           \/ side[B(cur)] # "absent" /\ (live[cur] # "absent" \/ HookRefuses(cur))
        /\ Retain /\ UNCHANGED <<live, side>>
  /\ UNCHANGED <<plan, tomb, record, journal, env, history>>

SaveRolledBack ==
  /\ pc = "restored"
  /\ SaveState(cur, "rolled_back")
  /\ NextBackward
  /\ UNCHANGED <<plan, files, record, env, history>>

-----------------------------------------------------------------------------
(* _cleanup_committed and _remove_journal. *)

VerifyCommitted ==
  /\ pc = "cleanup"
  /\ IF \A t \in Targets : live[t] = Desired(t) THEN Goto("remove") ELSE Retain
  /\ UNCHANGED <<plan, files, record, journal, env, history>>

\* Every hook runs before a sidecar is looked at.
BeginRemoval ==
  /\ pc = "remove"
  /\ \/ /\ RemovalReady /\ \A t \in Targets : Hook(t)
        /\ Goto(IF record = "delete" THEN "unlink"
                ELSE IF Recorded THEN "discard" ELSE "manifest")
     \/ /\ ~RemovalReady \/ \E t \in Targets : HookRefuses(t)
        /\ Retain
  /\ UNCHANGED <<plan, files, record, journal, env, history>>

\* _prepare_sidecar_cleanup: the manifest is saved before anything is removed.
RecordSidecars ==
  /\ pc = "manifest"
  /\ IF \A s \in Sidecars : side[s] \in Allowed(s) /\ tomb[s] = "absent"
     THEN /\ journal' = [journal EXCEPT
               !.digest  = side,
               !.cleanup = [s \in Sidecars |->
                             IF side[s] = "absent" THEN "removed" ELSE "pending"]]
          /\ Goto("discard")
     ELSE UNCHANGED journal /\ Retain
  /\ UNCHANGED <<plan, files, record, env, history>>

\* The sidecar _discard_sidecars has reached.
Discarding(s) ==
  /\ pc = "discard"
  /\ journal.cleanup[s] # "removed"
  /\ \A r \in Sidecars : Rank(r) < Rank(s) => journal.cleanup[r] = "removed"

SaveCleanup(s, state) == journal' = [journal EXCEPT !.cleanup[s] = state]

TombSidecar(s) ==
  /\ Discarding(s) /\ journal.cleanup[s] = "pending"
  /\ side[s] = journal.digest[s] /\ tomb[s] = "absent"
  /\ tomb' = [tomb EXCEPT ![s] = side[s]]
  /\ side' = [side EXCEPT ![s] = "absent"]
  /\ UNCHANGED <<plan, live, record, journal, control, env, history>>

SaveTombed(s) ==
  /\ Discarding(s) /\ journal.cleanup[s] = "pending"
  /\ side[s] = "absent" /\ tomb[s] = journal.digest[s]
  /\ SaveCleanup(s, "tombed")
  /\ UNCHANGED <<plan, files, record, control, env, history>>

RemoveTomb(s) ==
  /\ Discarding(s) /\ journal.cleanup[s] = "tombed"
  /\ side[s] = "absent" /\ tomb[s] # "absent"
  /\ tomb' = [tomb EXCEPT ![s] = "absent"]
  /\ UNCHANGED <<plan, live, side, record, journal, control, env, history>>

SaveRemoved(s) ==
  /\ Discarding(s) /\ journal.cleanup[s] = "tombed"
  /\ side[s] = "absent" /\ tomb[s] = "absent"
  /\ SaveCleanup(s, "removed")
  /\ UNCHANGED <<plan, files, record, control, env, history>>

TombJournal ==
  /\ pc = "discard" /\ AllRemoved
  /\ record' = "delete"
  /\ Goto("unlink")
  /\ UNCHANGED <<plan, files, journal, env, history>>

UnlinkJournal ==
  /\ pc = "unlink"
  /\ record' = "none" /\ journal' = NoJournal
  /\ verdict' = IF verdict = "commit" THEN "commit" ELSE "abort"
  /\ Retain
  /\ UNCHANGED <<plan, files, env, owed>>

-----------------------------------------------------------------------------
(* What the machine and its user do to a running transaction. *)

Budgets == [crash : Nat, fault : Nat, move : Nat, edit : Nat,
            touched : SUBSET Targets]

\* The process dies, or is interrupted: only the files remain.
Crash ==
  /\ pc # "idle" /\ spent.crash < MaxCrashes
  /\ spent' = [spent EXCEPT !.crash = @ + 1]
  /\ Retain
  /\ UNCHANGED <<plan, files, record, journal, boundary, history>>

\* An exception where no handler undoes anything: the journal is retained.
StepFails ==
  /\ pc \in RewindSteps \union RemoveSteps
           \union {"guard", "decide", "failing", "cleanup"}
  /\ spent.fault < MaxFaults
  /\ spent' = [spent EXCEPT !.fault = @ + 1]
  /\ Retain
  /\ UNCHANGED <<plan, files, record, journal, boundary, history>>

MoveBoundary ==
  /\ boundary /\ spent.move < MaxMoves
  /\ boundary' = FALSE
  /\ spent' = [spent EXCEPT !.move = @ + 1]
  /\ UNCHANGED <<plan, files, record, journal, control, history>>

RestoreBoundary ==
  /\ ~boundary /\ boundary' = TRUE
  /\ UNCHANGED <<plan, files, record, journal, control, spent, history>>

\* A user overwrites, creates or deletes a live path while csk may be running.
Edit(t, c) ==
  /\ verdict # "unstarted" => record # "none"
  /\ spent.edit < MaxEdits /\ c # live[t]
  /\ live' = [live EXCEPT ![t] = c]
  /\ spent' = [spent EXCEPT !.edit = @ + 1, !.touched = @ \union {t}]
  /\ owed' = [owed EXCEPT ![t] = [b \in UserBytes |->
                @[b] + (IF c = b THEN 1 ELSE 0)
                     - (IF live[t] = b THEN 1 ELSE 0)]]
  /\ UNCHANGED <<plan, side, tomb, record, journal, control, boundary, verdict>>

\* The transaction is over and its journal gone.
Finished ==
  /\ pc = "idle" /\ record = "none" /\ verdict # "unstarted"
  /\ UNCHANGED vars

-----------------------------------------------------------------------------
Init ==
  /\ plan \in Plans
  /\ live = plan.expected
  /\ side = [s \in Sidecars |-> "absent"]
  /\ tomb = [s \in Sidecars |-> "absent"]
  /\ record = "none" /\ journal = NoJournal
  /\ call = "none" /\ pc = "idle" /\ cur = 1 /\ seen = "absent"
  /\ boundary = TRUE
  /\ spent = [crash |-> 0, fault |-> 0, move |-> 0, edit |-> 0, touched |-> {}]
  /\ verdict = "unstarted"
  /\ owed = [t \in Targets |-> [b \in UserBytes |->
               IF plan.expected[t] = b THEN 1 ELSE 0]]

PrepareStep == Prepare \/ StageTarget \/ SavePrepared

ForwardStep ==
  \/ Commit \/ CommitGuard \/ AdoptBackup \/ ReadLive \/ VerifyPreimage
  \/ DisplaceLive \/ SaveBackedUp \/ InspectBackedUp \/ PlaceStaged
  \/ SaveCommitted \/ CheckCommitted \/ HookRefusesForward \/ Decide
  \/ SaveRollingBack

BackwardStep ==
  \/ SkipTarget \/ RewindPending \/ RewindAdvanced \/ UndoPlaced
  \/ RestoreBackup \/ SaveRolledBack

RemovalStep ==
  \/ VerifyCommitted \/ BeginRemoval \/ RecordSidecars
  \/ \E s \in Sidecars :
       TombSidecar(s) \/ SaveTombed(s) \/ RemoveTomb(s) \/ SaveRemoved(s)
  \/ TombJournal \/ UnlinkJournal

EnvironmentStep ==
  \/ Crash \/ PrepareFails \/ CommitFails \/ StepFails
  \/ MoveBoundary \/ RestoreBoundary
  \/ \E t \in Targets, c \in Contents : Edit(t, c)

EngineStep == PrepareStep \/ Recover \/ ForwardStep \/ BackwardStep \/ RemovalStep

Next == EngineStep \/ Rollback \/ EnvironmentStep \/ Finished

Spec == Init /\ [][Next]_vars

\* csk keeps running until its call returns, every later command that takes the
\* home lock starts with recover, and a boundary that moved is put back.
FairSpec == Spec /\ WF_vars(EngineStep) /\ WF_vars(RestoreBoundary)

-----------------------------------------------------------------------------
(* Properties. *)

FilesType ==
  /\ live \in [Targets -> Bytes]
  /\ side \in [Sidecars -> Bytes]
  /\ tomb \in [Sidecars -> Bytes]

ControlType == call \in Calls /\ pc \in Steps /\ cur \in Targets /\ seen \in Bytes

HistoryType ==
  /\ verdict \in {"unstarted", "open", "commit", "abort"}
  /\ owed \in [Targets -> [UserBytes -> Int]]

\* Every variable keeps to the values the journal schema and the engine allow.
TypeOK ==
  /\ plan \in Plans
  /\ FilesType
  /\ record \in {"none", "json", "delete"}
  /\ journal \in Journals
  /\ ControlType
  /\ boundary \in BOOLEAN
  /\ spent \in Budgets
  /\ HistoryType

Is(b) == IF b THEN 1 ELSE 0

\* How many places hold content c for target t.
Copies(t, c) ==
    Is(live[t] = c)
  + Is(side[S(t)] = c) + Is(side[B(t)] = c) + Is(side[R(t)] = c)
  + Is(tomb[S(t)] = c) + Is(tomb[B(t)] = c) + Is(tomb[R(t)] = c)

\* Bytes a user wrote over a live path are never destroyed, however crashes,
\* replays and rollbacks interleave with the write: they stay at the live path
\* or are captured in a sidecar that no cleanup accepts (_commit_target's
\* "changed while backing up", _rollback_target's "captured unknown bytes").
UserBytesKept == \A t \in Targets : Copies(t, "foreign") = owed[t]["foreign"]

\* Until the commit point every preimage still exists, live or in its backup.
PreimageKept ==
  verdict # "commit" => \A t \in Targets : Copies(t, "old") = owed[t]["old"]

\* When the journal is gone the targets nobody else wrote show one plan: all
\* of them the new content, or all of them the preimage.
AllOrNothing ==
  record = "none" /\ verdict \in {"commit", "abort"} =>
    \A t \in Targets \ spent.touched :
      live[t] = IF verdict = "commit" THEN Desired(t) ELSE Expected(t)

\* The journal outlives everything it owns: once it is unlinked, or is only a
\* tomb, no staged tree, backup, rollback copy or cleanup tomb is left.
NoResidue ==
  record # "json" => \A s \in Sidecars : side[s] = "absent" /\ tomb[s] = "absent"

\* Which durable phase each routine runs in, and which calls may go forward:
\* the strengthening under which the decision properties below are inductive.
ForwardSteps == CommitSteps \union {"guard", "decide"}

PhaseAgrees ==
  /\ pc \in {"stage", "staged"} => journal.phase = "preparing"
  /\ pc = "ready" => journal.phase = "prepared"
  /\ pc = "guard" => journal.phase \in {"prepared", "committing"}
  /\ pc \in CommitSteps \union {"decide", "failing"} => journal.phase = "committing"
  /\ pc \in RewindSteps => journal.phase = "rolling_back"
  /\ pc \in RemoveSteps => journal.phase # "committing"
  /\ pc \in ForwardSteps =>
       call = "commit" \/ (call = "recover" /\ ~plan.modeSwitch)
  /\ pc = "cleanup" => journal.phase = "cleanup"
  /\ verdict = "unstarted" => journal.phase = "none"
  /\ journal.phase = "cleanup" => verdict = "commit"
  /\ verdict = "commit" => journal.phase \in {"cleanup", "none"}
  /\ record = "none" <=> journal.phase = "none"
  /\ pc # "idle" => record # "none"
  /\ pc \in PrepareSteps \union ForwardSteps => record = "json"
  /\ record = "delete" => journal.phase # "committing"

\* A decision is final.  Once "cleanup" is durable the transaction is never
\* undone, once "rolling_back" is durable it never goes forward, and after
\* the commit point no step of csk touches a live path.
DecisionIsFinal ==
  [][/\ journal.phase = "cleanup" => journal'.phase \in {"cleanup", "none"}
     /\ journal.phase = "rolling_back" => journal'.phase \in {"rolling_back", "none"}
     /\ verdict = "commit" /\ live' # live => spent' # spent]_vars

\* A policy-mode switch that was interrupted is undone, never finished
\* (recover), and csk recover --rollback never finishes anything.
OnlyOwnerCommits ==
  [][verdict' = "commit" /\ verdict # "commit" =>
       call = "commit" \/ (call = "recover" /\ ~plan.modeSwitch)]_vars

\* Recovery finishes: a transaction nobody else writes into ends, and its journal
\* goes away, by running csk install again (_incomplete_error tells the user: "rerun
\* csk install to recover"; docs/cli.md: "Complete recovery with `csk install`").
RecoveryCompletes == verdict = "open" ~> record = "none"

\* It does, from every state that any number of crashes and moved boundaries
\* leave, as long as no step of the engine has failed.
RecoveryEnds ==
  verdict = "open" ~> record = "none" \/ spent.fault > 0
=============================================================================
