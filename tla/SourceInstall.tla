--------------------------- MODULE SourceInstall ---------------------------
(***************************************************************************)
(* The installs of schema-2 projects that share a csk home                 *)
(* (src/csk/sources/publish.py, modes.py, store.py, snapshot.py).          *)
(*                                                                         *)
(* A Skillfile selects skills from aliases.  A Git alias names a branch of *)
(* one repository, the local alias a directory that is edited while csk    *)
(* reads it.  An install without a lock, or one that is told to fetch, resolves: *)
(* it turns aliases into packages, stores them and writes a lock.  Every   *)
(* other install is frozen: it serves what the lock names.  Both plan      *)
(* without the home lock and publish under it, in one transaction.         *)
(*                                                                         *)
(* A transaction applies its target classes in order and recovers as       *)
(* TransactionEngine does, each class as one target.  Its hook refuses to  *)
(* replay a target whose displacement the journal does not know of.        *)
(***************************************************************************)
EXTENDS Integers, Sequences

CONSTANTS
  Projects,
  GitAliases,  \* the aliases of one Git declaration
  LocalAlias,  \* the alias of one directory
  Skillfiles,  \* the sets of aliases a Skillfile may select from
  Commits,     \* commits of the repository
  LastFile,    \* the files of that directory are numbered as they are read
  NoPackage, Nobody,
  Attempts,    \* how often one install plans
  MaxInstalls, MaxCrashes,
  MaxEdits,    \* how often a file changes
  MaxTroubles  \* new Skillfiles and locks, moved branches, deleted stores,
               \* refused plans

Aliases  == GitAliases \union {LocalAlias}
Files    == 1..LastFile
\* An edit writes what the file has never held.
Versions == 0..MaxEdits
Trees    == [Files -> Versions]
Packages == Commits \union Trees

ASSUME AliasesAssumption ==
  /\ LocalAlias \notin GitAliases
  /\ Skillfiles \subseteq (SUBSET Aliases) \ {{}}
ASSUME PackagesAssumption ==
  /\ NoPackage \notin Packages
  /\ Commits \intersect Trees = {}
ASSUME SourceNamesAssumption == Nobody \notin Projects
ASSUME SourceBoundsAssumption ==
  /\ Attempts \in Nat \ {0} /\ LastFile \in Nat \ {0}
  /\ {MaxInstalls, MaxCrashes, MaxEdits, MaxTroubles} \subseteq Nat

VARIABLES
  upstream,   \* the commit the branch is at
  local,      \* the files of the directory
  skillfile,  \* the aliases each project's Skillfile.json selects from
  lock,       \* each project's Skillfile.lock.json
  installed,  \* the lock its contexts and markers were made from
  store,      \* source-v1/snapshots: <<skill, package>>
  runtime,    \* source-v1/runtime:   <<skill, package>>
  journal, home,
  pc, fetch, mode, attempt, plan, outcome,  \* one install per project
  spent,      \* how much of each bound is used
  seen,       \* history: every state the directory was in
  replaced,   \* history: whose lock somebody else has replaced since the install
              \* it comes from: the user, or the recovery of an older install
  dropped,    \* history: the store entries somebody deleted
  robbed      \* history: runtime entries one project removed under another

sources == <<upstream, local, skillfile, seen>>
outputs == <<lock, installed, runtime, robbed>>
process == <<pc, fetch, mode, attempt, plan, outcome>>
vars == <<upstream, local, skillfile, lock, installed, store, runtime,
          journal, home, pc, fetch, mode, attempt, plan, outcome, spent,
          seen, replaced, dropped, robbed>>

-----------------------------------------------------------------------------
Unresolved == [a \in Aliases |-> NoPackage]
NoLock == [skillfile |-> {}, members |-> Unresolved]

\* The store and runtime keys of a lock: one skill is selected per alias.
Keys(l) ==
  {<<a, l.members[a]>> : a \in {b \in Aliases : l.members[b] # NoPackage}}

LockOf(selected, commit, tree) ==
  [skillfile |-> selected,
   members |-> [a \in Aliases |-> IF a \notin selected THEN NoPackage
                                  ELSE IF a \in GitAliases THEN commit
                                  ELSE tree]]

Classes == {"lock", "context", "runtime", "removal"}
NoPlan ==
  [old |-> NoLock, skillfile |-> {}, data |-> {}, members |-> Unresolved,
   read |-> << >>, checked |-> 0, missing |-> {}, staged |-> {},
   removals |-> {}, lock |-> NoLock, installed |-> NoLock, runtime |-> {}]
NoJournal ==
  [owner |-> Nobody, old |-> NoLock, lock |-> NoLock, installed |-> NoLock,
   new |-> NoLock, added |-> {}, removed |-> {}, robbed |-> {},
   at |-> [class \in Classes |-> "none"], phase |-> "forward"]

\* A new checkout, a clone that brings its lock, or an installed project.
Init ==
  /\ upstream \in Commits /\ local = [f \in Files |-> 0]
  /\ skillfile \in [Projects -> Skillfiles]
  /\ \E c \in Commits, locked, served \in SUBSET Projects :
       /\ lock = [p \in Projects |->
            IF p \in locked THEN LockOf(skillfile[p], c, local) ELSE NoLock]
       /\ installed = [p \in Projects |->
            IF p \in served THEN lock[p] ELSE NoLock]
  /\ store = UNION {Keys(installed[p]) : p \in Projects}
  /\ runtime = store
  /\ journal = NoJournal /\ home = Nobody
  /\ pc = [p \in Projects |-> "idle"]
  /\ fetch = [p \in Projects |-> FALSE]
  /\ mode = [p \in Projects |-> "none"]
  /\ attempt = [p \in Projects |-> 0]
  /\ plan = [p \in Projects |-> NoPlan]
  /\ outcome = [p \in Projects |-> "none"]
  /\ spent = [install |-> 0, crash |-> 0, trouble |-> 0]
  /\ seen = {local} /\ replaced = {} /\ dropped = {} /\ robbed = {}

Spend(what, bound) ==
  /\ spent[what] < bound
  /\ spent' = [spent EXCEPT ![what] = @ + 1]

Goto(p, step) == pc' = [pc EXCEPT ![p] = step]

End(p, how) ==
  /\ Goto(p, "idle")
  /\ mode' = [mode EXCEPT ![p] = "none"]
  /\ attempt' = [attempt EXCEPT ![p] = 0]
  /\ plan' = [plan EXCEPT ![p] = NoPlan]
  /\ outcome' = [outcome EXCEPT ![p] = how]
  /\ home' = IF home = p THEN Nobody ELSE home
  /\ UNCHANGED fetch

\* Fault: the attempts are counted one too late.
RetryOnceMore(p) ==
  IF attempt[p] <= Attempts
  THEN /\ Goto(p, "select")
       /\ attempt' = [attempt EXCEPT ![p] = @ + 1]
       /\ plan' = [plan EXCEPT ![p] = NoPlan]
       /\ home' = IF home = p THEN Nobody ELSE home
       /\ UNCHANGED <<fetch, mode, outcome>>
  ELSE End(p, "failed")

\* Fault: the next attempt goes on with what the last one has planned.
RetryKeepsPlan(p) ==
  IF attempt[p] < Attempts
  THEN /\ Goto(p, "select")
       /\ attempt' = [attempt EXCEPT ![p] = @ + 1]
       /\ home' = IF home = p THEN Nobody ELSE home
       /\ UNCHANGED <<fetch, mode, plan, outcome>>
  ELSE End(p, "failed")

\* concurrent_state_change: the install starts again from the lock it finds.
Retry(p) ==
  IF attempt[p] < Attempts
  THEN /\ Goto(p, "select")
       /\ attempt' = [attempt EXCEPT ![p] = @ + 1]
       /\ plan' = [plan EXCEPT ![p] = NoPlan]
       /\ home' = IF home = p THEN Nobody ELSE home
       /\ UNCHANGED <<fetch, mode, outcome>>
  ELSE End(p, "failed")

-----------------------------------------------------------------------------
(* _install_schema2_once and the two lanes, without the home lock. *)

\* csk install, or with fetch, csk upgrade.
Start(p) ==
  /\ pc[p] = "idle" /\ Spend("install", MaxInstalls)
  /\ \E update \in BOOLEAN : fetch' = [fetch EXCEPT ![p] = update]
  /\ Goto(p, "select")
  /\ attempt' = [attempt EXCEPT ![p] = 1]
  /\ outcome' = [outcome EXCEPT ![p] = "running"]
  /\ UNCHANGED <<sources, outputs, store, journal, home, mode, plan, replaced,
                 dropped>>

\* modes.select
Select(p) ==
  /\ pc[p] = "select"
  /\ mode' = [mode EXCEPT ![p] =
       IF lock[p] # NoLock /\ ~fetch[p] THEN "frozen" ELSE "resolving"]
  /\ plan' = [plan EXCEPT ![p].old = lock[p]]
  /\ Goto(p, "read")
  /\ UNCHANGED <<sources, outputs, store, journal, home, fetch, attempt,
                 outcome, spent, replaced, dropped>>

\* The frozen lane: validate_lock, locked_schema2_members.
ReadFrozen(p) ==
  /\ pc[p] = "read" /\ mode[p] = "frozen"
  /\ IF plan[p].old.skillfile = skillfile[p]
     THEN /\ plan' = [plan EXCEPT ![p] = [@ EXCEPT
                 !.skillfile = skillfile[p], !.members = plan[p].old.members]]
          /\ Goto(p, "serve")
          /\ UNCHANGED <<home, fetch, mode, attempt, outcome>>
     ELSE End(p, "failed")
  /\ UNCHANGED <<sources, outputs, store, journal, spent, replaced, dropped>>

\* The resolving lane reads the lock again, for what it must remove.
ReadResolving(p) ==
  /\ pc[p] = "read" /\ mode[p] = "resolving"
  /\ plan' = [plan EXCEPT ![p] = [@ EXCEPT
       !.skillfile = skillfile[p], !.old = lock[p]]]
  /\ Goto(p, "resolve")
  /\ UNCHANGED <<sources, outputs, store, journal, home, fetch, mode, attempt,
                 outcome, spent, replaced, dropped>>

Wanted(p) == plan[p].skillfile \intersect GitAliases

\* resolve_git_alias: the memo serves every further alias of a declaration.
ResolveGitAlias(p, a) ==
  LET known == {plan[p].members[b] : b \in GitAliases} \ {NoPackage} IN
  IF known = {} THEN upstream ELSE CHOOSE c \in known : TRUE

Resolve(p) ==
  /\ pc[p] = "resolve"
  /\ \E a \in Wanted(p) :
       /\ plan[p].members[a] = NoPackage
       /\ plan' = [plan EXCEPT ![p].members[a] = ResolveGitAlias(p, a)]
  /\ UNCHANGED <<sources, outputs, store, journal, home, pc, fetch, mode,
                 attempt, outcome, spent, replaced, dropped>>

Resolved(p) ==
  /\ pc[p] = "resolve"
  /\ \A a \in Wanted(p) : plan[p].members[a] # NoPackage
  /\ Goto(p, IF LocalAlias \in plan[p].skillfile THEN "capture" ELSE "store")
  /\ UNCHANGED <<sources, outputs, store, journal, home, fetch, mode, attempt,
                 plan, outcome, spent, replaced, dropped>>

\* _capture_locked_member asks the store first.  What is missing is acquired
\* at the locked commit, or captured from the directory.
Serve(p) ==
  /\ pc[p] = "serve"
  /\ plan' = [plan EXCEPT ![p].missing = Keys(plan[p].old) \ store]
  /\ Goto(p, IF LocalAlias \in plan[p].skillfile THEN "capture" ELSE "plan")
  /\ UNCHANGED <<sources, outputs, store, journal, home, fetch, mode, attempt,
                 outcome, spent, replaced, dropped>>

\* capture_tree reads the files one after the other ...
ReadFile(p) ==
  LET f == Len(plan[p].read) + 1 IN
  /\ pc[p] = "capture" /\ f \in Files
  /\ plan' = [plan EXCEPT ![p].read = Append(@, local[f])]
  /\ UNCHANGED <<sources, outputs, store, journal, home, pc, fetch, mode,
                 attempt, outcome, spent, replaced, dropped>>

\* A capture that saw a change is refused; the frozen lane serves what the
\* store has instead.
CaptureChanged(p) ==
  IF mode[p] = "frozen" /\ \A key \in plan[p].missing : key[1] # LocalAlias
  THEN Goto(p, "plan") /\ UNCHANGED <<home, fetch, mode, attempt, plan, outcome>>
  ELSE End(p, "failed")

\* Fault: what was read is not read again.
RereadNothing(p) ==
  /\ pc[p] = "capture" /\ Len(plan[p].read) = LastFile
  /\ plan[p].checked < LastFile
  /\ plan' = [plan EXCEPT ![p].checked = LastFile]
  /\ UNCHANGED <<sources, outputs, store, journal, home, pc, fetch, mode,
                 attempt, outcome, spent, replaced, dropped>>

\* ... and revalidate_capture reads them all again.
RereadFile(p) ==
  LET f == plan[p].checked + 1 IN
  /\ pc[p] = "capture" /\ Len(plan[p].read) = LastFile /\ f \in Files
  /\ IF local[f] = plan[p].read[f]
     THEN /\ plan' = [plan EXCEPT ![p].checked = f]
          /\ UNCHANGED <<home, pc, fetch, mode, attempt, outcome>>
     ELSE CaptureChanged(p)
  /\ UNCHANGED <<sources, outputs, store, journal, spent, replaced, dropped>>

\* What was captured becomes the package, or must be the locked one.
Captured(p) ==
  LET package == plan[p].read IN
  /\ pc[p] = "capture" /\ plan[p].checked = LastFile
  /\ \/ /\ mode[p] = "resolving" /\ Goto(p, "store")
        /\ plan' = [plan EXCEPT ![p].members[LocalAlias] = package]
        /\ UNCHANGED <<home, fetch, mode, attempt, outcome>>
     \/ /\ mode[p] = "frozen" /\ plan[p].members[LocalAlias] = package
        /\ Goto(p, "plan")
        /\ UNCHANGED <<home, fetch, mode, attempt, plan, outcome>>
     \/ /\ mode[p] = "frozen" /\ plan[p].members[LocalAlias] # package
        /\ End(p, "failed")
  /\ UNCHANGED <<sources, outputs, store, journal, spent, replaced, dropped>>

Planned(p) == Keys([members |-> plan[p].members])

\* stage_schema2_store: one member after the other, each under a home lock of
\* its own, which recovers nothing.
StageStore(p) ==
  /\ pc[p] = "store" /\ home = Nobody
  /\ \E key \in Planned(p) \ plan[p].staged :
       /\ store' = store \union {key}
       /\ plan' = [plan EXCEPT ![p].staged = @ \union {key}]
       /\ IF plan[p].staged \union {key} = Planned(p) THEN Goto(p, "plan")
                                                   ELSE UNCHANGED pc
  /\ UNCHANGED <<sources, outputs, journal, home, fetch, mode, attempt,
                 outcome, spent, replaced, dropped>>

\* A transport that fails, an unreadable directory, a gate, the audit, a build.
Refuse(p) ==
  /\ pc[p] \in {"resolve", "serve", "capture", "plan"}
  /\ Spend("trouble", MaxTroubles)
  /\ End(p, "failed")
  /\ UNCHANGED <<sources, outputs, store, journal, replaced, dropped>>

\* The runtime entries that are among the targets of the plan.
Watched(p, removals) == runtime \intersect (Planned(p) \union removals)

\* Fault: what is in the home and not in the new lock is removed.
RemovalsSwept(p) == runtime \ Planned(p)

\* The lock diff, as far as it is there.
Removals(p) == (Keys(plan[p].old) \ Planned(p)) \intersect runtime

\* _validate_runtime_inventory: a runtime entry that is to be removed is
\* validated against its stored record.
Recorded(removals) == removals \intersect runtime \subseteq store

\* plan_schema2_targets, digest_live_targets.
PlanTargets(p) ==
  /\ pc[p] = "plan"
  /\ IF Recorded(Removals(p))
     THEN /\ plan' = [plan EXCEPT ![p] = [@ EXCEPT
                 !.removals = Removals(p), !.runtime = Watched(p, Removals(p)),
                 !.lock = lock[p], !.installed = installed[p]]]
          /\ Goto(p, "lock")
          /\ UNCHANGED <<home, fetch, mode, attempt, outcome>>
     ELSE End(p, "failed")
  /\ UNCHANGED <<sources, outputs, store, journal, spent, replaced, dropped>>

-----------------------------------------------------------------------------
(* The rest of _plan_and_publish_schema2 runs under the home lock. *)

LockTimeout(p) ==
  /\ pc[p] \in {"store", "lock"} /\ home # Nobody
  /\ End(p, "failed")
  /\ UNCHANGED <<sources, outputs, store, journal, spent, replaced, dropped>>

\* The engine takes the classes in order, and back in reverse order.
Earlier(class) ==
  CASE class = "lock"    -> {}
    [] class = "context" -> {"lock"}
    [] class = "runtime" -> {"lock", "context"}
    [] class = "removal" -> {"lock", "context", "runtime"}
At(class, places) == journal.at[class] \in places

Turn(class) ==
  /\ At(class, {"old", "out", "saved"})
  /\ \A e \in Earlier(class) : At(e, {"none", "new"})
UndoTurn(class) ==
  /\ At(class, {"out", "saved", "new"})
  /\ \A l \in Classes : class \in Earlier(l) => At(l, {"none", "old"})

\* _hook_require_recognized_state: a pending target must still be what it was
\* at plan time, so one that is displaced and not saved is refused.
Refused == \E class \in Classes : At(class, {"out"})

\* engine.recover: what a dead install left is finished, or restored, whoever
\* it was.
Recover(p) ==
  /\ pc[p] = "lock" /\ home = Nobody /\ home' = p
  /\ \/ journal = NoJournal /\ Goto(p, "revalidate") /\ UNCHANGED journal
     \/ /\ journal # NoJournal /\ journal.phase = "forward" /\ ~Refused
        /\ Goto(p, "replay") /\ UNCHANGED journal
     \/ /\ journal # NoJournal /\ journal.phase = "forward" /\ Refused
        /\ Goto(p, "undo") /\ journal' = [journal EXCEPT !.phase = "back"]
     \/ journal.phase = "back" /\ Goto(p, "restore") /\ UNCHANGED journal
  /\ UNCHANGED <<sources, outputs, store, fetch, mode, attempt, plan, outcome,
                 spent, replaced, dropped>>

\* Every target is as the plan found it; the lock is none for a frozen plan.
PreimagesCurrent(p) ==
  /\ mode[p] = "resolving" => lock[p] = plan[p].lock
  /\ installed[p] = plan[p].installed
  /\ Watched(p, plan[p].removals) = plan[p].runtime

\* Fault: the Skillfile is read under the lock and not compared.
RevalidateTargets(p) ==
  /\ pc[p] = "revalidate"
  /\ IF ~Recorded(plan[p].removals) THEN End(p, "failed")
     ELSE IF PreimagesCurrent(p)
     THEN /\ plan' = [plan EXCEPT ![p].data = skillfile[p]]
          /\ Goto(p, "prepare")
          /\ UNCHANGED <<home, fetch, mode, attempt, outcome>>
     ELSE Retry(p)
  /\ UNCHANGED <<sources, outputs, store, journal, spent, replaced, dropped>>

\* digest_live_targets again, and the Skillfile.
Revalidate(p) ==
  /\ pc[p] = "revalidate"
  /\ IF ~Recorded(plan[p].removals) THEN End(p, "failed")
     ELSE IF PreimagesCurrent(p) /\ skillfile[p] = plan[p].skillfile
     THEN /\ plan' = [plan EXCEPT ![p].data = skillfile[p]]
          /\ Goto(p, "prepare")
          /\ UNCHANGED <<home, fetch, mode, attempt, outcome>>
     ELSE Retry(p)
  /\ UNCHANGED <<sources, outputs, store, journal, spent, replaced, dropped>>

Desired(p) == [skillfile |-> plan[p].data, members |-> plan[p].members]

\* _serve_frozen_publication_files, _serve_resolving_publication_files, and
\* _require_frozen_lock_unchanged.
Publishable(p) ==
  /\ Planned(p) \ plan[p].missing \subseteq store
  /\ mode[p] = "frozen" => Desired(p) = plan[p].old

\* _commit_schema2 compares with what is there now: only targets that change
\* are in the transaction, and the lock only when resolving.
Targets(p) ==
  {class \in Classes :
     \/ class = "lock" /\ mode[p] = "resolving" /\ lock[p] # Desired(p)
     \/ class = "context" /\ installed[p] # Desired(p)
     \/ class = "runtime" /\ ~(Planned(p) \subseteq runtime)
     \/ class = "removal" /\ plan[p].removals \intersect runtime # {}}

JournalOf(p) ==
  [NoJournal EXCEPT
     !.owner = p, !.old = plan[p].old, !.new = Desired(p),
     !.lock = lock[p], !.installed = installed[p], !.robbed = robbed,
     !.added = Planned(p) \ runtime,
     !.removed = plan[p].removals \intersect runtime,
     !.at = [class \in Classes |-> IF class \in Targets(p) THEN "old" ELSE "none"]]

\* The lock on disk is the one that was installed.
Settled(p, now) ==
  replaced' = IF lock[p] = now THEN replaced \ {p} ELSE replaced

\* Fault: a recovered snapshot is published and not stored.
PrepareUnstored(p) ==
  /\ pc[p] = "prepare"
  /\ IF ~Publishable(p)
     THEN End(p, "failed") /\ UNCHANGED <<journal, replaced>>
     ELSE IF Targets(p) = {}
          THEN End(p, "ok") /\ Settled(p, Desired(p)) /\ UNCHANGED journal
          ELSE /\ Goto(p, "apply") /\ journal' = JournalOf(p)
               /\ UNCHANGED <<home, fetch, mode, attempt, plan, outcome,
                              replaced>>
  /\ UNCHANGED <<sources, outputs, store, spent, dropped>>

\* _stage_recovered_locked_snapshots stores what was missing, the engine
\* writes its journal.
Prepare(p) ==
  /\ pc[p] = "prepare"
  /\ IF ~Publishable(p)
     THEN End(p, "failed") /\ UNCHANGED <<store, journal, replaced>>
     ELSE /\ store' = store \union plan[p].missing
          /\ IF Targets(p) = {}
             THEN End(p, "ok") /\ Settled(p, Desired(p)) /\ UNCHANGED journal
             ELSE /\ Goto(p, "apply") /\ journal' = JournalOf(p)
                  /\ UNCHANGED <<home, fetch, mode, attempt, plan, outcome,
                                 replaced>>
  /\ UNCHANGED <<sources, outputs, spent, dropped>>

-----------------------------------------------------------------------------
(* _commit_target, of this install's transaction or of a journal that it    *)
(* replays.                                                                *)

Forwarding(p) == pc[p] \in {"apply", "replay"}
Move(class, to) == journal' = [journal EXCEPT !.at[class] = to]

\* History: the owner of the journal, when a recovery moves the lock that its
\* next frozen install has read already and goes on to install.
Superseded ==
  {o \in Projects : /\ o = journal.owner /\ mode[o] = "frozen"
                    /\ pc[o] \in {"read", "serve", "capture", "plan", "lock",
                                  "replay", "restore"}}

LockMoves(to) ==
  /\ lock' = [lock EXCEPT ![journal.owner] = to]
  /\ replaced' = replaced \union Superseded

DisplaceLock(p) ==
  /\ Forwarding(p) /\ Turn("lock")
  /\ At("lock", {"old"}) /\ journal.lock # NoLock
  /\ LockMoves(NoLock) /\ Move("lock", "out")
  /\ UNCHANGED <<sources, installed, runtime, robbed, store, home, process,
                 spent, dropped>>

PlaceLock(p) ==
  /\ Forwarding(p) /\ Turn("lock")
  /\ At("lock", {"saved"}) \/ journal.lock = NoLock
  /\ LockMoves(journal.new) /\ Move("lock", "new")
  /\ UNCHANGED <<sources, installed, runtime, robbed, store, home, process,
                 spent, dropped>>

DisplaceContext(p) ==
  /\ Forwarding(p) /\ Turn("context")
  /\ At("context", {"old"}) /\ journal.installed # NoLock
  /\ installed' = [installed EXCEPT ![journal.owner] = NoLock]
  /\ Move("context", "out")
  /\ UNCHANGED <<sources, lock, runtime, robbed, store, home, process, spent,
                 replaced, dropped>>

PlaceContext(p) ==
  /\ Forwarding(p) /\ Turn("context")
  /\ At("context", {"saved"}) \/ journal.installed = NoLock
  /\ installed' = [installed EXCEPT ![journal.owner] = journal.new]
  /\ Move("context", "new")
  /\ UNCHANGED <<sources, lock, runtime, robbed, store, home, process, spent,
                 replaced, dropped>>

\* The journal learns of a displacement.  A removal has nothing to place.
SaveDisplaced(p) ==
  /\ Forwarding(p)
  /\ \E class \in Classes :
       /\ At(class, {"out"})
       /\ Move(class, IF class = "removal" THEN "new" ELSE "saved")
  /\ UNCHANGED <<sources, outputs, store, home, process, spent, replaced,
                 dropped>>

PlaceRuntime(p) ==
  /\ Forwarding(p) /\ Turn("runtime")
  /\ runtime' = runtime \union journal.added
  /\ robbed' = robbed \ journal.added
  /\ Move("runtime", "new")
  /\ UNCHANGED <<sources, lock, installed, store, home, process, spent,
                 replaced, dropped>>

\* What the owner of the journal removes under the others.
Robbed ==
  {key \in journal.removed \intersect Keys(journal.old) :
     \E q \in Projects \ {journal.owner} : key \in Keys(installed[q])}

DisplaceRemovals(p) ==
  /\ Forwarding(p) /\ Turn("removal") /\ At("removal", {"old"})
  /\ runtime' = runtime \ journal.removed
  /\ robbed' = robbed \union Robbed
  /\ Move("removal", "out")
  /\ UNCHANGED <<sources, lock, installed, store, home, process, spent,
                 replaced, dropped>>

\* The cleanup finds every target as the commit left it.
Decide(p) ==
  /\ Forwarding(p) /\ \A class \in Classes : At(class, {"none", "new"})
  /\ journal' = NoJournal
  /\ IF pc[p] = "apply"
     THEN End(p, "ok") /\ Settled(p, installed[p])
     ELSE /\ Goto(p, "revalidate")
          /\ UNCHANGED <<home, fetch, mode, attempt, plan, outcome, replaced>>
  /\ UNCHANGED <<sources, outputs, store, spent, dropped>>

\* A step raises; the engine restores what it displaced.
CommitFails(p) ==
  /\ Forwarding(p) /\ Spend("trouble", MaxTroubles)
  /\ journal' = [journal EXCEPT !.phase = "back"] /\ Goto(p, "undo")
  /\ UNCHANGED <<sources, outputs, store, home, fetch, mode, attempt, plan,
                 outcome, replaced, dropped>>

-----------------------------------------------------------------------------
(* _rollback_target.  Nobody else writes a target of an open journal, so it *)
(* finds what it expects.                                                  *)

Backing(p) == pc[p] \in {"undo", "restore"}

RestoreRemovals(p) ==
  /\ Backing(p) /\ UndoTurn("removal")
  /\ runtime' = runtime \union journal.removed
  /\ robbed' = robbed \ journal.removed
  /\ Move("removal", "old")
  /\ UNCHANGED <<sources, lock, installed, store, home, process, spent,
                 replaced, dropped>>

WithdrawRuntime(p) ==
  /\ Backing(p) /\ UndoTurn("runtime")
  /\ runtime' = runtime \ journal.added
  /\ robbed' = robbed \union (journal.robbed \intersect journal.added)
  /\ Move("runtime", "old")
  /\ UNCHANGED <<sources, lock, installed, store, home, process, spent,
                 replaced, dropped>>

WithdrawContext(p) ==
  /\ Backing(p) /\ UndoTurn("context") /\ At("context", {"new"})
  /\ installed' = [installed EXCEPT ![journal.owner] = NoLock]
  /\ Move("context", "out")
  /\ UNCHANGED <<sources, lock, runtime, robbed, store, home, process, spent,
                 replaced, dropped>>

RestoreContext(p) ==
  /\ Backing(p) /\ UndoTurn("context") /\ At("context", {"out", "saved"})
  /\ installed' = [installed EXCEPT ![journal.owner] = journal.installed]
  /\ Move("context", "old")
  /\ UNCHANGED <<sources, lock, runtime, robbed, store, home, process, spent,
                 replaced, dropped>>

WithdrawLock(p) ==
  /\ Backing(p) /\ UndoTurn("lock") /\ At("lock", {"new"})
  /\ LockMoves(NoLock) /\ Move("lock", "out")
  /\ UNCHANGED <<sources, installed, runtime, robbed, store, home, process,
                 spent, dropped>>

RestoreLock(p) ==
  /\ Backing(p) /\ UndoTurn("lock") /\ At("lock", {"out", "saved"})
  /\ LockMoves(journal.lock) /\ Move("lock", "old")
  /\ UNCHANGED <<sources, installed, runtime, robbed, store, home, process,
                 spent, dropped>>

\* What made the commit or the replay fail is raised in the end; a journal
\* that was found rolling back leaves nothing to raise.
CloseRollback(p) ==
  /\ journal' = NoJournal
  /\ IF pc[p] = "undo" THEN End(p, "failed")
     ELSE /\ Goto(p, "revalidate")
          /\ UNCHANGED <<home, fetch, mode, attempt, plan, outcome>>
  /\ UNCHANGED <<sources, outputs, store, spent, replaced, dropped>>

\* Fault: a rollback restores the home and not the checkout.
RolledBackHome(p) ==
  /\ Backing(p)
  /\ \A class \in {"runtime", "removal"} : At(class, {"none", "old"})
  /\ CloseRollback(p)

RolledBack(p) ==
  /\ Backing(p)
  /\ \A class \in Classes : At(class, {"none", "old"})
  /\ CloseRollback(p)

\* A dead process keeps no lock.  Before it has one it leaves no more than a
\* refused plan does.
Crash(p) ==
  /\ home = p /\ Spend("crash", MaxCrashes)
  /\ End(p, "crashed")
  /\ UNCHANGED <<sources, outputs, store, journal, replaced, dropped>>

-----------------------------------------------------------------------------
(* The environment. *)

MoveBranch ==
  /\ Spend("trouble", MaxTroubles)
  /\ \E c \in Commits \ {upstream} : upstream' = c
  /\ UNCHANGED <<local, skillfile, seen, outputs, store, journal, home, process,
                 replaced, dropped>>

\* Files are saved in the order in which a capture reads them, the one that
\* can mix an old file with a new one.
EditFile ==
  /\ \E f \in Files :
       /\ local[f] < MaxEdits /\ \A g \in 1..(f - 1) : local[g] > local[f]
       /\ local' = [local EXCEPT ![f] = @ + 1]
  /\ seen' = seen \union {local'}
  /\ UNCHANGED <<upstream, skillfile, outputs, store, journal, home, process,
                 spent, replaced, dropped>>

EditSkillfile(p) ==
  /\ Spend("trouble", MaxTroubles)
  /\ \E aliases \in Skillfiles \ {skillfile[p]} :
       skillfile' = [skillfile EXCEPT ![p] = aliases]
  /\ UNCHANGED <<upstream, local, seen, outputs, store, journal, home, process,
                 replaced, dropped>>

\* A lock that somebody else resolved arrives with the checkout.  What a
\* transaction does about a target that changes under it is TransactionEngine's.
PullLock(p) ==
  /\ journal.owner # p /\ Spend("trouble", MaxTroubles)
  /\ \E c \in Commits :
       /\ lock[p] # LockOf(skillfile[p], c, local)
       /\ lock' = [lock EXCEPT ![p] = LockOf(skillfile[p], c, local)]
  /\ replaced' = replaced \union {p}
  /\ UNCHANGED <<sources, installed, runtime, robbed, store, journal, home,
                 process, dropped>>

\* Somebody deletes source-v1/snapshots.
DropStore ==
  /\ home = Nobody /\ store # {} /\ Spend("trouble", MaxTroubles)
  /\ store' = {} /\ dropped' = dropped \union store
  /\ UNCHANGED <<sources, outputs, journal, home, process, replaced>>

Plan(p) ==
  \/ Select(p) \/ ReadFrozen(p) \/ ReadResolving(p) \/ Resolve(p) \/ Resolved(p)
  \/ Serve(p) \/ ReadFile(p) \/ RereadFile(p) \/ Captured(p) \/ StageStore(p)
  \/ PlanTargets(p)

Commit(p) ==
  \/ DisplaceLock(p) \/ PlaceLock(p) \/ DisplaceContext(p) \/ PlaceContext(p)
  \/ SaveDisplaced(p) \/ PlaceRuntime(p) \/ DisplaceRemovals(p) \/ Decide(p)

Rollback(p) ==
  \/ RestoreRemovals(p) \/ WithdrawRuntime(p) \/ WithdrawContext(p)
  \/ RestoreContext(p) \/ WithdrawLock(p) \/ RestoreLock(p) \/ RolledBack(p)

Install(p) ==
  \/ Plan(p) \/ LockTimeout(p) \/ Recover(p) \/ Revalidate(p) \/ Prepare(p)
  \/ Commit(p) \/ Rollback(p)

Next ==
  \/ \E p \in Projects :
       \/ Start(p) \/ Install(p) \/ Refuse(p) \/ CommitFails(p) \/ Crash(p)
       \/ EditSkillfile(p) \/ PullLock(p)
  \/ MoveBranch \/ EditFile \/ DropStore

Spec == Init /\ [][Next]_vars
Fairness == \A p \in Projects : WF_vars(Install(p))
FairSpec == Spec /\ Fairness

-----------------------------------------------------------------------------
Members == [Aliases -> Packages \union {NoPackage}]
Locks == [skillfile: SUBSET Aliases, members: Members]
Entries == Aliases \X Packages

PlanType ==
  [old: Locks, skillfile: SUBSET Aliases, data: SUBSET Aliases,
   members: Members, read: Seq(Versions), checked: 0..LastFile,
   missing: SUBSET Entries, staged: SUBSET Entries,
   removals: SUBSET Entries, lock: Locks, installed: Locks,
   runtime: SUBSET Entries]

JournalType ==
  [owner: Projects \union {Nobody}, old: Locks, lock: Locks, installed: Locks,
   new: Locks, added: SUBSET Entries, removed: SUBSET Entries,
   robbed: SUBSET Entries,
   at: [Classes -> {"none", "old", "out", "saved", "new"}],
   phase: {"forward", "back"}]

Steps == {"idle", "select", "read", "resolve", "serve", "capture", "store",
          "plan", "lock", "revalidate", "prepare", "apply", "replay", "undo",
          "restore"}
Outcomes == {"none", "running", "ok", "failed", "crashed"}

SourcesTyped ==
  /\ upstream \in Commits /\ local \in Trees
  /\ skillfile \in [Projects -> Skillfiles]
  /\ seen \subseteq Trees /\ replaced \subseteq Projects
  /\ spent \in [install: 0..MaxInstalls, crash: 0..MaxCrashes,
                trouble: 0..MaxTroubles]

HomeTyped ==
  /\ lock \in [Projects -> Locks] /\ installed \in [Projects -> Locks]
  /\ store \subseteq Entries /\ runtime \subseteq Entries
  /\ dropped \subseteq Entries /\ robbed \subseteq Entries
  /\ journal \in JournalType
  /\ home \in Projects \union {Nobody}

InstallsTyped ==
  /\ pc \in [Projects -> Steps] /\ fetch \in [Projects -> BOOLEAN]
  /\ mode \in [Projects -> {"none", "frozen", "resolving"}]
  /\ attempt \in [Projects -> 0..Attempts]
  /\ plan \in [Projects -> PlanType]
  /\ outcome \in [Projects -> Outcomes]

\* Every variable has its type; an install plans at most Attempts times.
TypeOK == SourcesTyped /\ HomeTyped /\ InstallsTyped

\* A lock has a package for exactly what its Skillfile selects, and the
\* aliases of one Git declaration are at one commit, however often the branch
\* moved and the Skillfile changed while it was made.
OneResolution(l) ==
  /\ {a \in Aliases : l.members[a] # NoPackage} = l.skillfile
  /\ \A a, b \in GitAliases \intersect l.skillfile :
       l.members[a] = l.members[b]

LockIsOneResolution == \A p \in Projects : OneResolution(lock[p])

\* What the store has of the directory is a state the directory was in, never
\* a mixture of two.
CaptureIsOneState == \A key \in store : key[2] \in Trees => key[2] \in seen

\* What a project has installed can run, unless an upgrade of another project
\* removed the entry they shared.
RuntimeKept ==
  \A p \in Projects :
    \/ Keys(installed[p]) \subseteq runtime \union robbed
    \/ journal.owner = p /\ At("runtime", {"old"})

\* What is installed can be served again from the store.
StoreServesInstalled ==
  \A p \in Projects : Keys(installed[p]) \subseteq store \union dropped

\* Outside a transaction a project's lock and what was installed from it
\* agree, after every failure, crash and recovery, unless the user has put
\* another lock there, or a frozen install has gone on with a lock that the
\* recovery of an older install of its project replaced meanwhile.
LockIsInstalled ==
  \A p \in Projects \ replaced :
    journal.owner # p /\ installed[p] # NoLock => installed[p] = lock[p]

\* The runtime entries that the upgrade of p may have to remove, after the
\* recovery of what waits, have the records that their removal needs.
RecordsKept(p) ==
  LET journals == IF journal.owner = p
                  THEN Keys(journal.lock) \union Keys(journal.new) ELSE {} IN
  (Keys(lock[p]) \union journals)
    \intersect (runtime \union journal.added \union journal.removed)
      \subseteq store \union Keys(LockOf(skillfile[p], upstream, local))

\* Nothing can disturb p any more, and a transaction that waits is one whose
\* recovery does not raise, and leaves an attempt for the state it changes.
Quiet(p) ==
  /\ spent = [install |-> MaxInstalls, crash |-> MaxCrashes,
              trouble |-> MaxTroubles]
  /\ local = [f \in Files |-> MaxEdits] /\ home = Nobody
  /\ \A q \in Projects \ {p} : pc[q] = "idle"
  /\ RecordsKept(p)
  /\ journal # NoJournal =>
       attempt[p] < Attempts /\ (journal.phase = "back" \/ ~Refused)

\* An upgrade that starts an attempt when nothing disturbs it succeeds,
\* whatever has been left in the home and in the checkout.
QuietUpgradeSucceeds ==
  \A p \in Projects :
    Quiet(p) /\ pc[p] = "select" /\ fetch[p] ~> outcome[p] = "ok"

=============================================================================
