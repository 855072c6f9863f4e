# A TLA+ model of CocoaSkills (`csk`)

`csk` installs packages of agent skills into projects. An install resolves the
declared skills, builds their commands, and replaces a set of files and
directories in the project and in the manager home (`~/.csk`). Its hard part is
that replacement: it spans many live paths, other programs write the same paths,
several `csk` processes run at once, and any of them may die between two steps.
This directory models that part, and the installs and the garbage collection
around it. Paths below are relative to `src/src/csk/`.

## 1. Inventory

| Component | State it keeps | Operations | Talks to |
|---|---|---|---|
| `transactions.py`, `TransactionEngine` | one journal per transaction under `state/transactions/v1`; per target a staged tree, a backup, a rollback copy and their cleanup tombs | `prepare`, `commit`, `recover`, `rollback`, reverse rollback, sidecar cleanup, journal removal | every writer of live paths; the home lock as a witness; publication hooks |
| `locking.py` | lock files `.lock`, `locks/projects/*`, `locks/builds/*`; thread and process bookkeeping | acquire, assert, release; order checks | every command that changes state |
| `installer.py`, `global_install.py` | the plan of one install | plan, build, lock, recover, revalidate, publish, commit, retry | engine, locks, cache, sources, registry |
| `gc.py`, `consumers.py` | `consumers.json`, mark sets | mark, sweep by transaction, prune consumers | engine (references in journals), cache, markers |
| `builds/cache*.py`, `builds/planner.py` | immutable cache entries, private staging, quarantine | inspect, publish without replacement, collect after a grace time | build locks, home lock |
| `sources/store.py`, `sources/publish.py`, `sources/lock.py` | snapshot store, Skillfile lock, materialised trees | stage and swap, re-plan under lock, publish | engine, exclude locks |
| `gitignore_gate.py`, `ignore_policy.py` | each project's block in a shared Git exclude file | replace a block under its own OS lock, roll it back | engine (shared-block targets) |
| `dispatch.py` | launcher generations and the `current` link | stage, activate, prune, recover | home lock |
| `audit_registry.py`, `audit/` | last snapshot version per registry, response cache | check freshness and rollback, fetch, submit, retry | network |
| `sources/transport.py`, `git_admission.py`, `build_repository*.py` | none of their own | ordered fetch attempts, admission of Git objects | Git, network |
| `mcp_*.py` | consent store, owned entries in client configurations | merge, revoke, publish | engine |
| `closure.py` | none | dependency closure with conflict rules | installer |
| `install_marker.py`, `published_trees.py`, `status.py` | markers inside published trees | validate, compare | installer, GC |
| the rest (`cli.py`, `config.py`, `skillspec.py`, `builds/go_v1.py`, ...) | configuration | parsing, validation, subprocesses, output | - |

What is hard: the order of durable steps (a rename, then a save of the journal)
against process death; live paths that a user's editor changes between two
reads; publication boundaries (parent directories) that move during a recovery;
handlers that fail themselves; two threads checking the lock order at once; a
lock path that an older `csk` renames away; state planned without the home lock
and used under it; a retry of an install; and a cleanup that must resume.
`PROJECT.json` lists these hazards at their lines, with the properties that
cover each, or the reason why none does.

What makes each part correct:

* engine: a transaction ends with all of its targets new or all of them old; no
  user bytes are destroyed; a decision is final; the journal outlives everything
  it owns; recovery finishes;
* locks: one owner; the owner's record stands; no waiting in a circle; a
  reservation never outlives its acquisition;
* installs: what is committed was planned from the state it replaces; nothing of
  a failed attempt stays; GC removes nothing that is referenced;
* build cache and stores: an entry is complete or not there, and a loser of a
  publication race adopts a verified winner;
* registry: an accepted snapshot never goes backward.

## 2. What is modelled

### `TransactionEngine` (the core)

One transaction over `N` targets, `Hooked` of them with a publication recheck
payload, `Guarded` when one carries a commit guard. The other half of what a hook
decides is whether the transaction explains what is at the live path
(`Recognized`, `sources/publish.py:2541-2555`): a target whose displacement the
journal does not know of is refused, except where the hook looks into the backup
(`Adopting`). The content of a path is
what digests tell apart: `absent`, the planned preimage `old`, the planned
content `new`, a half-written `partial` tree, and `foreign` bytes of a user.

| Variable | Code |
|---|---|
| `plan` | `TransactionPlan`: expected and desired digest per target, and whether a payload says `ignore_mode_switch` |
| `live`, `side`, `tomb` | live path, the staged/backup/rollback sidecars, and the `.delete` path of each |
| `record`, `journal` | `<id>.json` or its removal tomb, and what it says: phase, state and backup digest per target, cleanup state and digest per sidecar |
| `call`, `pc`, `cur`, `seen` | the running method, the next step, the target it works on, the live digest it read |
| `boundary` | whether the recorded publication boundary holds: all that a guard decides, and half of what a hook does |
| `spent` | how much of its bounds the environment has used |
| `verdict`, `owed` | history: the decision, and how many copies of user bytes must still exist |

An action is one step that the file system makes durable, or one read that a
later step relies on. `prepare` is `Prepare`, `StageTarget`, `SavePrepared`;
`_commit_journal` and `_commit_target` are `CommitGuard`, `AdoptBackup` or
`ReadLive`, `VerifyPreimage`, `DisplaceLive`, `SaveBackedUp`, `InspectBackedUp`,
`PlaceStaged`, `SaveCommitted`, `CheckCommitted`, and `Decide`, the save of phase
`cleanup`, which is the commit point. `_rollback_target` is `SkipTarget`,
`RewindPending`, `RewindAdvanced`, `UndoPlaced`, `RestoreBackup`,
`SaveRolledBack`. Removal is `VerifyCommitted`, `BeginRemoval`, `RecordSidecars`,
`TombSidecar`, `SaveTombed`, `RemoveTomb`, `SaveRemoved`, `TombJournal`,
`UnlinkJournal`. `Recover` and `Rollback` dispatch on the durable phase as the
code does. `Crash` loses everything but the files. `PrepareFails`, `CommitFails`
and `StepFails` are exceptions, with the handler each has in the code; a save may
fail before its rename or after it (its directory sync). `Edit` is another
program, `MoveBoundary` and `RestoreBoundary` what happens to a parent directory.

One variable holds the journal in memory and on disk, since they differ only
inside one save; where a failed save leaves the newer value in memory and the
handler then saves it, `CommitFails` has that outcome. Sidecars and the journal
are written by the engine only: they are private to the home and the staging
area. All callers in the repository give a preimage digest, so
`expected_generation` has no counterpart.

Not in this module: the progress records inside one staged tree and inside one
cleanup tomb (a tree is one content here), shared-block targets, which are in
`SharedExclude`, and homes with several journals. One behaviour runs one
transaction.

### `AtomicInstall`, `TransactionRefinement`

`AtomicInstall` is the promise without journal, crash or recovery: originals are
displaced only when every replacement is staged, one decision makes the set
final, and an abandoned publication restores every original before it throws a
replacement away. `TransactionRefinement` maps the engine onto it: where the
preimage and the planned content of a target are, and which decision the files
make durable. A discard of a prepared journal that has recorded its sidecars
already is an abort. The mapping is for behaviours without user edits, because
bytes of a user belong to neither entry; with edits, the properties of
`TransactionEngine` say what holds.

### `StableLock`

One lock file and `_ExclusiveFileLock.__enter__` check by check: open or create,
the non-blocking attempt, three comparisons of the path with the open file,
three looks for a breaker's side file, the refusal of records of another
protocol, truncation, write, read-back. `record` holds each file's content, a
process standing for its own record with its token. Legacy breakers are outside
this repository's code: they do what the script in `tests/test_locking.py`
(`_LEGACY_STALE_BREAKER`) does, read a dead owner's record, rename the path
aside, and put it back or delete it. A crash in the write leaves a torn record.

### `LockOrder`

Threads of several processes over one manager home, with project locks (ordered
by identity), build locks and the home lock. `Reserve` is
`_check_order_before_acquire` (what the thread holds, then, under the process
guard, what any thread of the process has pending or held), `TryLock` the file,
`RecordAcquired` the second look, `Unreserve` the failure path, `Release` and
`RecordReleased` the two halves of `__exit__`. Threads take locks in any
sequence the checks admit, which covers `ProjectLocks` and every caller.
Identities are numbers in the byte order of their UTF-8.

### `InstallHome`

The schema-1 installs of several projects and `csk gc` over one home
(`installer.py`, `gc.py`, `consumers.py`, `dispatch.py`). Every project declares
one skill, and a commit of it stands for the snapshot, the runtime tree and the
build made of it. `LockOrder` shows that the home lock excludes; here it is one
variable. `TransactionEngine` shows what a transaction does with each target;
here it is a class of targets, and each rename of a class that leaves something
for others to read is a step: between the two renames of `consumers.json` there is
no registry, between those of a context no marker. Recovery is the engine's:
forward while every target is as the journal says, otherwise back, and refused
when what would undo is gone.

| Variable | Code |
|---|---|
| `source` | the commit a project's ref resolves to |
| `marker`, `runtime`, `snapshots`, `builds` | `.csk-install.json`; `runtime/<skill>/<commit>`; `cache/<source>/<commit>/snapshot`; the build cache with the age of an entry |
| `registry`, `pins` | `consumers.json`, which may be `Torn` or `Missing`; what the active dispatch generation serves |
| `journal`, `home` | the transaction on disk: its phase, and per class whether it is as found (`old`), displaced (`out`) or applied (`new`); the owner of the home lock |
| `pc`, `attempt`, `plan`, `outcome`, `gc` | the install process of each project and the collector |
| `spent` | how much of each bound is used |
| `torn`, `stale`, `overlooked` | history: the registry was truncated by a crash; runtimes that a removal took although a marker named them which the plan did not know; what a sweep took although a marker names it |

A plan is a sequence of reads without the home lock, and others commit between
any two of them: `Start` (it observes the generation), `Resolve` (the closure, its
fetch and `plan_builds`), `ReadMarker` (one checkout's marker; the configured ones
first), `ReadConsumers`, `ReadMarker` again for whom the registry lists,
`ReadPins`, `ListRuntime` (the removals), `CapturePreimages`, `BuildPrivate`. Under
the home lock follow `Recover`, `Revalidate`, `Prepare` and the commit or replay:
`DisplaceContext`, `PlaceContext`, `PlaceRuntime`, `DisplaceRemovals`,
`SaveRemovals`, `DisplaceConsumers`, `PlaceConsumers`, `Decide`, `Clean` and
`PublishProject`. `Stopped` finds a target that is not what the journal expects.
The rollback is `WithdrawConsumers`, `RestoreConsumers`, `RestoreRemovals`,
`WithdrawRuntime`, `WithdrawContext`, `RestoreContext`, and ends in `RolledBack`
or `UndoRefused`. `StartAgain` is the next attempt after
`concurrent_state_change`. `LockTimeout`, `CommitFails` and `PublishRefused` are
its failures. The collector is `GcLock`, `GcMark`, `GcTruncate` and `GcRewrite` (the
registry is opened for writing, then written), `GcRuntime`, `GcSidecars`,
`GcSnapshots`, `GcBuilds`. `MoveRef`, `Vanish` (a checkout is deleted), `Crash` and
`CollectorCrash` are the environment.

The properties except what the code does lose, and say that nothing else is:

* `stale`: a removal takes a runtime which a marker names that was not read, or
  has changed since. `Revalidate` compares the planner's own generation and the
  preimages of its targets only. The plan, and then the journal, keeps as history
  whose marker, as it is now, the plan has read (`sure`); a removed tree that the
  marker of anybody else names is stale (`Overtaken`).
* `torn`: a crash truncates `consumers.json`, and the next install forgets every
  consumer which is not in `config.json`, although CHANGELOG.md:731-733 says that
  the registry keeps the collector from runtimes which such checkouts reference.
* `overlooked`: an install dies while `consumers.json` is displaced, and a sweep
  takes what only registered checkouts name, for an absent registry is a valid
  empty one (`gc.py:252-253`; `install_home_gap` below). Or it dies after the
  rename of a removal and before its save, and a sweep takes the backup: a
  rollback then takes the removal for one that never began.
* `ConsumersCoverMarkers` allows the window of the two renames itself, if the
  open journal has the checkout in the registry it has displaced.

### `SourceInstall`

The installs of schema-2 projects in both lanes (`sources/publish.py`,
`modes.py`, `store.py`, `snapshot.py`). Git aliases name a branch of one
repository; the local alias names a directory that is edited while its files are
read one by one. A transaction is one of target classes, rename by rename, as in
`InstallHome`, and the journal also says whether a displacement was saved.

| Variable | Code |
|---|---|
| `upstream`, `local`, `skillfile` | the branch, the files of the directory, the aliases `Skillfile.json` selects from |
| `lock`, `installed` | `Skillfile.lock.json`, and the lock that contexts and markers were made from |
| `store`, `runtime` | `source-v1/snapshots` and `source-v1/runtime` |
| `journal`, `home`, `pc`, `attempt`, `plan`, `outcome`, `spent` | as in `InstallHome` |
| `fetch`, `mode` | whether the command is an upgrade; the lane the attempt has chosen |
| `seen`, `replaced`, `dropped`, `robbed` | history: states of the directory, projects whose lock was replaced under an install, deleted store entries, runtime entries that one project removed under another |

`Select` reads the lock and chooses the lane, `ReadFrozen` and `ReadResolving`
read it again in the lane. `Resolve` and `Resolved` turn aliases into packages
with the memo of the declaration, `Serve` takes a frozen package from the store
or marks it as missing, `ReadFile`, `RereadFile` and `Captured` are the capture
of a directory and its second reading, `StageStore` the store. `Refuse` stands
for every error before the lock. `PlanTargets`, `LockTimeout`, `Recover`,
`Revalidate`, `Prepare` lead to the publication: `DisplaceLock`, `PlaceLock`,
`DisplaceContext`, `PlaceContext`, `SaveDisplaced`, `PlaceRuntime`,
`DisplaceRemovals`, `Decide`. After `CommitFails` the rollback is `RestoreRemovals`,
`WithdrawRuntime`, `WithdrawContext`, `RestoreContext`, `WithdrawLock`,
`RestoreLock`, `RolledBack`. `MoveBranch`, `EditFile`, `EditSkillfile`, `PullLock`
(the user checks out another lock) and `DropStore` are the environment.

A dead install is not always finished. A target that is displaced, and pending in
the journal, is none that the publication hook recognizes
(`sources/publish.py:2541-2555`, called at `transactions.py:753`), so `Recover`
starts a rollback instead of a replay (`Refused`), which restores the old lock and
ends that install with an error; a journal that was rolling back goes on backward.
A removal needs the stored record of the entry (`Recorded`,
`sources/publish.py:2894-2908`), at planning and again under the lock; without it
the install ends and is not retried.

The lock is read twice, by `modes.select` and by the lane. A lock that appears
between the two is overwritten by a plain install, which the model does too.
An upgrade removes the runtime entries that its own old lock named, also when
another project has installed the same package
(`sources/publish.py:2024-2052`; the docstring at 1841-1846 says that it "never
touches another installation"): `RuntimeKept` excepts exactly those (`robbed`).
An install with a frozen lock compares that lock with the one it has read
(`_require_frozen_lock_unchanged`, `sources/publish.py:3927-3967`), and there is
no recovery before the reading. So when a dead install of the same project left
a journal, its recovery under the home lock may move the lock after it was read,
forward to the one of the journal or back to the one before it, and the contexts
that are then published come from a lock that is no longer there.
`LockIsInstalled` excepts it (`Superseded`, as `replaced`). Two installs reach it:
one whose rollback dies, and a frozen one that has read the lock it had placed.
An edit writes what a file has never held, so a directory that is changed and
changed back between the two readings is outside the model.

### `SnapshotCache`

`get_snapshot` (`snapshot.py`) and the extraction of the archive, for several
fetchers of one commit: look for the final name, take an existing staging
directory for a leftover and remove it (one unlink at a time), extract one file
at a time, rename. A directory has an identity, because `rmtree` goes on in the
directory it opened whatever its name is by then.

### `SharedExclude`

The linked worktrees and nested projects of a repository share
`$GIT_COMMON_DIR/info/exclude` (`gitignore_gate.py`, `ignore_policy.py`, the
shared-block targets of `transactions.py`). The projects are installed from
different homes, so no home lock orders them, only `csk-exclude.lock`.

| Variable | Code |
|---|---|
| `file` | the segments of the file: lines of the user, with or without a last newline, and whole blocks, at most one of each project; a block is found by its position (`Span`, `Without`) |
| `journal` | per home: phase and state, old and new block, the original bytes, whether a mode switch made it |
| `elock` | the owner of the exclude lock |
| `pc`, `kind`, `plan`, `read` | the command of each home, what it planned, and the file it read and is about to replace |
| `init` | `csk init`, which takes the exclude lock and no home lock |
| `budget` | what is left of the bounds |
| `settled`, `touched`, `overrun` | history: the block the last outcome left; a block that others changed under its journal; an edit between a read and its write |

`Begin` starts an install, a mode switch or `csk recover --rollback`;
`LockToRecover`, `Recover`, `RecoverRefused` recover first; `LockToPlan`, `Plan`,
`Prepare`, `Prepared` open a transaction; `BackUp`, `ReadToInstall`,
`WriteInstalled`, `SaveInstalled` are `_commit_shared_block`; `CommitOthers` and
`OthersFail` the other targets; `ReadToRestore`, `RestoreRefused`,
`WriteRestored`, `SaveRestored` are `_rollback_shared_block`; `Finish` removes
the journal, and keeps it when the block of a committed one is not the one it
has written (`transactions.py:1034-1039`). `EnsureLock`, `EnsurePlan`, `EnsureCheck`, `EnsureWrite` are
`ensure_ignored`. `Edit`, `Crash` and `InitDies` are the environment.

An edit of the user that falls between a writer's read and its `os.replace` is
lost (`overrun`), although docs/cli.md:43 and docs/troubleshooting.md:345-347
say that other bytes stay as they are: the user takes no lock. A block that the
user or `csk init` changes under an open journal makes recovery refuse until it
is put back (`touched`). A rollback may insert a removed block at another place,
and takes away a final newline that the user added; the newline is not part of
`ForeignBytesKept`.

## 3. The runs

| Run | Instance | Shows |
|---|---|---|
| `atomic_install` | 3 targets, symmetric | the abstract promise is consistent |
| `transaction_edits` | 2 targets, one hooked, guarded; 1 crash, 1 fault, 1 boundary move, 1 edit | user bytes and preimages are kept, all or nothing, no residue, final decisions, who may commit |
| `transaction_refines` | 2 targets, one hooked; 2 crashes, 1 fault, 1 move, no edit | the engine implements `AtomicInstall`; as long as no step fails, recovery ends every transaction |
| `transaction_stuck` | 1 target; 1 crash, 1 fault | a violation, see below |
| `transaction_stale` | 1 target; 3 edits | a violation, see below |
| `stable_lock` | 3 processes, 3 breakers, 5 files, 1 crash | one owner, its record, foreign records kept |
| `lock_order` | 2 processes of 2 threads, 2 projects, 1 key, 1 death | order, reservations, no circular wait |
| `install_home` | 2 projects, one configured, 2 commits; 2 attempts, 2 installs, 1 sweep, 1 crash, 1 trouble (1.2 million states) | what markers name stays, the registry covers markers, the dispatcher follows, an undisturbed attempt succeeds |
| `install_home_gap` | the same without trouble | a violation, see below |
| `source_install` | 2 projects, 2 Git aliases and a local one, 2 files, 2 commits; 2 attempts, 2 installs, 1 crash, 1 edit per file, 1 trouble (1.0 million) | a lock is one resolution, a capture one state; lock, installation, store and runtime agree; an undisturbed upgrade succeeds |
| `shared_exclude` | 2 projects in 2 homes, 2 contents; 2 runs, 1 edit, 1 trouble (0.5 million) | foreign bytes are kept, each block follows its outcome, recovery ends |
| `snapshot_cache` | 2 fetchers, 2 files, 4 directories, 1 death | a violation, see below |

Bounds of the engine and the locks. Two targets are the fewest for which the
order of targets, a partial forward pass and a partial rollback exist; one of
them is hooked so that a boundary splits them. Its hook looks into the backup in
`transaction_edits`, and refuses a displaced target that is pending in the others.
Every plan is an initial state: a target may be created, replaced, removed, or
absent before and after. A path that already has its new content is in no plan:
the callers take only targets that change. One crash and one
fault reach a failing handler after a replay; two crashes reach a crash inside a
recovery. One edit reaches each window between two reads; three are needed for
the second violation. Three contenders and three breakers are the fewest with
which a file can be put back while another one has been made, and five files let
every contender make one. Two threads in each of two processes give each lock
order both a rival thread and a rival process.

Bounds of the installs. Two projects are a planner and a rival. Two installs in
all are one of each, or one that dies and the one that recovers it; one sweep
falls into every gap of both. Two commits tell an upgrade from a reinstall. Two
attempts make a retry and the end of the retries (the code has three).
`MaxTroubles` is one shared bound for what goes wrong without a crash: in
`InstallHome` a moved ref, a deleted checkout, a failed step; in
`SourceInstall` a moved branch, a refused plan, another Skillfile or lock, a
deleted store entry, a failed step; in `SharedExclude` a process that dies or a
lock wait that runs out. `InstallHomeMC` fixes the first project's ref to one of
the two commits, which are alike, and lets left-over runtimes be none or all; both
checkouts are new or at one commit, or the second has not been brought to
the commit that both refs resolve to.
`SourceInstallMC` starts with two new projects, or with one that was installed
before the branch moved and a clone that brings a lock. In `SharedExclude` the
file is absent at first, or has one project's block before a line without a
newline, which is where a second block has to go to the front; two runs are one
of each project, or an operation and `csk init`, and recoveries are unbounded.
`spent` and `budget` count these bounds, and an edit of a local file raises its
version up to `MaxEdits`.

`CHECK_DEADLOCK FALSE` is set for `AtomicInstall`, which ends, and for
`InstallHome`, `SourceInstall`, `SharedExclude` and `SnapshotCache`, where no
process is left to run when the bounded commands have ended. The engine's end is
the explicit stutter `Finished`.

Fairness of the engine, in `FairSpec` only. `WF(EngineStep)`: a running `csk`
takes its next step, and some later command calls `recover`, which every command
that takes the home lock for a publication does first. `WF(RestoreBoundary)`: the
operator puts back a boundary, as the printed remedy asks. `Rollback`, a user's
explicit command, is not assumed.

Fairness of the installs. `InstallHome` and `SourceInstall` have `WF` on the
steps of each running install and of the running collector, and on nothing
that starts one, crashes, fails or edits. Waiting for the home lock needs no
more: the property `QuietInstallSucceeds` (`QuietUpgradeSucceeds`) is about an
attempt that begins when the bounds are used up and no other process runs. It
promises success from every state that is reached then, with markers, leftovers,
journals and locks of any history, but for what makes the code raise. That is a
journal whose recovery ends with an error: a replay that is rolled back, or a
rollback that is refused (`Recoverable`, `Refused`). It is an upgrade whose
removals, or those of a lock that recovery brings back, have lost their stored
record (`RecordsKept`). And it is a journal that is recovered by the last attempt,
which then has none left for the state it changed. `SharedExclude` has
`WF(Run(p))`, `WF` on a further command in a home that holds a journal
(`csk install` or a switch, never `--rollback`), `WF` on the steps of `csk init`
under the lock, and `SF(LockToRecover(p))`: a waiter tries the lock every 50 ms,
so it is assumed to get a lock that is free again and again. Waits that do run
out are `LockTimeout`, which `MaxTroubles` bounds here and which ends one of the
bounded installs in the other two modules.

### Four violations

`transaction_stuck`. In `prepare`, the save of phase `prepared` may rename the
journal into place and then fail to sync the directory. The handler discards the
transaction, and records its cleanup in a journal whose phase on disk is
`prepared`. If the process dies then, every later recovery takes the journal for
one to commit; its save of `committing` is refused because a cleanup has begun.
Running `csk install` again, which the message and `docs/cli.md` ask for, never
helps; `csk recover --rollback` does.

`transaction_stale`. `_commit_target` reads the live digest, verifies the
preimage by a second read, and checks what its rename captured against the
first read. When a path holds user bytes, the preimage and user bytes again at
those three moments, the user's bytes become the backup, the transaction
commits, and cleanup deletes them. With at most two edits the second read or the
last comparison notices.

`install_home_gap`. An install renames `consumers.json` to its backup
(`transactions.py:771`), saves the journal, and puts the new registry in place
(806). If it dies in between, the registry is absent until the next install
recovers. `csk gc` recovers nothing, takes an absent registry for a valid empty one
(`gc.py:252-253`), and reads the journal for context targets only. So it removes
the runtimes, snapshots and aged builds of every checkout that is registered and
not configured, which consumers.py:9 says it "must not". The recovery that follows
puts back a registry whose checkouts have lost their runtimes.

`snapshot_cache`. The staging directory of a commit has one name for all
processes, no lock covers it, and a fetcher takes one that exists for the
leftover of a dead one. Its `rmtree` unlinks files while the other extracts; what
is left is renamed to the final name, and every later install is served that
snapshot unchecked, although it is to be "content addressed, immutable"
(`closure.py:315`) and "Only committed content can be installed."
(docs/mvp-design.md:271).

## 4. The proofs

`AtomicInstallProofs` (for every set of targets). The invariant `IInv` is the
type invariant with the placement of each target: which pairs of positions go
with which decision, and that originals are displaced only when all staging is
done. From it follow `NothingLost`, `CommitShowsAll` and `AbortShowsNothing`.

`TransactionProofs` (for every `N`, every set of hooked targets and every
bound): `TypeOK`, one lemma per group of actions, with lemmas for what a
rename, a save and a control step preserve. That the journal's cleanup digests
stay in range needs the types of the files, so the invariant is `TypeOK` as a
whole. It is too weak for the decision properties, because nothing in it ties the
running routine to the durable phase. `PhaseAgrees` does: forward steps run only
in `committing`, rollback steps only in `rolling_back`, cleanup only after the
commit, and only `commit`, or `recover` outside a mode switch, goes forward.
With `TypeOK` it is inductive (`Inv`), and it implies that a decision is final
(`DecisionIsFinal`) and who may commit (`OnlyOwnerCommits`).

`TransactionOutcomeProofs` adds to `Inv` what the files hold, in layers, each of
which needs those before it:

* `RemovalInv`: a discard begins only where no target's state changes any more,
  and each sidecar and its tomb are as the manifest says. At the removal of the
  journal everything is gone: `NoResidue`.
* `ContentsInv`: what a sidecar may hold when its manifest is recorded, which is
  all that cleanup throws away. Every step of the engine moves the copies of a
  preimage or leaves them: `PreimageKept`.
* `EditsInv` counts the edits that each window between two reads takes. The
  loop takes a user's bytes for a preimage only after three, so the user's bytes
  are kept with at most two (`spent.edit <= 2 => UserBytesKept`); the run
  `transaction_stale` shows that the third loses them.
* `OutcomeInv`: how far the loop has come, and where the entries of a target that
  no user touched are, by its state in the journal: `AllOrNothing`.
* `PlainInv`: the planned content of a target is in one place at a time. With it
  every step of `Spec` without user edits is a step of `AtomicInstall` or a
  stutter, for every `N` and every number of crashes and faults:
  `Spec /\ [](spent.edit = 0) => ImplementsAtomicInstall`.

`StableLockProofs` (for every set of processes and breakers, any number of files
and crashes). `SingleOwner` is far from inductive: a breaker may put an old file
back at any time. The invariant says that of all files which the path names or
a breaker can still put back, at most one carries the record of a process or is
about to (`OneSigned`), and that an owner's file is always one of these
(`OwnerLinked`). `FileHeld` has what the checks have established so far,
`OneMove` that a breaker moves one file in its life, `Fresh` that a file nobody
has made is nowhere. It gives `SingleOwner`, `OwnerRecorded` and the action
property `ForeignRecordKept`.

`LockOrderProofs` (for every set of threads, processes and cache keys, and any
number of projects): all five properties of the run. `Inv` is the type invariant
with four parts. `Named` says that an acquisition or release names its lock;
`Booked` ties each reservation and each record of a process to one thread and
lock, which the set equality `Accounted` follows from; `Owned` says whose a
locked file may be; `Ascending` says that what a thread waits for comes after
all it holds. `HomeExcludesOuter` is inductive with these, and with `Booked` it
gives `ReservationHolds`. For `NoWaitCycle`, take in a supposed circle the
thread that waits for the last lock of the order: by `Owned` and `Ascending` the
owner it waits for waits for a later one. One lemma per action preserves `Inv`.

`InstallHomeProofs` (for every set of projects and commits and every bound).
The invariant is the type invariant, `HomeHeld` (whoever is past the lock is the
`home`, so at most one is: `HomeExclusive`) and `SnapshotsKept`.
`RuntimeHasSnapshot` alone is not inductive, since a rollback may bring a runtime
back that is in no directory now. So `SnapshotsKept` also says that what the open
journal may still place or bring back has its snapshot, unless a sweep has taken
the bytes, and that a sweep of snapshots knows every runtime that is there.

Its second part proves what projects, journal, registry and collector owe to each
other. `HomeAgrees` has a part for each. An open journal says what its owner's
marker is, with the context displaced or in place, and its classes are applied in
order (`JournalAgrees`); a successful install leaves none (`InstallsAgree`).
Whoever has a marker, or gets it back from the journal, is in the registry, or in
the one that the journal has displaced, in every registry the journal can write,
and in the one the collector writes (`ConsumersAgree`). A sweep has marked what
the journal can restore and, unless it ran while there was no registry, what
markers name (`SweepAgrees`); the builds of both are in the cache (`BuildsAgree`).
A plan removes neither its own commit nor what the marker of a checkout that it
has read names (`RemovalsAgree`, by `sure`). What a journal has published or can
restore is there, but for removals whose backup a sweep took (`RuntimeAgrees`).
None of the parts is inductive alone: the sweep is sound because of the registry,
the registry because of the journal. `HomeAgrees` gives `RuntimeKept`,
`BuildsKept`, `ConsumersCoverMarkers` and `DispatchFollowsInstall`.

`SourceInstallProofs` (for every set of projects, aliases and commits, any number
of files, every bound). `SourcesKnown` has the types, and that a second reading
comes after a first. `Resolution` follows a lock from the plan that makes it,
through the journal, into the checkout: how much of a plan is resolved depends on
its step, and all Git aliases that are resolved have one commit
(`LockIsOneResolution`). `StoreKept` has that a journal installs only what is
stored, and that what is installed is stored or was deleted by somebody
(`StoreServesInstalled`).

`CaptureIsOneState` follows from what a capture knows (`CapturesSeen`): versions of
files only grow, so some state the directory has had lies between what was read
and what is there now, and equals the first reading wherever the second has
confirmed it. `LockIsInstalled` and `RuntimeKept` follow from `SourceAgrees`.
Target classes are applied in their order and taken back in reverse (`InOrder`).
What is applied is as the journal wants it, what is displaced is gone and the rest
is as it was found (`JournalLocks`), which holds for a journal that goes forward,
one whose replay is refused and one that goes back. The new lock can run once the
runtime is applied, and until then everybody can run from what a rollback
restores (`JournalRuntime`). A frozen install has read the lock that is there,
will notice under the home lock, or is in `replaced` (`InstallsAgree`).

`SharedExcludeProofs` (for every set of projects, contents and first files). Who
plans, commits, replays or undoes holds the exclude lock (`OneWriter`), so what
a writer has read is what the file holds when it writes, unless the user edits
in between (`NoUpdateLost`, the action property under `ForeignBytesKept`).

The other properties are about what the file holds. Lemmas about the operators
come first: a file is a sequence with one position per block, replacing a block
leaves the others where they are relative to each other, what a rollback
writes back is a rewriting of the same kind, and "a user's edits may make `g`
of `f`" (`Follows`) is a partial order. `Agreed` then has, per home, how far a
journal is at each place of the code (`Fits`) and what is known of the block: a
process that is about to replace it has read what the journal says, and without
a journal it is what the last operation left (`BlocksKnown`). What `csk init` has
seen, read again and writes comes in this order, so when its two readings agree,
no edit was between them (`InitFollows`). It gives `TypeOK` (a file never has two
blocks of one project), `BlockFollowsOutcome` and `ForeignBytesKept`.

Assumptions are only those of the constants: `N` is a positive natural number,
hooked targets are targets and adopting ones hooked, contents are contents, bounds are naturals, an
install plans at least once, a directory has at least one file, each thread has a
process, the first exclude files hold at most one block of each project, and the
names that stand for nobody, no commit, no package, no block, no file, no journal,
a torn or missing registry, the contents of a lock file or the collector name nothing else.

Every safety invariant and action property that a passing run checks is so a
theorem (`UserBytesKept` for up to two edits, the refinement for none, as in
their runs). Only model-checked, because liveness under fairness is out of the
provers' reach, are `RecoveryEnds` of the engine, `RecoveryCompletes` of `SharedExclude`,
`QuietInstallSucceeds` and `QuietUpgradeSucceeds`. `SnapshotCache`, whose only
property the code violates, has no theorem.

## 5. What is not modelled, and the plan

What the modelling met and keeps in the models, where code and text differ or a
reader may not expect it:

* a stale removal, a torn registry, a displaced one that a sweep takes for empty, a
  removal's backup that a sweep takes, a shared runtime entry that an upgrade
  removes, a lock that a recovery moves under a frozen install, edits that an
  exclude writer overwrites: the history variables above;
* `csk gc` does not recover. Between a crash and its recovery it may remove the
  backup of a runtime that the open journal needs, or rewrite a registry that the
  journal has placed. The rollback is refused then (`UndoRefused`), a committed
  journal is kept (`Clean`), and no later install gets past either;
* `gc.py` does not ask for dispatch pins, although the docstring of
  `referenced_skill_commits` (`dispatch.py:1758-1766`) says that those of stale
  records are "never collected"; only planning asks, so an active generation may
  serve a runtime that is gone;
* docs/mvp-design.md:289 says that cached snapshots "must be safe to delete at
  any time"; a published runtime whose snapshot is gone fails every install
  (`CapturePreimages`).

Not modelled:

* one staged tree and one cleanup tomb from inside (progress records, modes of
  directories, file by file): a tree is one content in every module;
* several journals in one home, which `recover` handles in order; every module
  has one at a time per home;
* empty directories that are made before a transaction and removed when it fails;
* the swap of a damaged tree inside the source store; launcher files and the
  pruning of dispatch generations;
* the inside of a build cache publication: every caller in the repository holds
  the home lock, so the branches for a racing publisher guard against other
  programs;
* the global install, whose protocol is that of `InstallHome` over another root;
* the closure, a sequential algorithm whose result `InstallHome` takes as given;
* the audit registry client, whose peer is outside this repository. Its file of
  highest snapshot versions is read and written without a lock, so two processes
  may overwrite each other's;
* the audit runner, MCP configuration, Git admission, the transport, the Go
  driver: they run other programs and validate data, and the installs see only
  that they refuse;
* parsers and validators of declarations, the command line, credentials,
  signatures, path canonicalisation, rendering: no state that interleaves.

What comes next: two journals in one home, where `recover` stops at the first that
is stuck; the registry's version file; a staged tree and a cleanup tomb from
inside, and the refinement of their one-step counterparts in the engine; the
swap of a damaged tree in the source store; the launchers of a dispatch
generation.
