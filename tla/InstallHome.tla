---------------------------- MODULE InstallHome ----------------------------
(***************************************************************************)
(* One csk home that the installs of several projects and the garbage      *)
(* collector share (src/csk/installer.py, gc.py, consumers.py,             *)
(* dispatch.py).                                                           *)
(*                                                                         *)
(* An install plans without the home lock and applies its plan under it.   *)
(* Between the two, other installs commit, the collector sweeps, a ref     *)
(* moves, a process dies.  Every project declares one skill; a commit of   *)
(* it stands for the snapshot, the runtime tree and the build made of it.  *)
(* A transaction applies its target classes in order and recovers as       *)
(* TransactionEngine does.  There each rename of a target is a step, here   *)
(* each rename of a class that leaves something for others to read.         *)
(***************************************************************************)
EXTENDS Integers, FiniteSets

CONSTANTS
  Projects,     \* checkouts that install
  Configured,   \* those listed in config.json; the rest only register
  Commits,      \* commits of the skill
  NoCommit, Nobody, Collector,
  Torn, Missing,    \* consumers.json truncated, consumers.json not there
  Attempts,     \* how often one install plans
  MaxInstalls, MaxSweeps, MaxCrashes,
  MaxTroubles   \* moved refs, deleted checkouts, failed steps

ASSUME ConfiguredAssumption == Configured \subseteq Projects
ASSUME NamesAssumption ==
  /\ NoCommit \notin Commits
  /\ {Nobody, Collector} \intersect Projects = {} /\ Nobody # Collector
  /\ \A ps \in SUBSET Projects : ps \notin {Torn, Missing}
  /\ Torn # Missing
ASSUME HomeBoundsAssumption ==
  /\ Attempts \in Nat \ {0}
  /\ {MaxInstalls, MaxSweeps, MaxCrashes, MaxTroubles} \subseteq Nat

VARIABLES
  source,     \* the commit each project's declared ref resolves to
  marker,     \* the commit in each project's .csk-install.json
  runtime,    \* runtime/<skill>/<commit>
  snapshots,  \* cache/<source>/<commit>/snapshot
  builds,     \* the build cache: "absent", "fresh" or past the grace: "old"
  registry,   \* consumers.json
  pins,       \* the commit the active dispatch generation serves per project
  journal,    \* the transaction on disk
  home,       \* who holds the manager home lock
  pc, attempt, plan, outcome,   \* one install process per project
  gc,         \* the collector
  spent,      \* how much of each bound is used
  torn,       \* history: a crash truncated consumers.json
  stale,      \* history: runtimes removed by a plan older than their marker
  overlooked  \* history: what a sweep took although a marker names it

store   == <<marker, runtime, snapshots, builds, registry>>
process == <<pc, attempt, plan, outcome>>
history == <<torn, stale, overlooked>>
vars    == <<source, marker, runtime, snapshots, builds, registry, pins,
             journal, home, pc, attempt, plan, outcome, gc, spent, torn, stale,
             overlooked>>

Classes == {"context", "runtime", "removal", "consumers"}
Present == {c \in Commits : builds[c] # "absent"}

NoPlan == [commit |-> NoCommit, marker |-> NoCommit, built |-> {},
           hit |-> FALSE, private |-> FALSE, unread |-> {}, refs |-> {},
           consumers |-> {}, sure |-> {}, removals |-> {}, gone |-> {},
           context |-> NoCommit, runtime |-> FALSE, registry |-> {}]
NoJournal == [owner |-> Nobody, old |-> NoCommit, new |-> NoCommit,
              removals |-> {}, sure |-> {}, before |-> {}, after |-> {},
              at |-> [class \in Classes |-> "none"], phase |-> "forward",
              lost |-> {}]
Asleep == [pc |-> "idle", refs |-> {}, alive |-> {}, blind |-> FALSE]

MarkersOf(ps) == {marker[p] : p \in ps} \ {NoCommit}

-----------------------------------------------------------------------------
(* What the readers of the shared state make of it. *)

\* load_consumers: damage reads as "no consumers", as an absent file does.
Load(file) == IF file \in {Torn, Missing} THEN {} ELSE file
LoadConsumers == Load(registry)

\* referenced_skill_commits
Pinned == {pins[p] : p \in Projects} \ {NoCommit}

\* _project_generation_probe, as far as other processes write it.
Generation(p) == <<marker[p], Present>>

\* Fault: the install registers only itself.
DesiredConsumersAlone(p) == {p}

\* _desired_consumers: whoever is registered and still has a marker, and me.
DesiredConsumers(p) ==
  {q \in LoadConsumers \ {p} : marker[q] # NoCommit} \union {p}

\* _collect_marker_root is uncertain about a store with a foreign directory,
\* and the sidecars of a context target lie beside their live path.
ContextSidecar ==
  \/ journal.at["context"] \in {"old", "out"}
  \/ journal.at["context"] = "new" /\ journal.old # NoCommit
RootUncertain(ps) == journal.owner \in ps /\ ContextSidecar

\* Fault: the collector marks only live markers.
NoJournalReferences == {}

\* _collect_journal_marker_group marks both generations of a context target.
JournalReferences ==
  IF journal.at["context"] = "none" THEN {}
  ELSE {journal.old, journal.new} \ {NoCommit}

-----------------------------------------------------------------------------
(* A home that earlier installs have left, with runtimes nobody collected.  *)

Init ==
  /\ source \in [Projects -> Commits]
  /\ marker \in [Projects -> Commits \union {NoCommit}]
  /\ \E left \in SUBSET Commits :
       runtime = left \union MarkersOf(Projects)
  /\ snapshots = runtime
  /\ builds = [c \in Commits |-> IF c \in runtime THEN "old" ELSE "absent"]
  /\ registry \in {{p \in Projects : marker[p] # NoCommit}}
                   \union (IF MarkersOf(Projects) = {} THEN {Missing} ELSE {})
  /\ pins = marker
  /\ journal = NoJournal /\ home = Nobody
  /\ pc = [p \in Projects |-> "idle"]
  /\ attempt = [p \in Projects |-> 0]
  /\ plan = [p \in Projects |-> NoPlan]
  /\ outcome = [p \in Projects |-> "none"]
  /\ gc = Asleep
  /\ spent = [install |-> 0, sweep |-> 0, crash |-> 0, trouble |-> 0]
  /\ torn = FALSE /\ stale = {} /\ overlooked = {}

Spend(what, bound) ==
  /\ spent[what] < bound
  /\ spent' = [spent EXCEPT ![what] = @ + 1]

Goto(p, step) == pc' = [pc EXCEPT ![p] = step]

\* The process leaves its install, with or without the home lock.
End(p, how) ==
  /\ Goto(p, "idle")
  /\ attempt' = [attempt EXCEPT ![p] = 0]
  /\ plan' = [plan EXCEPT ![p] = NoPlan]
  /\ outcome' = [outcome EXCEPT ![p] = how]
  /\ home' = IF home = p THEN Nobody ELSE home

\* Fault: one attempt too many.
RetryOnceMore(p) ==
  IF attempt[p] <= Attempts
  THEN /\ Goto(p, "again")
       /\ attempt' = [attempt EXCEPT ![p] = @ + 1]
       /\ plan' = [plan EXCEPT ![p] = NoPlan]
       /\ home' = IF home = p THEN Nobody ELSE home
       /\ UNCHANGED outcome
  ELSE End(p, "failed")

\* concurrent_state_change: the whole install starts again, a bounded number
\* of times.
Retry(p) ==
  IF attempt[p] < Attempts
  THEN /\ Goto(p, "again")
       /\ attempt' = [attempt EXCEPT ![p] = @ + 1]
       /\ plan' = [plan EXCEPT ![p] = NoPlan]
       /\ home' = IF home = p THEN Nobody ELSE home
       /\ UNCHANGED outcome
  ELSE End(p, "failed")

-----------------------------------------------------------------------------
(* _install_project and _install_project_once, without the home lock. *)

\* The generation is observed before anything it covers is read.
Observe(p) ==
  /\ plan' = [plan EXCEPT ![p] = [NoPlan EXCEPT !.marker = marker[p],
                                                !.built = Present]]
  /\ Goto(p, "resolve")

Start(p) ==
  /\ pc[p] = "idle" /\ Spend("install", MaxInstalls)
  /\ Observe(p)
  /\ attempt' = [attempt EXCEPT ![p] = 1]
  /\ outcome' = [outcome EXCEPT ![p] = "running"]
  /\ UNCHANGED <<source, store, pins, journal, home, gc, history>>

\* Fault: the generation was observed once, before the first attempt.
StartAgainStale(p) ==
  /\ pc[p] = "again" /\ Goto(p, "resolve")
  /\ UNCHANGED <<source, store, pins, journal, home, attempt, plan, outcome, gc,
                 spent, history>>

StartAgain(p) ==
  /\ pc[p] = "again" /\ Observe(p)
  /\ UNCHANGED <<source, store, pins, journal, home, attempt, outcome, gc,
                 spent, history>>

\* build_closure fetches the snapshot; plan_builds inspects the cache and
\* observes the generation again.
Resolve(p) ==
  /\ pc[p] = "resolve"
  /\ snapshots' = snapshots \union {source[p]}
  /\ IF Generation(p) = <<plan[p].marker, plan[p].built>>
     THEN /\ plan' = [plan EXCEPT ![p] = [@ EXCEPT
                 !.commit = source[p], !.hit = source[p] \in Present,
                 !.refs = {source[p]}, !.sure = Projects \ {p},
                 !.unread = Configured \ {p}]]
          /\ Goto(p, "configured") /\ UNCHANGED <<home, attempt, outcome>>
     ELSE Retry(p)
  /\ UNCHANGED <<source, marker, runtime, builds, registry, pins, journal, gc,
                 spent, history>>

\* _runtime_references_for_plan reads one marker after the other, of the
\* configured checkouts first; its own old marker is not among them.
ReadMarker(p) ==
  /\ pc[p] \in {"configured", "registered"}
  /\ \E q \in plan[p].unread :
       plan' = [plan EXCEPT ![p] = [@ EXCEPT
         !.unread = plan[p].unread \ {q},
         !.refs = plan[p].refs \union MarkersOf({q}),
         !.sure = plan[p].sure \union {q}]]
  /\ UNCHANGED <<source, store, pins, journal, home, pc, attempt, outcome, gc,
                 spent, history>>

\* Fault: only configured checkouts are asked, not the registered ones.
ReadConsumersIgnored(p) ==
  /\ pc[p] = "configured" /\ plan[p].unread = {}
  /\ plan' = [plan EXCEPT ![p].consumers = registry]
  /\ Goto(p, "registered")
  /\ UNCHANGED <<source, store, pins, journal, home, attempt, outcome, gc,
                 spent, history>>

ReadConsumers(p) ==
  /\ pc[p] = "configured" /\ plan[p].unread = {}
  /\ plan' = [plan EXCEPT ![p] = [@ EXCEPT
       !.consumers = registry,
       !.unread = LoadConsumers \ (Configured \union {p})]]
  /\ Goto(p, "registered")
  /\ UNCHANGED <<source, store, pins, journal, home, attempt, outcome, gc,
                 spent, history>>

ReadPins(p) ==
  /\ pc[p] = "registered" /\ plan[p].unread = {}
  /\ plan' = [plan EXCEPT ![p].refs = @ \union Pinned]
  /\ Goto(p, "list")
  /\ UNCHANGED <<source, store, pins, journal, home, attempt, outcome, gc,
                 spent, history>>

\* _materialization_targets lists the runtime trees nobody refers to.
ListRuntime(p) ==
  /\ pc[p] = "list"
  /\ plan' = [plan EXCEPT ![p] = [@ EXCEPT
       !.removals = runtime \ plan[p].refs, !.refs = {}]]
  /\ Goto(p, "preimages")
  /\ UNCHANGED <<source, store, pins, journal, home, attempt, outcome, gc,
                 spent, history>>

\* _capture_target_preimages refuses a runtime tree whose snapshot is gone.
\* History: a registry that has changed since it was read may list checkouts
\* whose markers nobody has read.
CapturePreimages(p) ==
  /\ pc[p] = "preimages"
  /\ IF runtime \subseteq snapshots
     THEN /\ plan' = [plan EXCEPT ![p] = [@ EXCEPT
                 !.removals = plan[p].removals \intersect runtime,
                 !.gone     = plan[p].removals \ runtime,
                 !.context  = marker[p],
                 !.runtime  = plan[p].commit \in runtime,
                 !.registry = registry, !.consumers = {},
                 !.sure = IF registry = plan[p].consumers THEN plan[p].sure
                          ELSE plan[p].sure \intersect
                            (Configured \union Load(plan[p].consumers))]]
          /\ Goto(p, IF plan[p].hit THEN "lock" ELSE "build")
          /\ UNCHANGED <<home, attempt, outcome>>
     ELSE End(p, "failed")
  /\ UNCHANGED <<source, store, pins, journal, gc, spent, history>>

\* _build_private_misses, under the build lock: built privately unless the
\* entry has appeared since.
BuildPrivate(p) ==
  /\ pc[p] = "build"
  /\ plan' = [plan EXCEPT ![p].private = plan[p].commit \notin Present]
  /\ Goto(p, "lock")
  /\ UNCHANGED <<source, store, pins, journal, home, attempt, outcome, gc,
                 spent, history>>

-----------------------------------------------------------------------------
(* The rest runs under the manager home lock. *)

\* LockError ends the install.
LockTimeout(p) ==
  /\ pc[p] = "lock" /\ home # Nobody
  /\ End(p, "failed")
  /\ UNCHANGED <<source, store, pins, journal, gc, spent, history>>

\* The engine takes the classes in order, and back in reverse order.
Earlier(class) ==
  CASE class = "context"   -> {}
    [] class = "runtime"   -> {"context"}
    [] class = "removal"   -> {"context", "runtime"}
    [] class = "consumers" -> {"context", "runtime", "removal"}
At(class, places) == journal.at[class] \in places

Turn(class) ==
  At(class, {"old", "out"}) /\ \A e \in Earlier(class) : At(e, {"none", "new"})
UndoTurn(class) ==
  /\ At(class, {"out", "new"})
  /\ \A l \in Classes : class \in Earlier(l) => At(l, {"none", "old"})

\* Every applied target shows what was desired.
Shown ==
  /\ At("context", {"new"}) => marker[journal.owner] = journal.new
  /\ At("runtime", {"new"}) => journal.new \in runtime
  /\ At("removal", {"new"}) => journal.removals \intersect runtime = {}
  /\ At("consumers", {"new"}) => registry = journal.after

\* A target that is not applied no longer is what the journal expects, or
\* its private directory is gone.
Changed(class) ==
  \/ class = "runtime" /\ "runtime" \in journal.lost
  \/ class = "removal" /\ At("removal", {"old"})
                       /\ ~(journal.removals \subseteq runtime)
  \/ class = "removal" /\ At("removal", {"out"}) /\ "removal" \in journal.lost
  \/ class = "consumers" /\ At("consumers", {"old"}) /\ registry # journal.before

\* An applied target changed, or what would undo it is gone.
Unrestorable(class) ==
  \/ class = "runtime" /\ journal.new \notin runtime
  \/ class = "removal" /\ At("removal", {"new"}) /\ "removal" \in journal.lost
  \/ class = "consumers" /\ At("consumers", {"new"}) /\ registry # journal.after

\* engine.recover finds nothing, replays a journal forward, rolls back one
\* whose applied target has changed, restores one that was rolling back, or
\* cleans up after one that had committed.
Recover(p) ==
  /\ pc[p] = "lock" /\ home = Nobody /\ home' = p
  /\ \/ journal = NoJournal /\ Goto(p, "revalidate") /\ UNCHANGED journal
     \/ /\ journal # NoJournal /\ journal.phase = "forward" /\ Shown
        /\ Goto(p, "replay") /\ UNCHANGED journal
     \/ /\ journal # NoJournal /\ journal.phase = "forward" /\ ~Shown
        /\ Goto(p, "undo") /\ journal' = [journal EXCEPT !.phase = "back"]
     \/ journal.phase = "back" /\ Goto(p, "restore") /\ UNCHANGED journal
     \/ journal.phase = "done" /\ Goto(p, "finish") /\ UNCHANGED journal
  /\ UNCHANGED <<source, store, pins, attempt, plan, outcome, gc, spent,
                 history>>

\* _assert_generation_current, _assert_target_preimages_current,
\* _revalidate_closure.
PlanCurrent(p) ==
  /\ Generation(p) = <<plan[p].marker, plan[p].built>>
  /\ plan[p].runtime = (plan[p].commit \in runtime)
  /\ plan[p].removals \subseteq runtime
  /\ plan[p].gone \intersect runtime = {}
  /\ plan[p].context = marker[p]
  /\ plan[p].registry = registry
  /\ plan[p].commit = source[p]

\* _publish_planned_builds inspects the entry again: a winner that is gone
\* and that this install has not built is a changed state.
Revalidate(p) ==
  /\ pc[p] = "revalidate"
  /\ IF PlanCurrent(p) /\ (plan[p].private \/ plan[p].commit \in Present)
     THEN /\ builds' = IF plan[p].commit \in Present THEN builds
                       ELSE [builds EXCEPT ![plan[p].commit] = "fresh"]
          /\ Goto(p, "prepare") /\ UNCHANGED <<home, attempt, plan, outcome>>
     ELSE Retry(p) /\ UNCHANGED builds
  /\ UNCHANGED <<source, marker, runtime, snapshots, registry, pins, journal,
                 gc, spent, history>>

\* Only targets that change are in the transaction.
Targets(p) ==
  {class \in Classes :
     \/ class = "context" /\ marker[p] # plan[p].commit
     \/ class = "runtime" /\ plan[p].commit \notin runtime
     \/ class = "removal" /\ plan[p].removals # {}
     \/ class = "consumers" /\ registry # DesiredConsumers(p)}

JournalOf(p) ==
  [NoJournal EXCEPT
     !.owner = p, !.old = marker[p], !.new = plan[p].commit,
     !.removals = plan[p].removals, !.sure = plan[p].sure,
     !.before = registry, !.after = DesiredConsumers(p),
     !.at = [class \in Classes |-> IF class \in Targets(p) THEN "old" ELSE "none"]]

\* Fault: an install that changes no target does not publish.
PrepareSkipsPublish(p) ==
  /\ pc[p] = "prepare"
  /\ IF plan[p].commit \in snapshots /\ Targets(p) # {}
     THEN /\ Goto(p, "apply") /\ journal' = JournalOf(p)
          /\ UNCHANGED <<home, attempt, plan, outcome>>
     ELSE /\ End(p, IF Targets(p) = {} THEN "ok" ELSE "failed")
          /\ UNCHANGED journal
  /\ UNCHANGED <<source, store, pins, gc, spent, history>>

\* _stage_materialization copies the snapshot, _commit_transaction_targets
\* writes the journal.
Prepare(p) ==
  /\ pc[p] = "prepare"
  /\ IF plan[p].commit \in snapshots
     THEN /\ UNCHANGED <<home, attempt, plan, outcome>>
          /\ IF Targets(p) = {}
             THEN Goto(p, "publish") /\ UNCHANGED journal
             ELSE Goto(p, "apply") /\ journal' = JournalOf(p)
     ELSE End(p, "failed") /\ UNCHANGED journal
  /\ UNCHANGED <<source, store, pins, gc, spent, history>>

-----------------------------------------------------------------------------
(* _commit_target, of this install's transaction or of a journal that it    *)
(* replays.                                                                *)

Forwarding(p) == pc[p] \in {"apply", "replay"}
Move(class, to) == journal' = [journal EXCEPT !.at[class] = to]

\* History: whoever has read the marker of q has to read it again.
MarkerMoves(q, to) ==
  /\ marker' = [marker EXCEPT ![q] = to]
  /\ plan' = [r \in Projects |-> [plan[r] EXCEPT !.sure = @ \ {q}]]

\* What is removed although a checkout's marker names it, which did not when
\* the removal was planned.
Overtaken(gone) ==
  {c \in gone : \E q \in Projects \ journal.sure : marker[q] = c}

DisplaceContext(p) ==
  /\ Forwarding(p) /\ Turn("context")
  /\ At("context", {"old"}) /\ journal.old # NoCommit
  /\ marker' = [marker EXCEPT ![journal.owner] = NoCommit]
  /\ Move("context", "out")
  /\ UNCHANGED <<source, runtime, snapshots, builds, registry, pins, home,
                 process, gc, spent, history>>

PlaceContext(p) ==
  /\ Forwarding(p) /\ Turn("context")
  /\ At("context", {"out"}) \/ journal.old = NoCommit
  /\ MarkerMoves(journal.owner, journal.new)
  /\ Move("context", "new")
  /\ UNCHANGED <<source, runtime, snapshots, builds, registry, pins, home,
                 pc, attempt, outcome, gc, spent, history>>

PlaceRuntime(p) ==
  /\ Forwarding(p) /\ Turn("runtime") /\ ~Changed("runtime")
  /\ runtime' = runtime \union {journal.new}
  /\ Move("runtime", "new")
  /\ UNCHANGED <<source, marker, snapshots, builds, registry, pins, home,
                 process, gc, spent, history>>

DisplaceRemovals(p) ==
  /\ Forwarding(p) /\ Turn("removal") /\ ~Changed("removal")
  /\ At("removal", {"old"})
  /\ runtime' = runtime \ journal.removals
  /\ stale' = stale \union Overtaken(journal.removals)
  /\ Move("removal", "out")
  /\ UNCHANGED <<source, marker, snapshots, builds, registry, pins, home,
                 process, gc, spent, torn, overlooked>>

SaveRemovals(p) ==
  /\ Forwarding(p) /\ Turn("removal") /\ ~Changed("removal")
  /\ At("removal", {"out"})
  /\ Move("removal", "new")
  /\ UNCHANGED <<source, store, pins, home, process, gc, spent, history>>

\* From here to the placing there is no consumers.json.
DisplaceConsumers(p) ==
  /\ Forwarding(p) /\ Turn("consumers") /\ ~Changed("consumers")
  /\ At("consumers", {"old"}) /\ registry # Missing
  /\ registry' = Missing
  /\ Move("consumers", "out")
  /\ UNCHANGED <<source, marker, runtime, snapshots, builds, pins, home,
                 process, gc, spent, history>>

PlaceConsumers(p) ==
  /\ Forwarding(p) /\ Turn("consumers") /\ ~Changed("consumers")
  /\ registry = Missing
  /\ registry' = journal.after
  /\ Move("consumers", "new")
  /\ UNCHANGED <<source, marker, runtime, snapshots, builds, pins, home,
                 process, gc, spent, history>>

StartUndo(p) ==
  journal' = [journal EXCEPT !.phase = "back"] /\ Goto(p, "undo")

\* A target is not what the journal expects: _commit_journal rolls back.
Stopped(p) ==
  /\ Forwarding(p) /\ \E class \in Classes : Turn(class) /\ Changed(class)
  /\ StartUndo(p)
  /\ UNCHANGED <<source, store, pins, home, attempt, plan, outcome, gc, spent,
                 history>>

\* A step raises.
CommitFails(p) ==
  /\ Forwarding(p) /\ Spend("trouble", MaxTroubles)
  /\ StartUndo(p)
  /\ UNCHANGED <<source, store, pins, home, attempt, plan, outcome, gc, history>>

Decide(p) ==
  /\ Forwarding(p) /\ \A class \in Classes : At(class, {"none", "new"})
  /\ journal' = [journal EXCEPT !.phase = "done"]
  /\ Goto(p, IF pc[p] = "apply" THEN "clean" ELSE "finish")
  /\ UNCHANGED <<source, store, pins, home, attempt, plan, outcome, gc, spent,
                 history>>

\* _cleanup_committed reads every target again before the journal goes.
Clean(p) ==
  /\ pc[p] \in {"clean", "finish"}
  /\ IF Shown
     THEN /\ journal' = NoJournal
          /\ Goto(p, IF pc[p] = "clean" THEN "publish" ELSE "revalidate")
          /\ UNCHANGED <<home, attempt, plan, outcome>>
     ELSE End(p, "failed") /\ UNCHANGED journal
  /\ UNCHANGED <<source, store, pins, gc, spent, history>>

-----------------------------------------------------------------------------
(* _rollback_target, after a failure or of a journal that was rolling back. *)

Backing(p) == pc[p] \in {"undo", "restore"}

WithdrawConsumers(p) ==
  /\ Backing(p) /\ UndoTurn("consumers") /\ ~Unrestorable("consumers")
  /\ At("consumers", {"new"})
  /\ registry' = Missing
  /\ Move("consumers", "out")
  /\ UNCHANGED <<source, marker, runtime, snapshots, builds, pins, home,
                 process, gc, spent, history>>

RestoreConsumers(p) ==
  /\ Backing(p) /\ UndoTurn("consumers") /\ At("consumers", {"out"})
  /\ registry' = journal.before
  /\ Move("consumers", "old")
  /\ UNCHANGED <<source, marker, runtime, snapshots, builds, pins, home,
                 process, gc, spent, history>>

\* A removal whose rename was not saved and whose backup is gone is taken
\* for one that never began.
RestoreRemovals(p) ==
  /\ Backing(p) /\ UndoTurn("removal") /\ ~Unrestorable("removal")
  /\ runtime' = IF "removal" \in journal.lost THEN runtime
                ELSE runtime \union journal.removals
  /\ Move("removal", "old")
  /\ UNCHANGED <<source, marker, snapshots, builds, registry, pins, home,
                 process, gc, spent, history>>

WithdrawRuntime(p) ==
  /\ Backing(p) /\ UndoTurn("runtime") /\ ~Unrestorable("runtime")
  /\ runtime' = runtime \ {journal.new}
  /\ Move("runtime", "old")
  /\ UNCHANGED <<source, marker, snapshots, builds, registry, pins, home,
                 process, gc, spent, history>>

WithdrawContext(p) ==
  /\ Backing(p) /\ UndoTurn("context") /\ At("context", {"new"})
  /\ marker' = [marker EXCEPT ![journal.owner] = NoCommit]
  /\ Move("context", "out")
  /\ UNCHANGED <<source, runtime, snapshots, builds, registry, pins, home,
                 process, gc, spent, history>>

RestoreContext(p) ==
  /\ Backing(p) /\ UndoTurn("context") /\ At("context", {"out"})
  /\ MarkerMoves(journal.owner, journal.old)
  /\ Move("context", "old")
  /\ UNCHANGED <<source, runtime, snapshots, builds, registry, pins, home,
                 pc, attempt, outcome, gc, spent, history>>

\* TransactionIncompleteError: the journal is kept and the install fails.
UndoRefused(p) ==
  /\ Backing(p)
  /\ \E class \in Classes : UndoTurn(class) /\ Unrestorable(class)
  /\ End(p, "failed")
  /\ UNCHANGED <<source, store, pins, journal, gc, spent, history>>

\* What made the commit or the replay fail is raised in the end; a journal
\* that was found rolling back leaves nothing to raise.
RolledBack(p) ==
  /\ Backing(p) /\ \A class \in Classes : At(class, {"none", "old"})
  /\ journal' = NoJournal
  /\ IF pc[p] = "undo" THEN End(p, "failed")
     ELSE Goto(p, "revalidate") /\ UNCHANGED <<home, attempt, plan, outcome>>
  /\ UNCHANGED <<source, store, pins, gc, spent, history>>

-----------------------------------------------------------------------------
\* dispatch.publish_project: one switch of the current generation.
PublishProject(p) ==
  /\ pc[p] = "publish"
  /\ pins' = [pins EXCEPT ![p] = plan[p].commit]
  /\ End(p, "ok")
  /\ UNCHANGED <<source, store, journal, gc, spent, history>>

\* DispatchPublishError: the transaction stays committed.
PublishRefused(p) ==
  /\ pc[p] = "publish" /\ Spend("trouble", MaxTroubles)
  /\ End(p, "failed")
  /\ UNCHANGED <<source, store, pins, journal, gc, history>>

-----------------------------------------------------------------------------
(* gc.collect_runtime: after an install, or csk gc, which recovers nothing.  *)

Collecting(step) == gc.pc = step /\ home = Collector
GcGoto(step) == gc' = [gc EXCEPT !.pc = step]

GcLock ==
  /\ gc.pc = "idle" /\ home = Nobody /\ Spend("sweep", MaxSweeps)
  /\ home' = Collector /\ GcGoto("mark")
  /\ UNCHANGED <<source, store, pins, journal, process, history>>

GcEnd == home' = Nobody /\ gc' = Asleep

\* The mark phase of _collect_locked; one doubt and nothing is collected.  An
\* absent registry is no doubt, whatever the open journal says of it.
GcMark ==
  LET known     == LoadConsumers
      alive     == {q \in known : marker[q] # NoCommit}
      uncertain == registry = Torn \/ RootUncertain(Configured \union known) IN
  /\ Collecting("mark")
  /\ IF uncertain
     THEN GcEnd
     ELSE /\ gc' = [pc |-> IF alive = known THEN "runtime" ELSE "truncate",
                    refs |-> MarkersOf(Configured \union known)
                               \union JournalReferences,
                    alive |-> alive,
                    blind |-> registry = Missing /\ At("consumers", {"out"})]
          /\ UNCHANGED home
  /\ UNCHANGED <<source, store, pins, journal, process, spent, history>>

\* replace_consumers opens the file for writing ...
GcTruncate ==
  /\ Collecting("truncate")
  /\ registry' = Torn /\ GcGoto("rewrite")
  /\ UNCHANGED <<source, marker, runtime, snapshots, builds, pins, journal,
                 home, process, spent, history>>

\* ... and then writes it.
GcRewrite ==
  /\ Collecting("rewrite")
  /\ registry' = gc.alive /\ GcGoto("runtime")
  /\ UNCHANGED <<source, marker, runtime, snapshots, builds, pins, journal,
                 home, process, spent, history>>

\* A private directory of the open journal beside a runtime tree is no
\* orphan by name and no commit by reference.
RuntimeSidecars ==
  {class \in {"runtime", "removal"} :
     journal.at[class] \in IF class = "runtime" THEN {"old"} ELSE {"out", "new"}}

\* History: what a sweep that read no registry takes from a marker, and the
\* removals whose backup a sweep takes before their rename was saved.
Missed(taken) == IF gc.blind THEN taken \intersect MarkersOf(Projects) ELSE {}
Dropped == IF At("removal", {"out"}) THEN journal.removals ELSE {}

\* _collect_runtime_entries: a tree without its snapshot is reported and kept.
Collectable == (runtime \ gc.refs) \intersect snapshots

GcRuntime ==
  /\ Collecting("runtime") /\ Collectable # {}
  /\ \E c \in Collectable :
       runtime' = runtime \ {c} /\ overlooked' = overlooked \union Missed({c})
  /\ UNCHANGED <<source, marker, snapshots, builds, registry, pins, journal,
                 home, process, gc, spent, torn, stale>>

\* Fault: snapshots go even though a runtime tree was kept.
GcSidecarsRegardless ==
  /\ Collecting("runtime")
  /\ journal' = [journal EXCEPT !.lost = @ \union RuntimeSidecars]
  /\ overlooked' = overlooked \union Dropped
  /\ GcGoto("snapshots")
  /\ UNCHANGED <<source, store, pins, home, process, spent, torn, stale>>

GcSidecars ==
  /\ Collecting("runtime") /\ Collectable = {}
  /\ journal' = [journal EXCEPT !.lost = @ \union RuntimeSidecars]
  /\ overlooked' = overlooked \union Dropped
  /\ GcGoto(IF runtime \subseteq gc.refs THEN "snapshots" ELSE "builds")
  /\ UNCHANGED <<source, store, pins, home, process, spent, torn, stale>>

GcSnapshots ==
  /\ Collecting("snapshots")
  /\ IF snapshots \subseteq gc.refs
     THEN GcGoto("builds") /\ UNCHANGED snapshots
     ELSE /\ \E c \in snapshots \ gc.refs : snapshots' = snapshots \ {c}
          /\ UNCHANGED gc
  /\ UNCHANGED <<source, marker, runtime, builds, registry, pins, journal,
                 home, process, spent, history>>

\* The build cache keeps what is referenced and what is younger than the grace.
GcBuilds ==
  /\ Collecting("builds")
  /\ LET aged == {c \in Commits \ gc.refs : builds[c] = "old"} IN
       /\ builds' = [c \in Commits |-> IF c \in aged THEN "absent" ELSE builds[c]]
       /\ overlooked' = overlooked \union Missed(aged)
  /\ GcEnd
  /\ UNCHANGED <<source, marker, runtime, snapshots, registry, pins, journal,
                 process, spent, torn, stale>>

-----------------------------------------------------------------------------
(* The environment. *)

\* A branch advances, a tag moves, or the manifest names another ref.
MoveRef(p) ==
  /\ Spend("trouble", MaxTroubles)
  /\ \E c \in Commits \ {source[p]} : source' = [source EXCEPT ![p] = c]
  /\ UNCHANGED <<store, pins, journal, home, process, gc, history>>

\* A user deletes a checkout that no install and no journal is about.
Vanish(p) ==
  /\ pc[p] = "idle" /\ journal.owner # p /\ marker[p] # NoCommit
  /\ Spend("trouble", MaxTroubles)
  /\ marker' = [marker EXCEPT ![p] = NoCommit]
  /\ outcome' = [outcome EXCEPT ![p] = "none"]
  /\ UNCHANGED <<source, runtime, snapshots, builds, registry, pins, journal,
                 home, pc, attempt, plan, gc, history>>

\* A dead process keeps no lock.  Before it has the lock it leaves no trace
\* but a snapshot, which a refused plan leaves too.
Crash(p) ==
  /\ home = p /\ Spend("crash", MaxCrashes)
  /\ End(p, "crashed")
  /\ UNCHANGED <<source, store, pins, journal, gc, history>>

CollectorCrash ==
  /\ home = Collector /\ Spend("crash", MaxCrashes)
  /\ GcEnd
  /\ torn' = (torn \/ registry = Torn)
  /\ UNCHANGED <<source, store, pins, journal, process, stale, overlooked>>

Plan(p) ==
  \/ StartAgain(p) \/ Resolve(p) \/ ReadMarker(p) \/ ReadConsumers(p)
  \/ ReadPins(p) \/ ListRuntime(p) \/ CapturePreimages(p) \/ BuildPrivate(p)

Commit(p) ==
  \/ DisplaceContext(p) \/ PlaceContext(p) \/ PlaceRuntime(p)
  \/ DisplaceRemovals(p) \/ SaveRemovals(p)
  \/ DisplaceConsumers(p) \/ PlaceConsumers(p)
  \/ Stopped(p) \/ Decide(p) \/ Clean(p)

Rollback(p) ==
  \/ WithdrawConsumers(p) \/ RestoreConsumers(p) \/ RestoreRemovals(p)
  \/ WithdrawRuntime(p) \/ WithdrawContext(p) \/ RestoreContext(p)
  \/ UndoRefused(p) \/ RolledBack(p)

Install(p) ==
  \/ Plan(p) \/ LockTimeout(p) \/ Recover(p) \/ Revalidate(p) \/ Prepare(p)
  \/ Commit(p) \/ Rollback(p) \/ PublishProject(p)

Collect ==
  \/ GcMark \/ GcTruncate \/ GcRewrite \/ GcRuntime \/ GcSidecars
  \/ GcSnapshots \/ GcBuilds

Next ==
  \/ \E p \in Projects :
       \/ Start(p) \/ Install(p) \/ CommitFails(p) \/ PublishRefused(p)
       \/ MoveRef(p) \/ Vanish(p) \/ Crash(p)
  \/ GcLock \/ Collect \/ CollectorCrash

Spec == Init /\ [][Next]_vars
Fairness == WF_vars(Collect) /\ \A p \in Projects : WF_vars(Install(p))
FairSpec == Spec /\ Fairness

-----------------------------------------------------------------------------
MaybeCommit == Commits \union {NoCommit}
Registries  == {Torn, Missing} \union SUBSET Projects

PlanType ==
  [commit: MaybeCommit, marker: MaybeCommit, built: SUBSET Commits,
   hit: BOOLEAN, private: BOOLEAN, unread: SUBSET Projects,
   refs: SUBSET Commits, consumers: Registries, sure: SUBSET Projects,
   removals: SUBSET Commits, gone: SUBSET Commits, context: MaybeCommit,
   runtime: BOOLEAN, registry: Registries]

JournalType ==
  [owner: Projects \union {Nobody}, old: MaybeCommit, new: MaybeCommit,
   removals: SUBSET Commits, sure: SUBSET Projects, before: Registries,
   after: SUBSET Projects, at: [Classes -> {"none", "old", "out", "new"}],
   phase: {"forward", "back", "done"}, lost: SUBSET Classes]

CollectorType ==
  [pc: {"idle", "mark", "truncate", "rewrite", "runtime", "snapshots", "builds"},
   refs: SUBSET Commits, alive: SUBSET Projects, blind: BOOLEAN]

Steps == {"idle", "again", "resolve", "configured", "registered", "list",
          "preimages", "build", "lock", "revalidate", "prepare", "apply",
          "replay", "clean", "finish", "undo", "restore", "publish"}
Outcomes == {"none", "running", "ok", "failed", "crashed"}

StoreTyped ==
  /\ source \in [Projects -> Commits]
  /\ marker \in [Projects -> MaybeCommit]
  /\ runtime \subseteq Commits /\ snapshots \subseteq Commits
  /\ builds \in [Commits -> {"absent", "fresh", "old"}]
  /\ registry \in Registries
  /\ pins \in [Projects -> MaybeCommit]

ProcessesTyped ==
  /\ home \in Projects \union {Nobody, Collector}
  /\ pc \in [Projects -> Steps]
  /\ attempt \in [Projects -> 0..Attempts]
  /\ plan \in [Projects -> PlanType]
  /\ outcome \in [Projects -> Outcomes]

\* Every variable has its type; an install plans at most Attempts times.
TypeOK ==
  /\ StoreTyped /\ ProcessesTyped
  /\ journal \in JournalType /\ gc \in CollectorType
  /\ torn \in BOOLEAN /\ stale \subseteq Commits /\ overlooked \subseteq Commits

\* Nobody but the transaction of its own project takes away the runtime a
\* marker names, unless a crash of the collector has truncated the registry,
\* a sweep fell between the two renames of an open transaction's target, or
\* an install applied a removal it had planned before the marker existed.
RuntimeKept ==
  \A p \in Projects :
    marker[p] \in Commits \ runtime =>
      \/ marker[p] \in stale \union overlooked
      \/ torn /\ p \notin Configured
      \/ journal.owner = p /\ At("runtime", {"old"})

\* A build that a committed marker names is in the cache, whatever the
\* collector swept between its inspection and the commit, unless a crash has
\* hidden the registry from the collector.
BuildsKept ==
  \A p \in Projects :
    marker[p] \in Commits \ Present =>
      marker[p] \in overlooked \/ (torn /\ p \notin Configured)

\* A published runtime tree keeps the snapshot that its validation needs.
RuntimeHasSnapshot == runtime \subseteq snapshots

\* Every checkout with a marker is one the collector looks at, but for the
\* two renames between which an open transaction has the registry aside.
ConsumersCoverMarkers ==
  \A p \in Projects \ Configured :
    marker[p] # NoCommit =>
      \/ registry = Torn \/ p \in LoadConsumers \/ journal.owner = p \/ torn
      \/ At("consumers", {"out"}) /\ p \in Load(journal.before)

\* A sweep takes no runtime tree that the marker of a checkout names,
\* registered checkouts included, whatever an install that died left behind.
CollectorKeepsNamed ==
  [][home = Collector =>
       \A p \in Projects : marker[p] \in runtime => marker[p] \in runtime']_vars

\* After a successful install the dispatcher serves what the marker names.
DispatchFollowsInstall ==
  \A p \in Projects :
    outcome[p] = "ok" => pins[p] = marker[p]

\* Recovery ends without an error: a replay finds every target as expected, a
\* rollback everything that undoes.
Recoverable ==
  CASE journal.phase = "forward" ->
         /\ Shown
         /\ \A class \in Classes : At(class, {"old", "out"}) => ~Changed(class)
    [] journal.phase = "back" ->
         \A class \in Classes : At(class, {"out", "new"}) => ~Unrestorable(class)
    [] journal.phase = "done" -> Shown

\* Nothing can disturb p any more: every bound is used up, nobody else runs,
\* and no transaction waits whose recovery raises, or that leaves no attempt
\* for the state recovery has changed.
Quiet(p) ==
  /\ spent = [install |-> MaxInstalls, sweep |-> MaxSweeps,
              crash |-> MaxCrashes, trouble |-> MaxTroubles]
  /\ home = Nobody /\ gc = Asleep /\ \A q \in Projects \ {p} : pc[q] = "idle"
  /\ journal # NoJournal => Recoverable /\ attempt[p] < Attempts

\* An attempt that starts when nothing disturbs it succeeds, whatever the
\* installs, sweeps and crashes before it have left in the home.
QuietInstallSucceeds ==
  \A p \in Projects :
    Quiet(p) /\ pc[p] = "again" ~> outcome[p] = "ok"

=============================================================================
