------------------------- MODULE InstallHomeProofs -------------------------
(***************************************************************************)
(* For any number of checkouts, commits and attempts: the typing of one    *)
(* csk home, mutual exclusion under its lock, that every published runtime *)
(* tree keeps the cached snapshot its validation needs, and that whatever  *)
(* a marker names stays there: its runtime tree, its build, its entry in   *)
(* the registry and, after a success, its dispatch pin.                    *)
(***************************************************************************)
EXTENDS InstallHome, TLAPS

\* Whoever is past the lock holds it, and only the collector collects.
Locked == {"revalidate", "prepare", "apply", "replay", "clean", "finish", "undo",
           "restore", "publish"}
HomeHeld ==
  /\ \A p \in Projects : pc[p] \in Locked => home = p
  /\ gc.pc # "idle" => home = Collector

\* What an open journal may still put into the runtime store has its
\* snapshot, unless the collector has taken the bytes to put there; a new
\* tree is put there by one rename.
JournalHasSnapshot ==
  /\ ~At("runtime", {"out"})
  /\ At("runtime", {"old"}) /\ "runtime" \notin journal.lost =>
       journal.new \in snapshots
  /\ At("removal", {"out", "new"}) /\ "removal" \notin journal.lost =>
       journal.removals \subseteq snapshots

\* Once the collector takes snapshots, neither the store nor the journal has
\* a runtime tree that it does not know.
SweepKnowsRuntime ==
  gc.pc = "snapshots" =>
    /\ runtime \subseteq gc.refs
    /\ At("runtime", {"old"}) => "runtime" \in journal.lost
    /\ At("removal", {"out", "new"}) => "removal" \in journal.lost

\* What the store and the open journal owe to the snapshot cache.
SnapshotsKept ==
  RuntimeHasSnapshot /\ JournalHasSnapshot /\ SweepKnowsRuntime

RuntimeInvariant == TypeOK /\ HomeHeld /\ SnapshotsKept

-----------------------------------------------------------------------------
(* What the steps of a kind have in common.                                 *)

\* Steps that leave alone what the installs and the collector share.
Planning(p) ==
  \/ Start(p) \/ Plan(p) \/ LockTimeout(p) \/ PublishProject(p)
  \/ PublishRefused(p) \/ UndoRefused(p) \/ MoveRef(p) \/ Crash(p)

\* Steps that move a class of the open journal, turn it round, or close it.
Moving(p) ==
  \/ DisplaceContext(p) \/ PlaceContext(p) \/ PlaceRuntime(p)
  \/ DisplaceRemovals(p) \/ SaveRemovals(p)
  \/ DisplaceConsumers(p) \/ PlaceConsumers(p)
  \/ WithdrawConsumers(p) \/ RestoreConsumers(p) \/ RestoreRemovals(p)
  \/ WithdrawRuntime(p) \/ WithdrawContext(p) \/ RestoreContext(p)
Turning(p) == Recover(p) \/ Stopped(p) \/ CommitFails(p) \/ Decide(p)
Closing(p) == Clean(p) \/ RolledBack(p)
Sweeping == GcLock \/ Collect \/ CollectorCrash

LEMMA NextCases ==
  ASSUME [Next]_vars
  PROVE  \/ UNCHANGED vars
         \/ \E p \in Projects :
              \/ Planning(p) \/ Moving(p) \/ Turning(p) \/ Closing(p)
              \/ Revalidate(p) \/ Prepare(p) \/ Vanish(p)
         \/ Sweeping
BY DEF Next, Install, Commit, Rollback, Planning, Moving, Turning, Closing, Sweeping

\* A process that ends its install, or tries it again, stays well-typed.
LEMMA EndTyped ==
  ASSUME ProcessesTyped, NEW p \in Projects, NEW how \in Outcomes, End(p, how)
  PROVE  ProcessesTyped'
<1>1. NoPlan \in PlanType
  BY DEF NoPlan, PlanType, MaybeCommit, Registries
<1> QED
  BY <1>1, HomeBoundsAssumption DEF ProcessesTyped, End, Goto, Steps

LEMMA RetryTyped ==
  ASSUME ProcessesTyped, NEW p \in Projects, Retry(p)
  PROVE  ProcessesTyped'
<1>1. NoPlan \in PlanType
  BY DEF NoPlan, PlanType, MaybeCommit, Registries
<1>2. CASE attempt[p] < Attempts
  BY <1>1, <1>2, HomeBoundsAssumption DEF ProcessesTyped, Retry, Goto, Steps
<1>3. CASE ~(attempt[p] < Attempts)
  BY <1>3, EndTyped DEF Retry, Outcomes
<1> QED
  BY <1>2, <1>3

\* So does one that goes on with another plan.
LEMMA PlanTyped ==
  ASSUME ProcessesTyped, NEW p \in Projects, NEW step \in Steps, Goto(p, step),
         attempt' \in [Projects -> 0..Attempts],
         outcome' \in [Projects -> Outcomes],
         home' \in Projects \union {Nobody, Collector},
         NEW new \in PlanType, plan' = [plan EXCEPT ![p] = new]
  PROVE  ProcessesTyped'
BY DEF ProcessesTyped, Goto

\* What the readers of the shared state return.
LEMMA ReadersTyped ==
  ASSUME TypeOK
  PROVE  /\ \A file \in Registries : Load(file) \in SUBSET Projects
         /\ LoadConsumers \in SUBSET Projects
         /\ \A ps \in SUBSET Projects : MarkersOf(ps) \in SUBSET Commits
         /\ Pinned \in SUBSET Commits
<1>1. \A file \in Registries : Load(file) \in SUBSET Projects
  BY DEF Load, Registries
<1> QED
  BY <1>1 DEF TypeOK, StoreTyped, LoadConsumers, MarkersOf, Pinned, MaybeCommit

\* What the planning steps write is a plan.
LEMMA PlansTyped ==
  ASSUME TypeOK, NEW p \in Projects
  PROVE  /\ [NoPlan EXCEPT !.marker = marker[p], !.built = Present] \in PlanType
         /\ [plan[p] EXCEPT
               !.commit = source[p], !.hit = source[p] \in Present,
               !.refs = {source[p]}, !.sure = Projects \ {p},
               !.unread = Configured \ {p}] \in PlanType
         /\ \A q \in plan[p].unread :
              [plan[p] EXCEPT
                 !.unread = plan[p].unread \ {q}, !.refs = plan[p].refs \union MarkersOf({q}),
                 !.sure = plan[p].sure \union {q}] \in PlanType
         /\ [plan[p] EXCEPT
               !.consumers = registry,
               !.unread = LoadConsumers \ (Configured \union {p})] \in PlanType
         /\ [plan[p] EXCEPT !.refs = @ \union Pinned] \in PlanType
         /\ [plan[p] EXCEPT !.removals = runtime \ plan[p].refs, !.refs = {}]
              \in PlanType
         /\ [plan[p] EXCEPT
               !.removals = plan[p].removals \intersect runtime, !.gone = plan[p].removals \ runtime,
               !.context  = marker[p], !.runtime  = plan[p].commit \in runtime,
               !.registry = registry, !.consumers = {},
               !.sure = IF registry = plan[p].consumers THEN plan[p].sure
                        ELSE plan[p].sure \intersect
                          (Configured \union Load(plan[p].consumers))] \in PlanType
         /\ [plan[p] EXCEPT !.private = plan[p].commit \notin Present] \in PlanType
<1>1. /\ plan[p] \in PlanType /\ marker[p] \in MaybeCommit /\ source[p] \in Commits
      /\ registry \in Registries /\ runtime \subseteq Commits
  BY DEF TypeOK, StoreTyped, ProcessesTyped
<1>2. /\ plan[p].refs \subseteq Commits /\ plan[p].removals \subseteq Commits
      /\ plan[p].unread \subseteq Projects /\ plan[p].sure \subseteq Projects
  BY <1>1 DEF PlanType
<1>3. [NoPlan EXCEPT !.marker = marker[p], !.built = Present] \in PlanType
  BY <1>1 DEF Present, NoPlan, PlanType, MaybeCommit, Registries
<1>4. [plan[p] EXCEPT !.commit = source[p], !.hit = source[p] \in Present,
                      !.refs = {source[p]}, !.sure = Projects \ {p},
                      !.unread = Configured \ {p}] \in PlanType
  <2>1. ASSUME NEW old \in PlanType, NEW c \in MaybeCommit, NEW b \in BOOLEAN,
               NEW refs \in SUBSET Commits, NEW sure \in SUBSET Projects,
               NEW unread \in SUBSET Projects
        PROVE  [old EXCEPT !.commit = c, !.hit = b, !.refs = refs, !.sure = sure,
                           !.unread = unread] \in PlanType
    BY DEF PlanType
  <2>2. /\ source[p] \in MaybeCommit /\ (source[p] \in Present) \in BOOLEAN
        /\ {source[p]} \in SUBSET Commits /\ Projects \ {p} \in SUBSET Projects
        /\ Configured \ {p} \in SUBSET Projects
    BY <1>1, ConfiguredAssumption DEF MaybeCommit
  <2> QED
    BY <1>1, <2>1, <2>2, Zenon
<1>5. ASSUME NEW q \in plan[p].unread
      PROVE  [plan[p] EXCEPT !.unread = plan[p].unread \ {q}, !.refs = plan[p].refs \union MarkersOf({q}),
                             !.sure = plan[p].sure \union {q}] \in PlanType
  <2>1. MarkersOf({q}) \subseteq Commits
    BY <1>2, ReadersTyped
  <2> QED
    BY <1>1, <1>2, <2>1 DEF PlanType
<1>6. [plan[p] EXCEPT !.consumers = registry,
                      !.unread = LoadConsumers \ (Configured \union {p})] \in PlanType
  <2>1. LoadConsumers \subseteq Projects
    BY ReadersTyped
  <2> QED
    BY <1>1, <2>1 DEF PlanType
<1>7. [plan[p] EXCEPT !.refs = @ \union Pinned] \in PlanType
  <2>1. Pinned \subseteq Commits
    BY ReadersTyped
  <2> QED
    BY <1>1, <1>2, <2>1 DEF PlanType
<1>8. [plan[p] EXCEPT !.removals = runtime \ plan[p].refs, !.refs = {}] \in PlanType
  BY <1>1 DEF PlanType
<1>9. ASSUME NEW old \in PlanType, NEW here \in SUBSET Commits,
             NEW gone \in SUBSET Commits, NEW m \in MaybeCommit, NEW b \in BOOLEAN,
             NEW r \in Registries, NEW sure \in SUBSET Projects
      PROVE  [old EXCEPT !.removals = here, !.gone = gone, !.context = m,
                         !.runtime = b, !.registry = r, !.consumers = {},
                         !.sure = sure] \in PlanType
  BY DEF PlanType, Registries
<1>10. /\ plan[p].removals \intersect runtime \in SUBSET Commits
       /\ plan[p].removals \ runtime \in SUBSET Commits
       /\ (plan[p].commit \in runtime) \in BOOLEAN
       /\ (IF registry = plan[p].consumers THEN plan[p].sure
           ELSE plan[p].sure \intersect
                  (Configured \union Load(plan[p].consumers))) \in SUBSET Projects
  BY <1>1, <1>2
<1>11. [plan[p] EXCEPT !.removals = plan[p].removals \intersect runtime,
                       !.gone     = plan[p].removals \ runtime,
                       !.context  = marker[p],
                       !.runtime  = plan[p].commit \in runtime,
                       !.registry = registry, !.consumers = {},
                       !.sure = IF registry = plan[p].consumers THEN plan[p].sure
                                ELSE plan[p].sure \intersect
                                  (Configured \union Load(plan[p].consumers))]
         \in PlanType
  BY <1>1, <1>9, <1>10, Zenon
<1>12. ASSUME NEW old \in PlanType, NEW b \in BOOLEAN
       PROVE  [old EXCEPT !.private = b] \in PlanType
  BY DEF PlanType
<1>13. [plan[p] EXCEPT !.private = plan[p].commit \notin Present] \in PlanType
  BY <1>1, <1>12, Zenon
<1> QED
  BY <1>3, <1>4, <1>5, <1>6, <1>7, <1>8, <1>11, <1>13

\* A marker that moves takes its checkout out of what the plans have read.
LEMMA MarkerMovesTyped ==
  ASSUME TypeOK, NEW q, NEW to \in MaybeCommit, MarkerMoves(q, to)
  PROVE  /\ marker' = [marker EXCEPT ![q] = to]
         /\ marker' \in [Projects -> MaybeCommit]
         /\ plan' \in [Projects -> PlanType]
         /\ \A r \in Projects :
              /\ plan'[r].sure = plan[r].sure \ {q}
              /\ plan'[r].commit = plan[r].commit
              /\ plan'[r].refs = plan[r].refs /\ plan'[r].unread = plan[r].unread
              /\ plan'[r].consumers = plan[r].consumers
              /\ plan'[r].removals = plan[r].removals
              /\ plan'[r].registry = plan[r].registry
<1>1. marker \in [Projects -> MaybeCommit] /\ plan \in [Projects -> PlanType]
  BY DEF TypeOK, StoreTyped, ProcessesTyped
<1>2. ASSUME NEW r \in Projects
      PROVE  /\ plan'[r] \in PlanType
             /\ plan'[r].sure = plan[r].sure \ {q}
             /\ plan'[r].commit = plan[r].commit
             /\ plan'[r].refs = plan[r].refs /\ plan'[r].unread = plan[r].unread
             /\ plan'[r].consumers = plan[r].consumers
             /\ plan'[r].removals = plan[r].removals
             /\ plan'[r].registry = plan[r].registry
  <2>1. plan'[r] = [plan[r] EXCEPT !.sure = @ \ {q}]
    BY DEF MarkerMoves
  <2>2. plan[r] \in PlanType
    BY <1>1
  <2> QED
    BY <2>1, <2>2 DEF PlanType
<1>3. plan' \in [Projects -> PlanType]
  <2>1. plan' = [r \in Projects |-> plan'[r]]
    BY DEF MarkerMoves
  <2> QED
    BY <1>2, <2>1
<1> QED
  BY <1>1, <1>2, <1>3 DEF MarkerMoves

\* The journal of a class that has moved, of a turn and of a sweep.
SameJournal ==
  /\ journal'.owner = journal.owner /\ journal'.old = journal.old
  /\ journal'.new = journal.new /\ journal'.removals = journal.removals
  /\ journal'.sure = journal.sure /\ journal'.before = journal.before
  /\ journal'.after = journal.after

LEMMA MoveKeeps ==
  ASSUME journal \in JournalType, NEW class \in Classes,
         NEW to \in {"none", "old", "out", "new"}, Move(class, to)
  PROVE  /\ journal' \in JournalType /\ SameJournal
         /\ journal'.phase = journal.phase /\ journal'.lost = journal.lost
         /\ journal'.at = [journal.at EXCEPT ![class] = to]
         /\ journal'.at[class] = to
         /\ \A c \in Classes \ {class} : journal'.at[c] = journal.at[c]
<1>1. journal.at \in [Classes -> {"none", "old", "out", "new"}]
  BY DEF JournalType
<1>2. journal' = [journal EXCEPT !.at = [journal.at EXCEPT ![class] = to]]
  BY DEF Move
<1>3. [journal.at EXCEPT ![class] = to] \in [Classes -> {"none", "old", "out", "new"}]
  BY <1>1
<1> HIDE DEF Classes
<1>4. journal' \in JournalType /\ SameJournal
      /\ journal'.phase = journal.phase /\ journal'.lost = journal.lost
      /\ journal'.at = [journal.at EXCEPT ![class] = to]
  BY <1>2, <1>3 DEF JournalType, SameJournal
<1> QED
  BY <1>1, <1>4

LEMMA PhaseKeeps ==
  ASSUME journal \in JournalType, NEW phase \in {"forward", "back", "done"},
         journal' = [journal EXCEPT !.phase = phase]
  PROVE  /\ journal' \in JournalType /\ SameJournal
         /\ journal'.phase = phase /\ journal'.lost = journal.lost
         /\ journal'.at = journal.at
BY DEF JournalType, SameJournal

LEMMA LosesKeeps ==
  ASSUME journal \in JournalType, GcSidecars
  PROVE  /\ journal' \in JournalType /\ SameJournal
         /\ journal'.phase = journal.phase /\ journal'.at = journal.at
         /\ journal'.lost = journal.lost \union RuntimeSidecars
BY DEF GcSidecars, JournalType, SameJournal, RuntimeSidecars, Classes

LEMMA JournalClosed ==
  /\ NoJournal.owner = Nobody /\ NoJournal.old = NoCommit /\ NoJournal.new = NoCommit
  /\ NoJournal.removals = {} /\ NoJournal.sure = {} /\ NoJournal.before = {}
  /\ NoJournal.after = {} /\ NoJournal.lost = {} /\ NoJournal.phase = "forward"
  /\ \A class \in Classes : NoJournal.at[class] = "none"
  /\ NoJournal \in JournalType
BY DEF NoJournal, JournalType, MaybeCommit, Registries

\* The journal an install writes.
LEMMA JournalOpened ==
  ASSUME NEW p \in Projects
  PROVE  /\ JournalOf(p).owner = p /\ JournalOf(p).old = marker[p]
         /\ JournalOf(p).new = plan[p].commit
         /\ JournalOf(p).removals = plan[p].removals
         /\ JournalOf(p).sure = plan[p].sure
         /\ JournalOf(p).before = registry
         /\ JournalOf(p).after = DesiredConsumers(p)
         /\ JournalOf(p).phase = "forward" /\ JournalOf(p).lost = {}
         /\ \A class \in Classes :
              JournalOf(p).at[class] = IF class \in Targets(p) THEN "old" ELSE "none"
BY DEF JournalOf, NoJournal

LEMMA ClassTargeted ==
  ASSUME NEW p \in Projects
  PROVE  /\ "context" \in Targets(p) <=> marker[p] # plan[p].commit
         /\ "runtime" \in Targets(p) <=> plan[p].commit \notin runtime
         /\ "removal" \in Targets(p) <=> plan[p].removals # {}
         /\ "consumers" \in Targets(p) <=> registry # DesiredConsumers(p)
BY DEF Targets, Classes

\* One step keeps every variable in its type.
LEMMA TypeStep ==
  ASSUME TypeOK, HomeHeld, JournalHasSnapshot, [Next]_vars
  PROVE  TypeOK'
<1>t. /\ StoreTyped /\ ProcessesTyped /\ journal \in JournalType
      /\ gc \in CollectorType /\ torn \in BOOLEAN
      /\ stale \subseteq Commits /\ overlooked \subseteq Commits
  BY DEF TypeOK
<1>0. CASE UNCHANGED vars
  BY <1>t, <1>0 DEF vars, store, process, history, TypeOK, StoreTyped, ProcessesTyped
<1>1. ASSUME NEW p \in Projects, Planning(p) PROVE TypeOK'
  <2>1. UNCHANGED <<marker, runtime, builds, registry, journal, gc, history>>
    BY <1>1
    DEF Planning, Start, Plan, LockTimeout, PublishProject, PublishRefused,
        UndoRefused, MoveRef, Crash, StartAgain, Resolve, ReadMarker, ReadConsumers,
        ReadPins, ListRuntime, CapturePreimages, BuildPrivate, store, history
  <2>2. StoreTyped'
    <3>1. /\ source' \in [Projects -> Commits] /\ snapshots' \subseteq Commits
          /\ pins' \in [Projects -> MaybeCommit]
      BY <1>t, <1>1
      DEF Planning, Start, Plan, LockTimeout, PublishProject, PublishRefused,
          UndoRefused, MoveRef, Crash, StartAgain, Resolve, ReadMarker, ReadConsumers,
          ReadPins, ListRuntime, CapturePreimages, BuildPrivate, store,
          StoreTyped, ProcessesTyped, PlanType
    <3> QED
      BY <1>t, <2>1, <3>1 DEF StoreTyped
  <2>3. ProcessesTyped'
    <3>1. CASE Start(p)
      <4>1. /\ attempt' \in [Projects -> 0..Attempts]
            /\ outcome' \in [Projects -> Outcomes]
            /\ home' \in Projects \union {Nobody, Collector}
        BY <1>t, <3>1, HomeBoundsAssumption DEF Start, ProcessesTyped, Outcomes
      <4> QED
        BY <1>t, <3>1, <4>1, PlansTyped, PlanTyped DEF Start, Observe, Steps
    <3>2. CASE StartAgain(p)
      BY <1>t, <3>2, PlansTyped, PlanTyped DEF StartAgain, Observe, ProcessesTyped, Steps
    <3>3. CASE Resolve(p)
      <4>1. CASE Generation(p) = <<plan[p].marker, plan[p].built>>
        BY <1>t, <3>3, <4>1, PlansTyped, PlanTyped DEF Resolve, ProcessesTyped, Steps
      <4>2. CASE ~(Generation(p) = <<plan[p].marker, plan[p].built>>)
        BY <1>t, <3>3, <4>2, RetryTyped DEF Resolve
      <4> QED
        BY <4>1, <4>2
    <3>4. CASE ReadMarker(p)
      <4>1. PICK q \in plan[p].unread :
              plan' = [plan EXCEPT ![p] = [plan[p] EXCEPT
                !.unread = plan[p].unread \ {q},
                !.refs = plan[p].refs \union MarkersOf({q}),
                !.sure = plan[p].sure \union {q}]]
        BY <3>4, Zenon DEF ReadMarker
      <4> DEFINE new == [plan[p] EXCEPT !.unread = plan[p].unread \ {q},
                                        !.refs = plan[p].refs \union MarkersOf({q}),
                                        !.sure = plan[p].sure \union {q}]
      <4>2. new \in PlanType /\ plan' = [plan EXCEPT ![p] = new]
        BY <4>1, PlansTyped, Zenon
      <4> HIDE DEF new
      <4>3. plan' \in [Projects -> PlanType]
        BY <1>t, <4>2 DEF ProcessesTyped
      <4>4. UNCHANGED <<home, pc, attempt, outcome>>
        BY <3>4 DEF ReadMarker
      <4> QED
        BY <1>t, <4>3, <4>4 DEF ProcessesTyped
    <3>5. CASE ReadConsumers(p)
      BY <1>t, <3>5, PlansTyped, PlanTyped DEF ReadConsumers, ProcessesTyped, Steps
    <3>6. CASE ReadPins(p)
      BY <1>t, <3>6, PlansTyped, PlanTyped DEF ReadPins, ProcessesTyped, Steps
    <3>7. CASE ListRuntime(p)
      BY <1>t, <3>7, PlansTyped, PlanTyped DEF ListRuntime, ProcessesTyped, Steps
    <3>8. CASE CapturePreimages(p)
      <4>1. CASE runtime \subseteq snapshots
        <5>1. (IF plan[p].hit THEN "lock" ELSE "build") \in Steps
          BY DEF Steps
        <5> DEFINE new == [plan[p] EXCEPT
               !.removals = plan[p].removals \intersect runtime,
               !.gone     = plan[p].removals \ runtime,
               !.context  = marker[p], !.runtime  = plan[p].commit \in runtime,
               !.registry = registry, !.consumers = {},
               !.sure = IF registry = plan[p].consumers THEN plan[p].sure
                        ELSE plan[p].sure \intersect
                          (Configured \union Load(plan[p].consumers))]
        <5>2. new \in PlanType
          BY PlansTyped
        <5>3. /\ plan' = [plan EXCEPT ![p] = new]
              /\ Goto(p, IF plan[p].hit THEN "lock" ELSE "build")
              /\ UNCHANGED <<home, attempt, outcome>>
          BY <3>8, <4>1 DEF CapturePreimages
        <5> HIDE DEF new
        <5> QED
          BY <1>t, <5>1, <5>2, <5>3 DEF ProcessesTyped, Goto
      <4>2. CASE ~(runtime \subseteq snapshots)
        BY <1>t, <3>8, <4>2, EndTyped DEF CapturePreimages, Outcomes
      <4> QED
        BY <4>1, <4>2
    <3>9. CASE BuildPrivate(p)
      BY <1>t, <3>9, PlansTyped, PlanTyped DEF BuildPrivate, ProcessesTyped, Steps
    <3>10. CASE \/ LockTimeout(p) \/ PublishProject(p) \/ PublishRefused(p)
                \/ UndoRefused(p) \/ Crash(p)
      <4>1. PICK how \in Outcomes : End(p, how)
        BY <3>10
        DEF LockTimeout, PublishProject, PublishRefused, UndoRefused, Crash, Outcomes
      <4> QED
        BY <1>t, <4>1, EndTyped
    <3>11. CASE MoveRef(p)
      BY <1>t, <3>11 DEF MoveRef, process, ProcessesTyped
    <3> QED
      BY <1>1, <3>1, <3>2, <3>3, <3>4, <3>5, <3>6, <3>7, <3>8, <3>9, <3>10, <3>11
      DEF Planning, Plan
  <2> QED
    BY <1>t, <2>1, <2>2, <2>3 DEF TypeOK, history
<1>2. ASSUME NEW p \in Projects, Moving(p) PROVE TypeOK'
  <2>1. UNCHANGED <<source, snapshots, builds, pins, home, pc, attempt, outcome, gc, torn>>
    BY <1>2
    DEF Moving, DisplaceContext, PlaceContext, PlaceRuntime, DisplaceRemovals,
        SaveRemovals, DisplaceConsumers, PlaceConsumers, WithdrawConsumers,
        RestoreConsumers, RestoreRemovals, WithdrawRuntime, WithdrawContext,
        RestoreContext, store, process, history
  <2>2. journal' \in JournalType
    BY <1>t, <1>2, MoveKeeps
    DEF Moving, DisplaceContext, PlaceContext, PlaceRuntime, DisplaceRemovals,
        SaveRemovals, DisplaceConsumers, PlaceConsumers, WithdrawConsumers,
        RestoreConsumers, RestoreRemovals, WithdrawRuntime, WithdrawContext,
        RestoreContext, Classes
  <2>3. /\ journal.old \in MaybeCommit /\ journal.new \in MaybeCommit
        /\ journal.removals \subseteq Commits
        /\ journal.before \in Registries /\ journal.after \in Registries
    BY <1>t DEF JournalType, Registries
  <2>4. marker' \in [Projects -> MaybeCommit] /\ plan' \in [Projects -> PlanType]
    <3>1. CASE PlaceContext(p) \/ RestoreContext(p)
      BY <2>3, <3>1, MarkerMovesTyped DEF PlaceContext, RestoreContext
    <3>2. CASE DisplaceContext(p) \/ WithdrawContext(p)
      BY <1>t, <3>2
      DEF DisplaceContext, WithdrawContext, process, StoreTyped, ProcessesTyped,
          MaybeCommit
    <3>3. CASE ~(\/ PlaceContext(p) \/ RestoreContext(p) \/ DisplaceContext(p)
                 \/ WithdrawContext(p))
      <4>1. UNCHANGED <<marker, plan>>
        BY <1>2, <3>3
        DEF Moving, PlaceRuntime, DisplaceRemovals, SaveRemovals, DisplaceConsumers,
            PlaceConsumers, WithdrawConsumers, RestoreConsumers, RestoreRemovals,
            WithdrawRuntime, store, process
      <4> QED
        BY <1>t, <4>1 DEF StoreTyped, ProcessesTyped
    <3> QED
      BY <3>1, <3>2, <3>3
  <2>5. runtime' \subseteq Commits
    <3>1. CASE PlaceRuntime(p)
      <4>1. journal.new \in snapshots /\ runtime' = runtime \union {journal.new}
        BY <3>1
        DEF PlaceRuntime, Turn, Changed, At, JournalHasSnapshot
      <4> QED
        BY <1>t, <4>1 DEF StoreTyped
    <3>2. CASE ~PlaceRuntime(p)
      <4>1. \/ runtime' \subseteq runtime
            \/ runtime' = runtime \union journal.removals
        BY <1>2, <3>2
        DEF Moving, DisplaceContext, PlaceContext, DisplaceRemovals,
            SaveRemovals, DisplaceConsumers, PlaceConsumers, WithdrawConsumers,
            RestoreConsumers, RestoreRemovals, WithdrawRuntime, WithdrawContext,
            RestoreContext, store
      <4> QED
        BY <1>t, <2>3, <4>1 DEF StoreTyped
    <3> QED
      BY <3>1, <3>2
  <2>6. registry' \in Registries /\ stale' \subseteq Commits
        /\ overlooked' \subseteq Commits
    <3>1. Overtaken(journal.removals) \subseteq Commits
      BY <2>3 DEF Overtaken
    <3>2. registry' \in {registry, Missing, journal.before, journal.after}
          /\ stale' \in {stale, stale \union Overtaken(journal.removals)}
          /\ overlooked' = overlooked
      BY <1>2
      DEF Moving, DisplaceContext, PlaceContext, PlaceRuntime, DisplaceRemovals,
          SaveRemovals, DisplaceConsumers, PlaceConsumers, WithdrawConsumers,
          RestoreConsumers, RestoreRemovals, WithdrawRuntime, WithdrawContext,
          RestoreContext, store, history
    <3>3. registry \in Registries /\ Missing \in Registries
      BY <1>t DEF StoreTyped, Registries
    <3> QED
      BY <1>t, <2>3, <3>1, <3>2, <3>3
  <2> QED
    BY <1>t, <2>1, <2>2, <2>4, <2>5, <2>6 DEF TypeOK, StoreTyped, ProcessesTyped
<1>3. ASSUME NEW p \in Projects, Turning(p) PROVE TypeOK'
  <2>1. StoreTyped'
    BY <1>t, <1>3
    DEF Turning, Recover, Stopped, CommitFails, Decide, store, StoreTyped
  <2>2. ProcessesTyped'
    BY <1>t, <1>3
    DEF Turning, Recover, Stopped, CommitFails, Decide, StartUndo, Goto,
        ProcessesTyped, Steps
  <2>3. journal' \in JournalType
    <3>1. journal' = journal \/ \E phase \in {"forward", "back", "done"} :
                                 journal' = [journal EXCEPT !.phase = phase]
      BY <1>3 DEF Turning, Recover, Stopped, CommitFails, Decide, StartUndo
    <3> QED
      BY <1>t, <3>1, PhaseKeeps
  <2> QED
    BY <1>t, <1>3, <2>1, <2>2, <2>3
    DEF Turning, Recover, Stopped, CommitFails, Decide, history, TypeOK
<1>4. ASSUME NEW p \in Projects, Closing(p) PROVE TypeOK'
  <2>1. StoreTyped'
    BY <1>t, <1>4 DEF Closing, Clean, RolledBack, store, StoreTyped
  <2>2. ProcessesTyped'
    <3>1. CASE UNCHANGED <<home, attempt, plan, outcome>>
      BY <1>t, <1>4, <3>1
      DEF Closing, Clean, RolledBack, End, Goto, ProcessesTyped, Steps
    <3>2. CASE End(p, "failed")
      BY <1>t, <3>2, EndTyped DEF Outcomes
    <3> QED
      BY <1>4, <3>1, <3>2 DEF Closing, Clean, RolledBack
  <2>3. journal' \in {journal, NoJournal} /\ UNCHANGED <<gc, history>>
    BY <1>4 DEF Closing, Clean, RolledBack
  <2> QED
    BY <1>t, <2>1, <2>2, <2>3, JournalClosed DEF TypeOK, history
<1>5. ASSUME NEW p \in Projects, Revalidate(p) PROVE TypeOK'
  <2>1. StoreTyped'
    BY <1>t, <1>5 DEF Revalidate, StoreTyped
  <2>2. ProcessesTyped'
    <3>1. CASE PlanCurrent(p) /\ (plan[p].private \/ plan[p].commit \in Present)
      BY <1>t, <1>5, <3>1 DEF Revalidate, Goto, ProcessesTyped, Steps
    <3>2. CASE ~(PlanCurrent(p) /\ (plan[p].private \/ plan[p].commit \in Present))
      BY <1>t, <1>5, <3>2, RetryTyped DEF Revalidate
    <3> QED
      BY <3>1, <3>2
  <2> QED
    BY <1>t, <1>5, <2>1, <2>2 DEF Revalidate, history, TypeOK
<1>6. ASSUME NEW p \in Projects, Prepare(p) PROVE TypeOK'
  <2>1. StoreTyped'
    BY <1>t, <1>6 DEF Prepare, StoreTyped, store
  <2>2. ProcessesTyped'
    <3>1. CASE plan[p].commit \in snapshots
      BY <1>t, <1>6, <3>1 DEF Prepare, Goto, ProcessesTyped, Steps
    <3>2. CASE ~(plan[p].commit \in snapshots)
      BY <1>t, <1>6, <3>2, EndTyped DEF Prepare, Outcomes
    <3> QED
      BY <3>1, <3>2
  <2>3. JournalOf(p) \in JournalType
    <3>1. DesiredConsumers(p) \in SUBSET Projects
      BY ReadersTyped DEF DesiredConsumers
    <3>2. [class \in Classes |-> IF class \in Targets(p) THEN "old" ELSE "none"]
            \in [Classes -> {"none", "old", "out", "new"}]
      OBVIOUS
    <3>3. /\ plan[p].commit \in MaybeCommit /\ plan[p].removals \in SUBSET Commits
          /\ plan[p].sure \in SUBSET Projects
          /\ marker[p] \in MaybeCommit /\ registry \in Registries
      BY <1>t DEF StoreTyped, ProcessesTyped, PlanType
    <3> HIDE DEF Classes
    <3> QED
      BY <3>1, <3>2, <3>3 DEF JournalOf, NoJournal, JournalType
  <2> QED
    BY <1>t, <1>6, <2>1, <2>2, <2>3 DEF Prepare, history, TypeOK
<1>7. ASSUME NEW p \in Projects, Vanish(p) PROVE TypeOK'
  BY <1>t, <1>7
  DEF Vanish, StoreTyped, ProcessesTyped, MaybeCommit, Outcomes, history, TypeOK
<1>8. CASE GcLock
  BY <1>t, <1>8
  DEF GcLock, GcGoto, CollectorType, StoreTyped, ProcessesTyped, store, process,
      history, TypeOK
<1>9. CASE GcMark
  <2>1. gc' \in CollectorType
    <3>1. MarkersOf(Configured \union LoadConsumers) \in SUBSET Commits
      BY ConfiguredAssumption, ReadersTyped
    <3>2. JournalReferences \in SUBSET Commits
      BY <1>t DEF JournalReferences, JournalType, MaybeCommit
    <3>3. {q \in LoadConsumers : marker[q] # NoCommit} \in SUBSET Projects
      BY ReadersTyped
    <3> DEFINE refs  == MarkersOf(Configured \union LoadConsumers)
                          \union JournalReferences
               alive == {q \in LoadConsumers : marker[q] # NoCommit}
    <3>4. \/ gc' = Asleep
          \/ \E step \in {"runtime", "truncate"}, blind \in BOOLEAN :
               gc' = [pc |-> step, refs |-> refs, alive |-> alive, blind |-> blind]
      BY <1>9 DEF GcMark, GcEnd
    <3>5. refs \in SUBSET Commits /\ alive \in SUBSET Projects
      BY <3>1, <3>2, <3>3
    <3> HIDE DEF refs, alive
    <3>6. CASE gc' = Asleep
      BY <3>6 DEF Asleep, CollectorType
    <3>7. ASSUME NEW step \in {"runtime", "truncate"}, NEW blind \in BOOLEAN,
                 gc' = [pc |-> step, refs |-> refs, alive |-> alive, blind |-> blind]
          PROVE  gc' \in CollectorType
      BY <3>5, <3>7 DEF CollectorType
    <3> QED
      BY <3>4, <3>6, <3>7
  <2>2. /\ UNCHANGED <<source, store, pins, journal, process, history>>
        /\ home' \in {home, Nobody}
    BY <1>9 DEF GcMark, GcEnd
  <2> QED
    BY <1>t, <2>1, <2>2 DEF StoreTyped, ProcessesTyped, store, process, history, TypeOK
<1>10. CASE GcTruncate
  BY <1>t, <1>10
  DEF GcTruncate, GcGoto, CollectorType, StoreTyped, ProcessesTyped, Registries,
      process, history, TypeOK
<1>11. CASE GcRewrite
  BY <1>t, <1>11
  DEF GcRewrite, GcGoto, CollectorType, StoreTyped, ProcessesTyped, Registries,
      process, history, TypeOK
<1>12. CASE GcRuntime
  <2>1. \A c \in Commits : Missed({c}) \subseteq Commits
    BY DEF Missed
  <2> QED
    BY <1>t, <1>12, <2>1
    DEF GcRuntime, Collectable, StoreTyped, ProcessesTyped, process, TypeOK
<1>13. CASE GcSidecars
  <2>1. journal' \in JournalType
    BY <1>t, <1>13, LosesKeeps
  <2>2. Dropped \subseteq Commits
    BY <1>t DEF Dropped, JournalType
  <2> QED
    BY <1>t, <1>13, <2>1, <2>2
    DEF GcSidecars, GcGoto, CollectorType, StoreTyped, ProcessesTyped, store, process,
        TypeOK
<1>14. CASE GcSnapshots
  BY <1>t, <1>14
  DEF GcSnapshots, GcGoto, CollectorType, StoreTyped, ProcessesTyped, process,
      history, TypeOK
<1>15. CASE GcBuilds
  <2>1. \A aged \in SUBSET Commits : Missed(aged) \subseteq Commits
    BY DEF Missed
  <2> QED
    BY <1>t, <1>15, <2>1
    DEF GcBuilds, GcEnd, Asleep, CollectorType, StoreTyped, ProcessesTyped, process,
        TypeOK
<1>16. CASE CollectorCrash
  BY <1>t, <1>16
  DEF CollectorCrash, GcEnd, Asleep, CollectorType, StoreTyped, ProcessesTyped,
      store, process, TypeOK
<1> QED
  BY <1>0, <1>1, <1>2, <1>3, <1>4, <1>5, <1>6, <1>7, <1>8, <1>9, <1>10, <1>11,
     <1>12, <1>13, <1>14, <1>15, <1>16, NextCases
  DEF Sweeping, Collect


\* An install that plans, gives up or publishes leaves the stores, the journal
\* and the other installs alone.
LEMMA PlanningKeeps ==
  ASSUME TypeOK, NEW p \in Projects, Planning(p)
  PROVE  /\ UNCHANGED <<marker, runtime, builds, registry, journal, gc, history>>
         /\ snapshots \subseteq snapshots'
         /\ \A q \in Projects \ {p} :
              /\ pc'[q] = pc[q] /\ plan'[q] = plan[q] /\ outcome'[q] = outcome[q]
              /\ pins'[q] = pins[q]
         /\ home' = home \/ (home = p /\ home' = Nobody)
         /\ (pc' = pc /\ plan' = plan /\ home' = home) \/ pc'[p] \notin Locked
<1> USE DEF TypeOK, StoreTyped, ProcessesTyped, Locked, Goto
<1>1. CASE Start(p) \/ StartAgain(p) \/ Resolve(p)
  BY <1>1 DEF Start, StartAgain, Resolve, Observe, Retry, End, store, history
<1>2. CASE \/ ReadMarker(p) \/ ReadConsumers(p) \/ ReadPins(p) \/ ListRuntime(p)
           \/ BuildPrivate(p)
  BY <1>2
  DEF ReadMarker, ReadConsumers, ReadPins, ListRuntime, BuildPrivate, store, history
<1>3. CASE CapturePreimages(p)
  BY <1>3 DEF CapturePreimages, End, store, history
<1>4. CASE \/ LockTimeout(p) \/ PublishProject(p) \/ PublishRefused(p)
           \/ UndoRefused(p) \/ Crash(p)
  BY <1>4
  DEF LockTimeout, PublishProject, PublishRefused, UndoRefused, Crash, End, store,
      history
<1>5. CASE MoveRef(p)
  BY <1>5 DEF MoveRef, store, process, history
<1> QED
  BY <1>1, <1>2, <1>3, <1>4, <1>5 DEF Planning, Plan

\* A step of a transaction is taken under the lock and moves one class.
LEMMA MovingKeeps ==
  ASSUME TypeOK, HomeHeld, NEW p \in Projects, Moving(p)
  PROVE  /\ UNCHANGED <<source, snapshots, builds, pins, home, pc, attempt, outcome,
                        gc, spent, torn, overlooked>>
         /\ pc[p] \in {"apply", "replay", "undo", "restore"} /\ home = p
         /\ gc.pc = "idle" /\ \A q \in Projects \ {p} : pc[q] \notin Locked
         /\ \E class \in Classes, to \in {"old", "out", "new"} : Move(class, to)
         /\ journal' \in JournalType /\ SameJournal
         /\ journal'.phase = journal.phase /\ journal'.lost = journal.lost
         /\ \A q \in Projects : q # journal.owner => marker'[q] = marker[q]
         /\ stale \subseteq stale'
<1>1. /\ UNCHANGED <<source, snapshots, builds, pins, home, pc, attempt, outcome,
                     gc, spent, torn, overlooked>>
      /\ pc[p] \in {"apply", "replay", "undo", "restore"}
      /\ stale \subseteq stale'
  BY DEF Moving, DisplaceContext, PlaceContext, PlaceRuntime, DisplaceRemovals,
         SaveRemovals, DisplaceConsumers, PlaceConsumers, WithdrawConsumers,
         RestoreConsumers, RestoreRemovals, WithdrawRuntime, WithdrawContext,
         RestoreContext, Forwarding, Backing, store, process, history
<1>2. \E class \in Classes, to \in {"old", "out", "new"} : Move(class, to)
  BY DEF Moving, DisplaceContext, PlaceContext, PlaceRuntime, DisplaceRemovals,
         SaveRemovals, DisplaceConsumers, PlaceConsumers, WithdrawConsumers,
         RestoreConsumers, RestoreRemovals, WithdrawRuntime, WithdrawContext,
         RestoreContext, Classes
<1>3. \A q \in Projects : q # journal.owner => marker'[q] = marker[q]
  BY DEF Moving, DisplaceContext, PlaceContext, PlaceRuntime, DisplaceRemovals,
         SaveRemovals, DisplaceConsumers, PlaceConsumers, WithdrawConsumers,
         RestoreConsumers, RestoreRemovals, WithdrawRuntime, WithdrawContext,
         RestoreContext, MarkerMoves, store, TypeOK, StoreTyped
<1>4. /\ journal' \in JournalType /\ SameJournal
      /\ journal'.phase = journal.phase /\ journal'.lost = journal.lost
  BY <1>2, MoveKeeps DEF TypeOK
<1> QED
  BY <1>1, <1>2, <1>3, <1>4, NamesAssumption DEF HomeHeld, Locked

\* It takes a project whose marker it puts in place out of what the plans have
\* read, and leaves the rest of them alone.
LEMMA MovingPlans ==
  ASSUME TypeOK, NEW p \in Projects, Moving(p)
  PROVE  /\ plan' \in [Projects -> PlanType]
         /\ \A r \in Projects :
              /\ plan'[r].sure \subseteq plan[r].sure
              /\ plan'[r].commit = plan[r].commit
              /\ plan'[r].refs = plan[r].refs /\ plan'[r].unread = plan[r].unread
              /\ plan'[r].consumers = plan[r].consumers
              /\ plan'[r].removals = plan[r].removals
              /\ plan'[r].registry = plan[r].registry
              /\ \A q \in plan'[r].sure : marker'[q] \in {marker[q], NoCommit}
<1>t. /\ plan \in [Projects -> PlanType] /\ marker \in [Projects -> MaybeCommit]
      /\ journal.new \in MaybeCommit /\ journal.old \in MaybeCommit
  BY DEF TypeOK, StoreTyped, ProcessesTyped, JournalType
<1>s. \A r \in Projects : plan[r].sure \subseteq Projects
  BY <1>t DEF PlanType
<1>1. CASE PlaceContext(p) \/ RestoreContext(p)
  <2>1. PICK to \in MaybeCommit : MarkerMoves(journal.owner, to)
    BY <1>t, <1>1 DEF PlaceContext, RestoreContext
  <2> QED
    BY <1>t, <1>s, <2>1, MarkerMovesTyped
<1>2. CASE DisplaceContext(p) \/ WithdrawContext(p)
  BY <1>t, <1>s, <1>2 DEF DisplaceContext, WithdrawContext, process
<1>3. CASE ~(PlaceContext(p) \/ RestoreContext(p) \/ DisplaceContext(p) \/ WithdrawContext(p))
  <2>1. UNCHANGED <<marker, plan>>
    BY <1>3
    DEF Moving, PlaceRuntime, DisplaceRemovals, SaveRemovals, DisplaceConsumers,
        PlaceConsumers, WithdrawConsumers, RestoreConsumers, RestoreRemovals,
        WithdrawRuntime, store, process
  <2> QED
    BY <1>t, <2>1
<1> QED
  BY <1>1, <1>2, <1>3

\* The routines that end, turn and close leave every store alone, and nobody
\* else is past the lock.
LEMMA TurningKeeps ==
  ASSUME TypeOK, HomeHeld, NEW p \in Projects, Turning(p) \/ Closing(p)
  PROVE  /\ UNCHANGED <<source, store, pins, gc, history>>
         /\ \A q \in Projects \ {p} :
              /\ pc'[q] = pc[q] /\ plan'[q] = plan[q] /\ outcome'[q] = outcome[q]
              /\ pc[q] \notin Locked
         /\ \/ pc'[p] \in Locked /\ home' = p /\ plan' = plan /\ outcome' = outcome
            \/ pc'[p] \notin Locked /\ home' \in {home, Nobody}
         /\ home \in {p, Nobody}
         /\ pc[p] \in Locked \union {"lock"}
<1>3. home \in {p, Nobody} => \A q \in Projects \ {p} : pc[q] \notin Locked
  BY NamesAssumption DEF HomeHeld
<1>1. CASE Turning(p)
  BY <1>1, <1>3
  DEF Turning, Recover, Stopped, CommitFails, Decide, StartUndo, Forwarding, store,
      history, TypeOK, ProcessesTyped, HomeHeld, Locked, Goto
<1>2. CASE Closing(p)
  BY <1>2, <1>3
  DEF Closing, Clean, RolledBack, Backing, End, store, history, TypeOK,
      ProcessesTyped, HomeHeld, Locked, Goto
<1> QED
  BY <1>1, <1>2

\* One step keeps the home lock exclusive.
LEMMA HeldStep ==
  ASSUME TypeOK, HomeHeld, [Next]_vars
  PROVE  HomeHeld'
<1> USE NamesAssumption DEF HomeHeld
<1>t. pc \in [Projects -> Steps] /\ gc \in CollectorType
  BY DEF TypeOK, ProcessesTyped
<1>0. CASE UNCHANGED vars
  BY <1>0 DEF vars, process
<1>1. ASSUME NEW p \in Projects, Planning(p) PROVE HomeHeld'
  BY <1>t, <1>1, PlanningKeeps
<1>2. ASSUME NEW p \in Projects, Moving(p) PROVE HomeHeld'
  BY <1>2, MovingKeeps
<1>3. ASSUME NEW p \in Projects, Turning(p) \/ Closing(p) PROVE HomeHeld'
  BY <1>3, TurningKeeps
<1>4. ASSUME NEW p \in Projects, Revalidate(p) \/ Prepare(p) PROVE HomeHeld'
  BY <1>t, <1>4 DEF Revalidate, Prepare, Retry, End, Goto, Locked
<1>5. ASSUME NEW p \in Projects, Vanish(p) PROVE HomeHeld'
  BY <1>5 DEF Vanish
<1>6. CASE Sweeping
  BY <1>t, <1>6
  DEF Sweeping, Collect, GcLock, GcMark, GcTruncate, GcRewrite, GcRuntime, GcSidecars,
      GcSnapshots, GcBuilds, CollectorCrash, Collecting, GcGoto, GcEnd, Asleep,
      process, CollectorType, Locked
<1> QED
  BY <1>0, <1>1, <1>2, <1>3, <1>4, <1>5, <1>6, NextCases

\* The collector works when no install is past the lock, and touches no marker.
LEMMA SweepingKeeps ==
  ASSUME TypeOK, HomeHeld, Sweeping
  PROVE  /\ UNCHANGED <<source, marker, pins, pc, attempt, plan, outcome, stale>>
         /\ \A p \in Projects : pc[p] \notin Locked
         /\ runtime' \subseteq runtime /\ overlooked \subseteq overlooked'
         /\ torn => torn'
         /\ journal' \in JournalType /\ SameJournal
         /\ journal'.phase = journal.phase /\ journal'.at = journal.at
         /\ journal.lost \subseteq journal'.lost
<1>1. /\ UNCHANGED <<source, marker, pins, pc, attempt, plan, outcome, stale>>
      /\ runtime' \subseteq runtime /\ overlooked \subseteq overlooked'
      /\ torn => torn'
      /\ home \in {Nobody, Collector}
  <2>1. CASE GcLock \/ GcMark \/ GcTruncate \/ GcRewrite \/ CollectorCrash
    BY <2>1
    DEF GcLock, GcMark, GcTruncate, GcRewrite, CollectorCrash, Collecting, store,
        process, history, TypeOK
  <2>2. CASE GcRuntime
    BY <2>2 DEF GcRuntime, Collecting, process
  <2>5. CASE GcSidecars
    BY <2>5 DEF GcSidecars, Collecting, store, process
  <2>3. CASE GcSnapshots
    BY <2>3 DEF GcSnapshots, Collecting, process, history
  <2>4. CASE GcBuilds
    BY <2>4 DEF GcBuilds, Collecting, process
  <2> QED
    BY <2>1, <2>2, <2>3, <2>4, <2>5 DEF Sweeping, Collect
<1>2. \A p \in Projects : pc[p] \notin Locked
  BY <1>1, NamesAssumption DEF HomeHeld
<1>3. CASE GcSidecars
  BY <1>1, <1>2, <1>3, LosesKeeps DEF TypeOK
<1>4. CASE ~GcSidecars
  <2>1. journal' = journal
    BY <1>4
    DEF Sweeping, Collect, GcLock, GcMark, GcTruncate, GcRewrite, GcRuntime,
        GcSnapshots, GcBuilds, CollectorCrash, store
  <2> QED
    BY <1>1, <1>2, <2>1 DEF TypeOK, SameJournal
<1> QED
  BY <1>3, <1>4

\* One step keeps all of it: an install publishes what it has a snapshot of,
\* recovery brings back only what the collector has not taken, and the
\* collector reaches the snapshots only when it knows every runtime tree.
LEMMA SnapshotStep ==
  ASSUME TypeOK, HomeHeld, SnapshotsKept, [Next]_vars
  PROVE  SnapshotsKept'
<1> USE DEF SnapshotsKept, RuntimeHasSnapshot, JournalHasSnapshot, SweepKnowsRuntime, At
<1>t. journal \in JournalType /\ gc \in CollectorType
  BY DEF TypeOK
<1>0. CASE UNCHANGED vars
  BY <1>0 DEF vars, store
<1>1. ASSUME NEW p \in Projects, Planning(p) PROVE SnapshotsKept'
  BY <1>1, PlanningKeeps
<1>2. ASSUME NEW p \in Projects, Moving(p) PROVE SnapshotsKept'
  <2>1. snapshots' = snapshots /\ gc' = gc /\ gc.pc # "snapshots"
    BY <1>2, MovingKeeps
  <2>2. CASE PlaceRuntime(p)
    <3>1. Move("runtime", "new") /\ runtime' = runtime \union {journal.new}
      BY <2>2 DEF PlaceRuntime
    <3>2. journal.new \in snapshots
      BY <2>2 DEF PlaceRuntime, Turn, Changed
    <3> QED
      BY <1>t, <2>1, <3>1, <3>2, MoveKeeps DEF SameJournal, Classes
  <2>3. CASE DisplaceRemovals(p)
    <3>1. Move("removal", "out") /\ runtime' = runtime \ journal.removals
      BY <2>3 DEF DisplaceRemovals
    <3>2. journal.removals \subseteq runtime
      BY <2>3 DEF DisplaceRemovals, Changed
    <3> QED
      BY <1>t, <2>1, <3>1, <3>2, MoveKeeps DEF SameJournal, Classes
  <2>4. CASE SaveRemovals(p)
    <3>1. Move("removal", "new") /\ runtime' = runtime /\ At("removal", {"out"})
      BY <2>4 DEF SaveRemovals, store
    <3> QED
      BY <1>t, <2>1, <3>1, MoveKeeps DEF SameJournal, Classes
  <2>5. CASE RestoreRemovals(p)
    <3>1. /\ Move("removal", "old") /\ At("removal", {"out", "new"})
          /\ runtime' = IF "removal" \in journal.lost THEN runtime
                        ELSE runtime \union journal.removals
      BY <2>5 DEF RestoreRemovals, UndoTurn
    <3> QED
      BY <1>t, <2>1, <3>1, MoveKeeps DEF SameJournal, Classes
  <2>6. CASE WithdrawRuntime(p)
    <3>1. /\ Move("runtime", "old") /\ runtime' = runtime \ {journal.new}
          /\ journal.new \in runtime
      BY <2>6 DEF WithdrawRuntime, Unrestorable
    <3> QED
      BY <1>t, <2>1, <3>1, MoveKeeps DEF SameJournal, Classes
  <2>7. CASE \/ DisplaceContext(p) \/ PlaceContext(p) \/ DisplaceConsumers(p)
             \/ PlaceConsumers(p) \/ WithdrawConsumers(p) \/ RestoreConsumers(p)
             \/ WithdrawContext(p) \/ RestoreContext(p)
    <3>1. /\ runtime' = runtime
          /\ \E class \in {"context", "consumers"}, to \in {"old", "out", "new"} :
               Move(class, to)
      BY <2>7
      DEF DisplaceContext, PlaceContext, DisplaceConsumers, PlaceConsumers,
          WithdrawConsumers, RestoreConsumers, WithdrawContext, RestoreContext
    <3> QED
      BY <1>t, <2>1, <3>1, MoveKeeps DEF SameJournal, Classes
  <2> QED
    BY <1>2, <2>2, <2>3, <2>4, <2>5, <2>6, <2>7 DEF Moving
<1>3. ASSUME NEW p \in Projects, Turning(p) PROVE SnapshotsKept'
  <2>1. UNCHANGED <<runtime, snapshots, gc>>
    BY <1>3, TurningKeeps DEF store
  <2>2. journal' = journal \/ \E phase \in {"forward", "back", "done"} :
                               journal' = [journal EXCEPT !.phase = phase]
    BY <1>3 DEF Turning, Recover, Stopped, CommitFails, Decide, StartUndo
  <2> QED
    BY <1>t, <2>1, <2>2, PhaseKeeps DEF SameJournal
<1>4. ASSUME NEW p \in Projects, Closing(p) PROVE SnapshotsKept'
  <2>1. UNCHANGED <<runtime, snapshots, gc>> /\ journal' \in {journal, NoJournal}
    BY <1>4 DEF Closing, Clean, RolledBack, store
  <2> QED
    BY <2>1, JournalClosed DEF Classes
<1>5. ASSUME NEW p \in Projects, Revalidate(p) PROVE SnapshotsKept'
  BY <1>5 DEF Revalidate
<1>6. ASSUME NEW p \in Projects, Prepare(p) PROVE SnapshotsKept'
  <2>1. UNCHANGED <<runtime, snapshots, gc>>
    BY <1>6 DEF Prepare, store
  <2>2. gc.pc = "idle"
    BY <1>6, NamesAssumption DEF Prepare, HomeHeld, Locked
  <2>3. CASE journal' = journal
    BY <2>1, <2>3
  <2>4. CASE journal' # journal
    <3>1. plan[p].commit \in snapshots /\ journal' = JournalOf(p)
      BY <1>6, <2>4 DEF Prepare
    <3>2. \A class \in Classes : JournalOf(p).at[class] \in {"none", "old"}
      BY JournalOpened
    <3> QED
      BY <2>1, <2>2, <3>1, <3>2, JournalOpened DEF Classes
  <2> QED
    BY <2>3, <2>4
<1>7. ASSUME NEW p \in Projects, Vanish(p) PROVE SnapshotsKept'
  BY <1>7 DEF Vanish
<1>8. CASE GcLock \/ GcMark \/ GcTruncate \/ GcRewrite \/ GcBuilds \/ CollectorCrash
  <2>1. UNCHANGED <<runtime, snapshots, journal>>
    BY <1>8 DEF GcLock, GcMark, GcTruncate, GcRewrite, GcBuilds, CollectorCrash, store
  <2>2. gc'.pc # "snapshots"
    BY <1>t, <1>8
    DEF GcLock, GcMark, GcTruncate, GcRewrite, GcBuilds, CollectorCrash, GcGoto,
        Collecting, GcEnd, Asleep, CollectorType
  <2> QED
    BY <2>1, <2>2
<1>9. CASE GcRuntime
  BY <1>9 DEF GcRuntime, Collecting
<1>10. CASE GcSidecars
  <2>1. /\ UNCHANGED <<runtime, snapshots>> /\ gc'.refs = gc.refs
        /\ gc'.pc = "snapshots" => runtime \subseteq gc.refs
    BY <1>t, <1>10 DEF GcSidecars, GcGoto, store, CollectorType
  <2> QED
    BY <1>t, <1>10, <2>1, LosesKeeps DEF SameJournal, RuntimeSidecars
<1>11. CASE GcSnapshots
  <2>1. UNCHANGED <<runtime, journal>>
    BY <1>11 DEF GcSnapshots
  <2>2. CASE snapshots \subseteq gc.refs
    BY <1>t, <1>11, <2>1, <2>2 DEF GcSnapshots, GcGoto, CollectorType
  <2>3. CASE ~(snapshots \subseteq gc.refs)
    <3>1. /\ gc' = gc /\ gc.pc = "snapshots"
          /\ \E c \in snapshots \ gc.refs : snapshots' = snapshots \ {c}
      BY <1>11, <2>3 DEF GcSnapshots, Collecting
    <3> QED
      BY <1>t, <2>1, <3>1
  <2> QED
    BY <2>2, <2>3
<1> QED
  BY <1>0, <1>1, <1>2, <1>3, <1>4, <1>5, <1>6, <1>7, <1>8, <1>9, <1>10, <1>11,
     NextCases
  DEF Sweeping, Collect

\* The first states satisfy the invariant: nothing runs, nothing is open.
LEMMA InvariantHoldsFirst == Init => RuntimeInvariant
<1> SUFFICES ASSUME Init PROVE RuntimeInvariant
  OBVIOUS
<1>1. StoreTyped
  BY DEF Init, StoreTyped, MaybeCommit, Registries, MarkersOf
<1>2. ProcessesTyped
  BY HomeBoundsAssumption
  DEF Init, ProcessesTyped, PlanType, NoPlan, MaybeCommit, Registries, Steps,
      Outcomes
<1>3. TypeOK
  BY <1>1, <1>2, JournalClosed DEF Init, TypeOK, CollectorType, Asleep
<1>4. HomeHeld
  BY DEF Init, HomeHeld, Locked, Asleep
<1>5. SnapshotsKept
  BY JournalClosed
  DEF Init, SnapshotsKept, RuntimeHasSnapshot, JournalHasSnapshot, SweepKnowsRuntime,
      At, Asleep, Classes
<1> QED
  BY <1>3, <1>4, <1>5 DEF RuntimeInvariant

\* In every reachable state of any home the invariant holds.
THEOREM HomeInvariant == Spec => []RuntimeInvariant
<1>1. RuntimeInvariant /\ [Next]_vars => RuntimeInvariant'
  BY TypeStep, HeldStep, SnapshotStep DEF RuntimeInvariant, SnapshotsKept
<1> QED
  BY InvariantHoldsFirst, <1>1, PTL DEF Spec

\* Whatever the installs, sweeps, crashes and recoveries do, every variable
\* keeps its type, and no install plans more often than it may.
THEOREM HomeTyped == Spec => []TypeOK
BY HomeInvariant, PTL DEF RuntimeInvariant

\* At most one process is past the manager home lock.
THEOREM HomeExclusive == Spec => []HomeHeld
BY HomeInvariant, PTL DEF RuntimeInvariant

\* The sweep of the snapshot cache never takes the snapshot of a published
\* runtime tree, not even of one that a later recovery brings back: the next
\* install's validate_legacy_store finds every tree verifiable.
THEOREM PublishedKeepsSnapshot == Spec => []RuntimeHasSnapshot
BY HomeInvariant, PTL DEF RuntimeInvariant, SnapshotsKept

-----------------------------------------------------------------------------
(* What the installs, the open journal, the collector and the stores owe to *)
(* each other.                                                              *)

\* A crash of the collector may have made it forget p.
Forgotten(p) == torn /\ p \notin Configured

\* What a reader of a removed tree has to be excused by.
Excused == stale \union overlooked

\* An install that runs has no outcome yet; one that succeeded left no
\* journal; each routine finds the journal in its phase, and the routines of
\* its own commit find its own.
InstallAgrees(p) ==
  /\ pc[p] # "idle" => outcome[p] = "running"
  /\ outcome[p] = "ok" => journal.owner # p /\ pins[p] = marker[p]
  /\ pc[p] \in {"revalidate", "prepare", "publish"} => journal = NoJournal
  /\ pc[p] \in {"apply", "replay", "clean", "finish", "undo", "restore"} =>
       journal.owner # Nobody
  /\ pc[p] \in {"apply", "replay"} => journal.phase = "forward"
  /\ pc[p] \in {"undo", "restore"} => journal.phase = "back"
  /\ pc[p] \in {"clean", "finish"} => journal.phase = "done"
  /\ pc[p] \in {"apply", "clean"} =>
       journal.owner = p /\ journal.new = plan[p].commit
  /\ pc[p] = "publish" => marker[p] = plan[p].commit
InstallsAgree == \A p \in Projects : InstallAgrees(p)

\* An open journal says what the marker of its owner is.
OwnerAgrees(p) ==
  /\ journal.new \in Commits /\ journal.new \notin journal.removals
  /\ p \notin journal.sure
  /\ At("context", {"none"}) => marker[p] = journal.new /\ journal.old = journal.new
  /\ At("context", {"old"}) => marker[p] = journal.old
  /\ At("context", {"out"}) => marker[p] = NoCommit
  /\ At("context", {"new"}) => marker[p] = journal.new

\* The registry is the last class to be applied, a journal is done with every
\* class when it is, and what a sweep took of a removal had been moved away.
InOrder ==
  /\ At("consumers", {"out", "new"}) =>
       \A class \in Classes \ {"consumers"} : At(class, {"none", "new"})
  /\ journal.phase = "done" => \A class \in Classes : At(class, {"none", "new"})
  /\ "removal" \in journal.lost => journal.phase = "back" \/ At("removal", {"out", "new"})
JournalAgrees ==
  /\ journal.owner = Nobody => journal = NoJournal
  /\ InOrder
  /\ \A p \in Projects : journal.owner = p => OwnerAgrees(p)

\* While nothing is forgotten, whoever has a marker, or gets it back from the
\* open journal, is one that the registry, every registry the journal can
\* write, and the one the collector writes have.
Listed(p) == registry = Torn \/ p \in LoadConsumers
Relists == gc.pc \in {"truncate", "rewrite"}
Aside == At("consumers", {"out"})

BystanderListed(p) ==
  /\ Aside \/ Listed(p)
  /\ journal.owner # Nobody => p \in Load(journal.before) /\ p \in journal.after
  /\ Relists => p \in gc.alive
OwnerListed(p) ==
  /\ p \in journal.after
  /\ journal.old # NoCommit => p \in Load(journal.before)
  /\ At("consumers", {"none", "new"}) \/ (At("consumers", {"old"}) /\ journal.old # NoCommit) =>
       Listed(p) /\ (Relists => p \in gc.alive)
ConsumersAgree ==
  ~torn =>
    /\ registry = Torn => gc.pc = "rewrite"
    /\ journal.before # Torn
    /\ Aside => registry = Missing /\ ~Relists
    /\ \A p \in Projects \ Configured :
         /\ p = journal.owner => OwnerListed(p)
         /\ p # journal.owner /\ marker[p] # NoCommit => BystanderListed(p)

\* A sweep that could read the registry has marked what the markers name and
\* the journal can restore; one that could not has marked the latter.
Sweeps ==
  gc.pc \in {"truncate", "rewrite", "runtime", "snapshots", "builds"}
Marked(p) ==
  /\ gc.blind \/ marker[p] \in gc.refs \union {NoCommit}
  /\ journal.owner = p /\ ~At("context", {"none"}) =>
       {journal.old, journal.new} \ {NoCommit} \subseteq gc.refs
SweepAgrees == Sweeps => \A p \in Projects : Forgotten(p) \/ Marked(p)

\* The build of what a marker names, may name again or is about to name is
\* in the cache.
BuildAgrees(p) ==
  /\ marker[p] \in Commits \ Present => marker[p] \in overlooked \/ Forgotten(p)
  /\ journal.owner = p =>
       \/ Forgotten(p)
       \/ {journal.old, journal.new} \ {NoCommit} \subseteq Present \union overlooked
  /\ pc[p] = "prepare" => plan[p].commit \in Present
BuildsAgree == \A p \in Projects : BuildAgrees(p)

\* A plan removes neither its own commit nor what the marker of a checkout
\* names that it has read.  Who is in neither list when it reads them has not
\* been read.
Asked(p) ==
  CASE pc[p] = "configured" -> Configured \ plan[p].unread
    [] OTHER -> (Configured \union Load(plan[p].consumers)) \ plan[p].unread
ReadsMarkers(p) ==
  /\ p \notin plan[p].sure \union plan[p].unread /\ plan[p].commit \in plan[p].refs
  /\ \A q \in plan[p].sure \intersect Asked(p) :
       marker[q] \in plan[p].refs \union {NoCommit}
Spares(p) ==
  /\ p \notin plan[p].sure /\ plan[p].commit \notin plan[p].removals
  /\ \A q \in plan[p].sure :
       \/ marker[q] \notin plan[p].removals
       \/ q \notin Configured /\ q \notin Load(plan[p].registry)
PlanAgrees(p) ==
  /\ pc[p] \in {"configured", "registered", "list"} => ReadsMarkers(p)
  /\ pc[p] = "list" => plan[p].unread = {}
  /\ pc[p] = "preimages" =>
       /\ p \notin plan[p].sure /\ plan[p].commit \notin plan[p].removals
       /\ \A q \in plan[p].sure \intersect
                     (Configured \union Load(plan[p].consumers)) :
            marker[q] \notin plan[p].removals
  /\ pc[p] \in {"build", "lock", "revalidate", "prepare", "replay", "finish",
                "restore"} => Spares(p)
  /\ pc[p] = "prepare" =>
       \A q \in plan[p].sure : marker[q] \notin plan[p].removals \/ Forgotten(q)
RemovalsAgree ==
  /\ \A p \in Projects : PlanAgrees(p)
  /\ \A q \in journal.sure :
       marker[q] \notin journal.removals \/ Forgotten(q)

\* What the open journal has published is there, and so is what it can
\* restore; what it publishes no marker has named without excuse.
OwnerHasRuntime(p) ==
  /\ ~At("runtime", {"old"}) => journal.new \in runtime \union overlooked \/ Forgotten(p)
  /\ journal.old # NoCommit =>
       \/ journal.old \in runtime \union Excused \/ Forgotten(p)
       \/ At("removal", {"out", "new"}) /\ journal.old \in journal.removals
  /\ ~At("runtime", {"none"}) =>
       /\ journal.old = journal.new => journal.old \in Excused \/ Forgotten(p)
       /\ \A q \in Projects \ {p} :
            marker[q] = journal.new => journal.new \in Excused \/ Forgotten(q)
HasRuntime(p) ==
  marker[p] \in Commits \ runtime =>
    \/ marker[p] \in Excused \/ Forgotten(p)
    \/ journal.owner = p /\ At("runtime", {"old"})
RuntimeAgrees ==
  /\ \A p \in Projects :
       HasRuntime(p) /\ (journal.owner = p => OwnerHasRuntime(p))
  /\ At("removal", {"out"}) /\ "removal" \in journal.lost =>
       journal.removals \subseteq overlooked

HomeAgrees ==
  /\ InstallsAgree /\ JournalAgrees /\ ConsumersAgree /\ SweepAgrees
  /\ BuildsAgree /\ RemovalsAgree /\ RuntimeAgrees
HomeInv == RuntimeInvariant /\ HomeAgrees

\* One step keeps the outcomes true and the routines with their journal.
LEMMA InstallsStep ==
  ASSUME HomeInv, [Next]_vars
  PROVE  InstallsAgree'
<1> USE NamesAssumption
<1>t. /\ TypeOK /\ HomeHeld /\ InstallsAgree /\ JournalAgrees
      /\ marker \in [Projects -> MaybeCommit] /\ journal \in JournalType
      /\ pc \in [Projects -> Steps] /\ outcome \in [Projects -> Outcomes]
      /\ pins \in [Projects -> MaybeCommit] /\ plan \in [Projects -> PlanType]
  BY DEF HomeInv, RuntimeInvariant, HomeAgrees, TypeOK, StoreTyped, ProcessesTyped
<1> USE DEF InstallsAgree, InstallAgrees
<1>0. CASE UNCHANGED vars
  BY <1>t, <1>0 DEF vars, store, process
<1>1. ASSUME NEW p \in Projects, Planning(p) PROVE InstallsAgree'
  <2>1. \A q \in Projects \ {p} : InstallAgrees(q)'
    BY <1>t, <1>1, PlanningKeeps
  <2>2. InstallAgrees(p)'
    <3>1. CASE Start(p) \/ StartAgain(p) \/ Resolve(p)
      BY <1>t, <3>1 DEF Start, StartAgain, Resolve, Observe, Retry, End, Goto
    <3>6. CASE ReadMarker(p) \/ ReadConsumers(p)
      BY <1>t, <1>1, <3>6, PlanningKeeps DEF ReadMarker, ReadConsumers, Goto, store
    <3>2. CASE \/ ReadPins(p) \/ ListRuntime(p) \/ CapturePreimages(p) \/ BuildPrivate(p)
      BY <1>t, <1>1, <3>2, PlanningKeeps
      DEF ReadPins, ListRuntime, CapturePreimages, BuildPrivate, End, Goto, store
    <3>3. CASE PublishProject(p)
      <4>1. pins'[p] = plan[p].commit /\ marker' = marker /\ journal' = journal
            /\ pc'[p] = "idle"
        BY <1>t, <3>3 DEF PublishProject, End, Goto, store
      <4> QED
        BY <1>t, <3>3, <4>1, JournalClosed DEF PublishProject
    <3>4. CASE LockTimeout(p) \/ PublishRefused(p) \/ UndoRefused(p) \/ Crash(p)
      BY <1>t, <3>4 DEF LockTimeout, PublishRefused, UndoRefused, Crash, End, Goto
    <3>5. CASE MoveRef(p)
      BY <1>t, <3>5 DEF MoveRef, store, process
    <3> QED
      BY <1>1, <3>1, <3>2, <3>3, <3>4, <3>5, <3>6 DEF Planning, Plan
  <2> QED
    BY <2>1, <2>2
<1>2. ASSUME NEW p \in Projects, Moving(p) PROVE InstallsAgree'
  <2>1. /\ UNCHANGED <<pc, outcome, pins>> /\ SameJournal /\ journal'.phase = journal.phase
        /\ pc[p] \in {"apply", "replay", "undo", "restore"}
        /\ \A q \in Projects \ {p} : pc[q] \notin Locked
        /\ \A q \in Projects : q # journal.owner => marker'[q] = marker[q]
    BY <1>t, <1>2, MovingKeeps
  <2>2. \A q \in Projects : plan'[q].commit = plan[q].commit
    BY <1>t, <1>2, MovingPlans
  <2>3. ASSUME NEW q \in Projects \ {p} PROVE InstallAgrees(q)'
    BY <1>t, <2>1, <2>2 DEF SameJournal, Locked
  <2>4. InstallAgrees(p)'
    BY <1>t, <2>1, <2>2 DEF SameJournal
  <2> QED
    BY <2>3, <2>4
<1>3. ASSUME NEW p \in Projects, Turning(p) PROVE InstallsAgree'
  <2>1. journal'.owner = journal.owner /\ journal'.new = journal.new
    <3>1. journal' = journal \/ \E phase \in {"forward", "back", "done"} :
                                 journal' = [journal EXCEPT !.phase = phase]
      BY <1>3 DEF Turning, Recover, Stopped, CommitFails, Decide, StartUndo
    <3> QED
      BY <1>t, <3>1, PhaseKeeps DEF SameJournal
  <2>2. /\ UNCHANGED <<marker, pins>>
        /\ \A q \in Projects \ {p} :
             /\ pc'[q] = pc[q] /\ plan'[q] = plan[q] /\ outcome'[q] = outcome[q]
             /\ pc[q] \notin Locked
    BY <1>t, <1>3, TurningKeeps DEF store
  <2>3. \A q \in Projects \ {p} : InstallAgrees(q)'
    BY <1>t, <2>1, <2>2 DEF Locked
  <2>4. InstallAgrees(p)'
    <3>1. CASE Recover(p)
      <4>1. journal # NoJournal => journal.owner # Nobody
        BY <1>t DEF JournalAgrees
      <4>2. journal' = journal \/ journal'.phase = "back"
        BY <1>t, <3>1, PhaseKeeps DEF Recover
      <4>3. pc'[p] \in {"revalidate", "replay", "undo", "restore", "finish"}
            /\ plan' = plan /\ outcome' = outcome
        BY <1>t, <3>1 DEF Recover, Goto
      <4>4. /\ pc'[p] = "revalidate" => journal' = NoJournal
            /\ pc'[p] # "revalidate" => journal # NoJournal
            /\ pc'[p] = "replay" => journal' = journal /\ journal.phase = "forward"
            /\ pc'[p] = "finish" => journal' = journal /\ journal.phase = "done"
            /\ pc'[p] \in {"undo", "restore"} => journal'.phase = "back"
        BY <1>t, <3>1, JournalClosed, PhaseKeeps DEF Recover, Goto
      <4>5. pc[p] = "lock"
        BY <3>1 DEF Recover
      <4> QED
        BY <1>t, <2>1, <2>2, <4>1, <4>2, <4>3, <4>4, <4>5
    <3>2. CASE Stopped(p) \/ CommitFails(p)
      <4>1. pc'[p] = "undo" /\ plan' = plan /\ outcome' = outcome
            /\ pc[p] \in {"apply", "replay"} /\ journal'.phase = "back"
        BY <1>t, <3>2, PhaseKeeps
        DEF Stopped, CommitFails, StartUndo, Goto, Forwarding
      <4> QED
        BY <1>t, <2>1, <2>2, <4>1
    <3>3. CASE Decide(p)
      <4>1. /\ pc'[p] = IF pc[p] = "apply" THEN "clean" ELSE "finish"
            /\ plan' = plan /\ outcome' = outcome /\ pc[p] \in {"apply", "replay"}
            /\ journal'.phase = "done"
        BY <1>t, <3>3, PhaseKeeps DEF Decide, Goto, Forwarding
      <4> QED
        BY <1>t, <2>1, <2>2, <4>1
    <3> QED
      BY <1>3, <3>1, <3>2, <3>3 DEF Turning
  <2> QED
    BY <2>3, <2>4
<1>4. ASSUME NEW p \in Projects, Closing(p) PROVE InstallsAgree'
  <2>1. /\ UNCHANGED <<marker, pins>>
        /\ \A q \in Projects \ {p} :
             /\ pc'[q] = pc[q] /\ plan'[q] = plan[q] /\ outcome'[q] = outcome[q]
             /\ pc[q] \notin Locked
    BY <1>t, <1>4, TurningKeeps DEF store
  <2>2. journal' \in {journal, NoJournal}
    BY <1>4 DEF Closing, Clean, RolledBack
  <2>3. \A q \in Projects \ {p} : InstallAgrees(q)'
    BY <1>t, <2>1, <2>2, JournalClosed DEF Locked
  <2>4. InstallAgrees(p)'
    <3>1. CASE End(p, "failed")
      BY <1>t, <2>1, <2>2, <3>1, JournalClosed DEF End, Goto
    <3>2. CASE ~End(p, "failed")
      <4>1. /\ journal' = NoJournal /\ UNCHANGED <<home, attempt, plan, outcome>>
            /\ pc'[p] = IF pc[p] = "clean" THEN "publish" ELSE "revalidate"
            /\ pc[p] \in {"clean", "finish", "restore"}
        BY <1>t, <1>4, <3>2 DEF Closing, Clean, RolledBack, Backing, Goto
      <4>2. pc[p] = "clean" => marker[p] = plan[p].commit
        BY <1>t DEF JournalAgrees, InOrder, OwnerAgrees, At, Classes
      <4> QED
        BY <1>t, <2>1, <4>1, <4>2, JournalClosed
    <3> QED
      BY <3>1, <3>2
  <2> QED
    BY <2>3, <2>4
<1>5. ASSUME NEW p \in Projects, Revalidate(p) PROVE InstallsAgree'
  BY <1>t, <1>5 DEF Revalidate, Retry, End, Goto
<1>6. ASSUME NEW p \in Projects, Prepare(p) PROVE InstallsAgree'
  <2>1. UNCHANGED <<marker, pins>> /\ journal = NoJournal
    BY <1>t, <1>6 DEF Prepare, store
  <2>2. \A q \in Projects \ {p} :
          /\ pc'[q] = pc[q] /\ plan'[q] = plan[q] /\ outcome'[q] = outcome[q]
          /\ pc[q] \notin Locked
    BY <1>t, <1>6 DEF Prepare, End, Goto, HomeHeld, Locked
  <2>3. journal' \in {journal, JournalOf(p)}
    BY <1>6 DEF Prepare
  <2>4. \A q \in Projects \ {p} : InstallAgrees(q)'
    BY <1>t, <2>1, <2>2, <2>3, JournalOpened DEF Locked
  <2>5. InstallAgrees(p)'
    <3>1. CASE plan[p].commit \notin snapshots
      BY <1>t, <1>6, <3>1 DEF Prepare, End, Goto
    <3>2. CASE plan[p].commit \in snapshots /\ Targets(p) = {}
      BY <1>t, <1>6, <2>1, <3>2, ClassTargeted DEF Prepare, Goto
    <3>3. CASE plan[p].commit \in snapshots /\ Targets(p) # {}
      <4>1. pc'[p] = "apply" /\ journal' = JournalOf(p) /\ outcome' = outcome /\ plan' = plan
            /\ outcome[p] = "running"
        BY <1>t, <1>6, <3>3 DEF Prepare, Goto
      <4> QED
        BY <2>1, <4>1, JournalOpened
    <3> QED
      BY <3>1, <3>2, <3>3
  <2> QED
    BY <2>4, <2>5
<1>7. ASSUME NEW p \in Projects, Vanish(p) PROVE InstallsAgree'
  BY <1>t, <1>7 DEF Vanish
<1>8. CASE Sweeping
  BY <1>t, <1>8, SweepingKeeps DEF SameJournal, Locked
<1> QED
  BY <1>0, <1>1, <1>2, <1>3, <1>4, <1>5, <1>6, <1>7, <1>8, NextCases

\* The journal a transaction works on is one that some project has opened.
LEMMA OwnerOpen ==
  ASSUME HomeInv, NEW p \in Projects, Moving(p)
  PROVE  /\ journal.owner \in Projects /\ OwnerAgrees(journal.owner)
         /\ journal.phase \in {"forward", "back"}
<1>1. pc[p] \in {"apply", "replay", "undo", "restore"}
  BY MovingKeeps DEF HomeInv, RuntimeInvariant
<1>2. journal.owner \in Projects \union {Nobody}
  BY DEF HomeInv, RuntimeInvariant, TypeOK, JournalType
<1> QED
  BY <1>1, <1>2
  DEF HomeInv, HomeAgrees, InstallsAgree, InstallAgrees, JournalAgrees

\* One step keeps the open journal and the marker of its owner in agreement.
LEMMA JournalStep ==
  ASSUME HomeInv, [Next]_vars
  PROVE  JournalAgrees'
<1> USE NamesAssumption
<1>t. /\ TypeOK /\ HomeHeld /\ InstallsAgree /\ JournalAgrees
      /\ marker \in [Projects -> MaybeCommit] /\ journal \in JournalType
  BY DEF HomeInv, RuntimeInvariant, HomeAgrees, TypeOK, StoreTyped
<1> USE DEF JournalAgrees, OwnerAgrees, InOrder, At
<1>0. CASE UNCHANGED <<marker, journal>>
  BY <1>t, <1>0
<1>1. CASE journal' = NoJournal
  BY <1>1, JournalClosed DEF Classes
<1>2. ASSUME NEW p \in Projects, Moving(p) PROVE JournalAgrees'
  <2>1. /\ journal.owner \in Projects /\ OwnerAgrees(journal.owner)
        /\ journal.phase \in {"forward", "back"}
    BY <1>2, OwnerOpen
  <2>2. SameJournal /\ journal'.phase = journal.phase /\ journal'.lost = journal.lost
    BY <1>t, <1>2, MovingKeeps
  <2>3. InOrder'
    <3>1. CASE \/ DisplaceContext(p) \/ PlaceContext(p) \/ PlaceRuntime(p)
               \/ DisplaceRemovals(p) \/ SaveRemovals(p)
      <4>1. PICK class \in Classes \ {"consumers"}, to \in {"out", "new"} :
              Move(class, to) /\ At(class, {"old", "out"})
        BY <3>1
        DEF DisplaceContext, PlaceContext, PlaceRuntime, DisplaceRemovals,
            SaveRemovals, Turn, Classes
      <4>2. journal'.at["consumers"] = journal.at["consumers"]
            /\ ~At("consumers", {"out", "new"})
        BY <1>t, <4>1, MoveKeeps DEF Classes
      <4>3. journal'.at["removal"] \in {journal.at["removal"], "out", "new"}
        BY <1>t, <4>1, MoveKeeps DEF Classes
      <4>4. "removal" \in journal.lost =>
              journal.phase = "back" \/ journal.at["removal"] \in {"out", "new"}
        BY <1>t
      <4> QED
        BY <2>1, <2>2, <4>2, <4>3, <4>4
    <3>2. CASE \/ RestoreRemovals(p) \/ WithdrawRuntime(p) \/ WithdrawContext(p)
               \/ RestoreContext(p)
      <4>1. PICK class \in Classes \ {"consumers"}, to \in {"old", "out"} :
              Move(class, to) /\ UndoTurn(class)
        BY <3>2
        DEF RestoreRemovals, WithdrawRuntime, WithdrawContext, RestoreContext, Classes
      <4>2. At("consumers", {"none", "old"})
        BY <4>1 DEF UndoTurn, Earlier, Classes
      <4>3. journal'.at["consumers"] = journal.at["consumers"]
        BY <1>t, <4>1, MoveKeeps DEF Classes
      <4>4. journal.phase = "back"
        BY <1>t, <3>2
        DEF RestoreRemovals, WithdrawRuntime, WithdrawContext, RestoreContext,
            Backing, InstallsAgree, InstallAgrees
      <4> QED
        BY <2>1, <2>2, <4>2, <4>3, <4>4
    <3>3. CASE \/ DisplaceConsumers(p) \/ PlaceConsumers(p) \/ WithdrawConsumers(p)
               \/ RestoreConsumers(p)
      <4>1. PICK to \in {"old", "out", "new"} : Move("consumers", to)
        BY <3>3
        DEF DisplaceConsumers, PlaceConsumers, WithdrawConsumers, RestoreConsumers
      <4>2. \A class \in Classes \ {"consumers"} :
              journal.at[class] \in {"none", "new"}
        BY <1>t, <3>3
        DEF DisplaceConsumers, PlaceConsumers, WithdrawConsumers, RestoreConsumers,
            Turn, UndoTurn, Earlier, Classes
      <4>3. \A class \in Classes \ {"consumers"} :
              journal'.at[class] = journal.at[class]
        BY <1>t, <4>1, MoveKeeps DEF Classes
      <4> QED
        BY <1>t, <2>1, <2>2, <4>2, <4>3 DEF Classes
    <3> QED
      BY <1>2, <3>1, <3>2, <3>3 DEF Moving
  <2>4. OwnerAgrees(journal.owner)'
    <3>1. CASE DisplaceContext(p) \/ WithdrawContext(p)
      <4>1. Move("context", "out") /\ marker'[journal.owner] = NoCommit
        BY <1>t, <2>1, <3>1 DEF DisplaceContext, WithdrawContext
      <4> QED
        BY <1>t, <2>1, <2>2, <4>1, MoveKeeps DEF SameJournal, Classes
    <3>2. CASE PlaceContext(p)
      <4>1. Move("context", "new") /\ marker'[journal.owner] = journal.new
        BY <1>t, <2>1, <3>2 DEF PlaceContext, MarkerMoves
      <4> QED
        BY <1>t, <2>1, <2>2, <4>1, MoveKeeps DEF SameJournal, Classes
    <3>3. CASE RestoreContext(p)
      <4>1. Move("context", "old") /\ marker'[journal.owner] = journal.old
        BY <1>t, <2>1, <3>3 DEF RestoreContext, MarkerMoves
      <4> QED
        BY <1>t, <2>1, <2>2, <4>1, MoveKeeps DEF SameJournal, Classes
    <3>4. CASE ~(\/ DisplaceContext(p) \/ WithdrawContext(p) \/ PlaceContext(p)
                 \/ RestoreContext(p))
      <4>1. /\ marker' = marker
            /\ \E class \in Classes \ {"context"}, to \in {"old", "out", "new"} :
                 Move(class, to)
        BY <1>2, <3>4
        DEF Moving, PlaceRuntime, DisplaceRemovals, SaveRemovals, DisplaceConsumers,
            PlaceConsumers, WithdrawConsumers, RestoreConsumers, RestoreRemovals,
            WithdrawRuntime, store, Classes
      <4> QED
        BY <1>t, <2>1, <2>2, <4>1, MoveKeeps DEF SameJournal, Classes
    <3> QED
      BY <3>1, <3>2, <3>3, <3>4
  <2> QED
    BY <2>1, <2>2, <2>3, <2>4 DEF SameJournal
<1>3. ASSUME NEW p \in Projects, Turning(p) PROVE JournalAgrees'
  <2>1. marker' = marker
    BY <1>t, <1>3, TurningKeeps DEF store
  <2>2. CASE journal' = journal
    BY <1>t, <2>1, <2>2
  <2>3. CASE journal' # journal
    <3>1. \E phase \in {"back", "done"} :
            /\ journal' = [journal EXCEPT !.phase = phase]
            /\ phase = "done" => \A class \in Classes : At(class, {"none", "new"})
            /\ phase = "done" => pc[p] \in {"apply", "replay"}
      BY <1>3, <2>3
      DEF Turning, Recover, Stopped, CommitFails, Decide, StartUndo, Forwarding
    <3>3. pc[p] \in {"apply", "replay"} => journal.phase = "forward"
      BY <1>t DEF InstallsAgree, InstallAgrees
    <3>2. journal # NoJournal
      <4>1. pc[p] \in {"apply", "replay"} => journal.owner # Nobody
        BY <1>t DEF InstallsAgree, InstallAgrees
      <4> QED
        BY <1>3, <2>3, <4>1, JournalClosed
        DEF Turning, Recover, Stopped, CommitFails, Decide, Forwarding
    <3> QED
      BY <1>t, <2>1, <3>1, <3>2, <3>3, PhaseKeeps DEF SameJournal
  <2> QED
    BY <2>2, <2>3
<1>4. ASSUME NEW p \in Projects, Prepare(p) PROVE JournalAgrees'
  <2>1. marker' = marker
    BY <1>4 DEF Prepare, store
  <2>2. CASE journal' = journal
    BY <1>t, <2>1, <2>2
  <2>3. CASE journal' # journal
    <3>1. journal' = JournalOf(p) /\ plan[p].commit \in Commits
      BY <1>t, <1>4, <2>3 DEF Prepare, TypeOK, StoreTyped
    <3>2. Spares(p)
      BY <1>4 DEF Prepare, HomeInv, HomeAgrees, RemovalsAgree, PlanAgrees
    <3>3. "context" \in Targets(p) <=> marker[p] # plan[p].commit
      BY ClassTargeted
    <3>4. /\ journal'.owner = p /\ journal'.old = marker[p]
          /\ journal'.new = plan[p].commit /\ journal'.removals = plan[p].removals
          /\ journal'.sure = plan[p].sure /\ journal'.phase = "forward"
          /\ journal'.lost = {}
          /\ \A class \in Classes :
               journal'.at[class] = IF class \in Targets(p) THEN "old" ELSE "none"
      BY <3>1, JournalOpened
    <3>5. OwnerAgrees(p)'
      BY <2>1, <3>1, <3>2, <3>3, <3>4 DEF Spares, Classes
    <3>6. InOrder'
      BY <3>4 DEF Classes
    <3> QED
      BY <3>4, <3>5, <3>6
  <2> QED
    BY <2>2, <2>3
<1>5. ASSUME NEW p \in Projects, Vanish(p) PROVE JournalAgrees'
  BY <1>t, <1>5 DEF Vanish
<1>6. CASE GcSidecars
  <2>1. CASE journal.owner # Nobody
    BY <1>t, <1>6, <2>1, LosesKeeps DEF SameJournal, GcSidecars, store, RuntimeSidecars
  <2>2. CASE journal.owner = Nobody
    <3>1. journal = NoJournal
      BY <1>t, <2>2
    <3>2. RuntimeSidecars = {}
      BY <3>1, JournalClosed DEF RuntimeSidecars, Classes
    <3>3. journal' = NoJournal
      BY <1>6, <3>1, <3>2 DEF GcSidecars, NoJournal
    <3> QED
      BY <1>1, <3>3
  <2> QED
    BY <2>1, <2>2
<1> QED
  <2>1. ASSUME NEW p \in Projects, Planning(p) PROVE UNCHANGED <<marker, journal>>
    BY <1>t, <2>1, PlanningKeeps
  <2>2. ASSUME NEW p \in Projects, Closing(p)
        PROVE  marker' = marker /\ journal' \in {journal, NoJournal}
    BY <2>2 DEF Closing, Clean, RolledBack, store
  <2>3. ASSUME NEW p \in Projects, Revalidate(p) PROVE UNCHANGED <<marker, journal>>
    BY <2>3 DEF Revalidate
  <2>4. Sweeping /\ ~GcSidecars => UNCHANGED <<marker, journal>>
    BY DEF Sweeping, Collect, GcLock, GcMark, GcTruncate, GcRewrite, GcRuntime,
           GcSnapshots, GcBuilds, CollectorCrash, store
  <2>5. UNCHANGED vars => UNCHANGED <<marker, journal>>
    BY DEF vars, store
  <2> QED
    BY <1>0, <1>1, <1>2, <1>3, <1>4, <1>5, <1>6, <2>1, <2>2, <2>3, <2>4, <2>5,
       NextCases

\* Unless it is in doubt, the collector marks what the markers of the known
\* checkouts name and what the journal can restore.
LEMMA MarkedHome ==
  ASSUME GcMark, gc' # Asleep
  PROVE  /\ registry # Torn /\ ~RootUncertain(Configured \union LoadConsumers)
         /\ gc'.alive = {q \in LoadConsumers : marker[q] # NoCommit}
         /\ gc'.pc = IF gc'.alive = LoadConsumers THEN "runtime" ELSE "truncate"
         /\ gc'.refs = MarkersOf(Configured \union LoadConsumers)
                         \union JournalReferences
         /\ gc'.blind <=> registry = Missing /\ At("consumers", {"out"})
<1>1. registry # Torn /\ ~RootUncertain(Configured \union LoadConsumers)
  BY DEF GcMark, GcEnd
<1>2. gc' = [pc |-> IF {q \in LoadConsumers : marker[q] # NoCommit} = LoadConsumers
                   THEN "runtime" ELSE "truncate",
             refs |-> MarkersOf(Configured \union LoadConsumers)
                        \union JournalReferences,
             alive |-> {q \in LoadConsumers : marker[q] # NoCommit},
             blind |-> registry = Missing /\ At("consumers", {"out"})]
  BY <1>1 DEF GcMark, GcEnd
<1> QED
  BY <1>1, <1>2

\* Nothing heals a truncated registry in the collector's memory.
LEMMA TornStays ==
  ASSUME TypeOK, HomeHeld, [Next]_vars, torn
  PROVE  torn'
<1>1. UNCHANGED vars => torn' = torn
  BY DEF vars, history
<1>2. \A p \in Projects :
        Revalidate(p) \/ Prepare(p) \/ Vanish(p) => torn' = torn
  BY DEF Revalidate, Prepare, Vanish, history
<1>3. \A p \in Projects : Turning(p) \/ Closing(p) => torn' = torn
  BY TurningKeeps DEF history
<1>4. \A p \in Projects : Planning(p) => torn' = torn
  BY PlanningKeeps DEF history
<1>5. \A p \in Projects : Moving(p) => torn' = torn
  BY MovingKeeps
<1> QED
  BY <1>1, <1>2, <1>3, <1>4, <1>5, SweepingKeeps, NextCases

\* One step keeps every checkout with a marker listed: an install lists itself
\* and keeps who is listed, a registry set aside comes back or is replaced by
\* one with everybody in it, the collector drops only who has no marker, and
\* is in doubt about the owner of a journal that may give it one back.
LEMMA ConsumersStep ==
  ASSUME HomeInv, [Next]_vars
  PROVE  ConsumersAgree'
<1> SUFFICES ASSUME ~torn' PROVE ConsumersAgree'
  BY DEF ConsumersAgree
<1>t. /\ TypeOK /\ HomeHeld /\ InstallsAgree /\ JournalAgrees /\ ConsumersAgree
      /\ journal \in JournalType /\ marker \in [Projects -> MaybeCommit]
      /\ registry \in Registries /\ gc \in CollectorType
  BY DEF HomeInv, RuntimeInvariant, HomeAgrees, TypeOK, StoreTyped
<1>n. ~torn
  BY <1>t, TornStays
<1>f. \A ps \in SUBSET Projects : Load(ps) = ps /\ ps # Torn /\ ps # Missing
  BY NamesAssumption DEF Load
<1> USE NamesAssumption, <1>n
<1> USE DEF ConsumersAgree, OwnerListed, BystanderListed, Listed, LoadConsumers, At, Aside
<1>0. CASE UNCHANGED <<marker, registry, journal, gc>>
  BY <1>t, <1>0 DEF Relists
<1>1. ASSUME NEW p \in Projects, Moving(p) PROVE ConsumersAgree'
  <2>1. /\ gc' = gc /\ ~Relists /\ registry # Torn /\ SameJournal
        /\ \A q \in Projects : q # journal.owner => marker'[q] = marker[q]
    BY <1>t, <1>1, MovingKeeps DEF Relists
  <2>2. journal.owner # Nobody /\ journal.after \in SUBSET Projects
    BY <1>t, <1>1, OwnerOpen DEF JournalType
  <2>3. CASE DisplaceConsumers(p) \/ WithdrawConsumers(p)
    <3>1. Move("consumers", "out") /\ registry' = Missing
      BY <2>3 DEF DisplaceConsumers, WithdrawConsumers
    <3> QED
      BY <1>t, <2>1, <2>2, <3>1, MoveKeeps DEF SameJournal, Relists, Classes
  <2>4. CASE PlaceConsumers(p)
    <3>1. Move("consumers", "new") /\ registry' = journal.after
      BY <2>4 DEF PlaceConsumers
    <3> QED
      BY <1>t, <1>f, <2>1, <2>2, <3>1, MoveKeeps DEF SameJournal, Relists, Classes
  <2>5. CASE RestoreConsumers(p)
    <3>1. Move("consumers", "old") /\ registry' = journal.before
      BY <2>5 DEF RestoreConsumers
    <3> QED
      BY <1>t, <2>1, <2>2, <3>1, MoveKeeps DEF SameJournal, Relists, Classes
  <2>6. CASE ~(\/ DisplaceConsumers(p) \/ WithdrawConsumers(p) \/ PlaceConsumers(p)
               \/ RestoreConsumers(p))
    <3>1. /\ registry' = registry
          /\ \E class \in Classes \ {"consumers"}, to \in {"old", "out", "new"} :
               Move(class, to)
      BY <1>1, <2>6
      DEF Moving, DisplaceContext, PlaceContext, PlaceRuntime, DisplaceRemovals,
          SaveRemovals, RestoreRemovals, WithdrawRuntime, WithdrawContext,
          RestoreContext, store, Classes
    <3>2. journal'.at["consumers"] = journal.at["consumers"]
      BY <1>t, <3>1, MoveKeeps DEF Classes
    <3> QED
      BY <1>t, <2>1, <2>2, <3>1, <3>2 DEF SameJournal, Relists
  <2> QED
    BY <2>3, <2>4, <2>5, <2>6
<1>2. ASSUME NEW p \in Projects, Turning(p) PROVE ConsumersAgree'
  <2>1. UNCHANGED <<marker, registry, gc>>
    BY <1>t, <1>2, TurningKeeps DEF store
  <2>2. journal' = journal \/ \E phase \in {"forward", "back", "done"} :
                               journal' = [journal EXCEPT !.phase = phase]
    BY <1>2 DEF Turning, Recover, Stopped, CommitFails, Decide, StartUndo
  <2>3. SameJournal /\ journal'.at = journal.at
    BY <1>t, <2>2, PhaseKeeps DEF SameJournal
  <2> QED
    BY <1>t, <2>1, <2>3 DEF SameJournal, Relists
<1>3. ASSUME NEW p \in Projects, Closing(p) PROVE ConsumersAgree'
  <2>1. UNCHANGED <<marker, registry, gc>>
    BY <1>t, <1>3, TurningKeeps DEF store
  <2>2. CASE journal' = journal
    BY <1>0, <2>1, <2>2
  <2>3. CASE journal' # journal
    <3>1. /\ journal' = NoJournal /\ pc[p] \in {"clean", "finish", "undo", "restore"}
          /\ \/ \A class \in Classes : At(class, {"none", "old"})
             \/ pc[p] \in {"clean", "finish"}
      BY <1>3, <2>3 DEF Closing, Clean, RolledBack, Backing
    <3>2. /\ \/ \A class \in Classes : At(class, {"none", "old"})
             \/ \A class \in Classes : At(class, {"none", "new"})
      BY <1>t, <3>1 DEF InstallsAgree, InstallAgrees, JournalAgrees, InOrder
    <3>3. gc.pc = "idle" /\ registry # Torn /\ ~Aside
      BY <1>t, <3>1, <3>2 DEF HomeHeld, Locked, Classes
    <3>4. ASSUME NEW q \in Projects \ Configured, marker[q] # NoCommit
          PROVE  Listed(q)
      <4>1. CASE q # journal.owner
        BY <1>t, <3>3, <3>4, <4>1
      <4>2. CASE q = journal.owner
        <5>1. OwnerAgrees(q) /\ OwnerListed(q)
          BY <1>t, <4>2 DEF JournalAgrees
        <5> QED
          BY <3>2, <3>4, <5>1 DEF OwnerAgrees, Classes
      <4> QED
        BY <4>1, <4>2
    <3> QED
      BY <1>f, <2>1, <3>1, <3>3, <3>4, JournalClosed DEF Relists, Classes
  <2> QED
    BY <2>2, <2>3
<1>4. ASSUME NEW p \in Projects, Prepare(p) PROVE ConsumersAgree'
  <2>1. UNCHANGED <<marker, registry, gc>>
    BY <1>4 DEF Prepare, store
  <2>2. CASE journal' = journal
    BY <1>0, <2>1, <2>2
  <2>3. CASE journal' # journal
    <3>1. journal' = JournalOf(p)
      BY <1>4, <2>3 DEF Prepare
    <3>2. /\ gc.pc = "idle" /\ registry # Torn
          /\ journal = NoJournal /\ journal.owner = Nobody /\ ~Aside
      BY <1>t, <1>4, JournalClosed
      DEF Prepare, HomeHeld, Locked, InstallsAgree, InstallAgrees, Classes
    <3>3. /\ journal'.owner = p /\ journal'.old = marker[p]
          /\ journal'.before = registry /\ journal'.after = DesiredConsumers(p)
          /\ journal'.at["consumers"] = IF registry # DesiredConsumers(p) THEN "old"
                                        ELSE "none"
      BY <3>1, JournalOpened, ClassTargeted DEF Classes
    <3>4. DesiredConsumers(p) \in SUBSET Projects
      BY <1>t, ReadersTyped DEF DesiredConsumers
    <3>5. \A q \in Projects \ Configured : marker[q] # NoCommit => q \in Load(registry)
      BY <1>t, <3>2
    <3>6. \A q \in Projects \ Configured :
            marker[q] # NoCommit \/ q = p => q \in DesiredConsumers(p)
      BY <3>5 DEF DesiredConsumers
    <3> QED
      BY <1>f, <2>1, <3>2, <3>3, <3>4, <3>5, <3>6 DEF Relists
  <2> QED
    BY <2>2, <2>3
<1>5. ASSUME NEW p \in Projects, Vanish(p) PROVE ConsumersAgree'
  BY <1>t, <1>5 DEF Vanish, Relists
<1>6. CASE GcMark
  <2>1. UNCHANGED <<marker, registry, journal>> /\ gc.pc = "mark"
    BY <1>6 DEF GcMark, Collecting, store
  <2>2. CASE gc' = Asleep
    BY <1>t, <2>1, <2>2 DEF Asleep, Relists
  <2>3. CASE gc' # Asleep
    <3>1. /\ registry # Torn /\ ~RootUncertain(Configured \union Load(registry))
          /\ gc'.alive = {q \in Load(registry) : marker[q] # NoCommit}
          /\ gc'.pc = IF gc'.alive = Load(registry) THEN "runtime" ELSE "truncate"
      BY <1>6, <2>3, MarkedHome
    <3>2. Aside => ~Relists'
      BY <1>t, <3>1 DEF Relists, Load
    <3>3. ASSUME NEW q \in Projects, q = journal.owner, q \in Load(registry)
          PROVE  marker[q] # NoCommit
      <4>1. OwnerAgrees(q)
        BY <1>t, <3>3 DEF JournalAgrees
      <4>2. journal.at["context"] \in {"none", "old", "out", "new"}
        BY <1>t DEF JournalType, Classes
      <4> QED
        BY <3>1, <3>3, <4>1, <4>2 DEF RootUncertain, ContextSidecar, OwnerAgrees
    <3> QED
      BY <1>t, <2>1, <3>1, <3>2, <3>3 DEF Relists
  <2> QED
    BY <2>2, <2>3
<1>7. CASE GcTruncate
  <2>1. /\ UNCHANGED <<marker, journal>> /\ registry' = Torn /\ gc.pc = "truncate"
        /\ gc'.pc = "rewrite" /\ gc'.alive = gc.alive
    BY <1>t, <1>7 DEF GcTruncate, Collecting, GcGoto, CollectorType
  <2> QED
    BY <1>t, <2>1 DEF Relists
<1>8. CASE GcRewrite
  <2>1. /\ UNCHANGED <<marker, journal>> /\ registry' = gc.alive /\ gc.pc = "rewrite"
        /\ gc'.pc = "runtime" /\ gc.alive \in SUBSET Projects
    BY <1>t, <1>8 DEF GcRewrite, Collecting, GcGoto, CollectorType
  <2> QED
    BY <1>t, <1>f, <2>1 DEF Relists
<1>9. CASE GcSidecars
  <2>1. UNCHANGED <<marker, registry>> /\ gc.pc = "runtime"
        /\ gc'.pc \in {"snapshots", "builds"}
    BY <1>t, <1>9 DEF GcSidecars, Collecting, GcGoto, CollectorType, store
  <2> QED
    BY <1>t, <1>9, <2>1, LosesKeeps DEF SameJournal, Relists
<1>10. CASE GcLock \/ GcRuntime \/ GcSnapshots \/ GcBuilds
  <2>1. UNCHANGED <<marker, registry, journal>> /\ gc.pc # "rewrite"
        /\ gc'.pc \notin {"truncate", "rewrite"}
    BY <1>t, <1>10
    DEF GcLock, GcRuntime, GcSnapshots, GcBuilds, Collecting, GcGoto, GcEnd, Asleep,
        CollectorType, store
  <2> QED
    BY <1>t, <2>1 DEF Relists
<1>11. CASE CollectorCrash
  BY <1>t, <1>11 DEF CollectorCrash, GcEnd, Asleep, Relists, store
<1> QED
  <2>1. ASSUME NEW p \in Projects, Planning(p) \/ Revalidate(p)
        PROVE  UNCHANGED <<marker, registry, journal, gc>>
    BY <1>t, <2>1, PlanningKeeps DEF Revalidate
  <2>2. UNCHANGED vars => UNCHANGED <<marker, registry, journal, gc>>
    BY DEF vars, store
  <2> QED
    BY <1>0, <1>1, <1>2, <1>3, <1>4, <1>5, <1>6, <1>7, <1>8, <1>9, <1>10, <1>11,
       <2>1, <2>2, NextCases
    DEF Sweeping, Collect

\* Whoever works on the journal has the lock, and the collector rests.
LEMMA LockedOut ==
  ASSUME TypeOK, HomeHeld, NEW p \in Projects,
         \/ Moving(p) \/ Turning(p) \/ Closing(p) \/ Revalidate(p) \/ Prepare(p)
  PROVE  gc.pc = "idle" /\ gc' = gc /\ torn' = torn /\ overlooked' = overlooked
<1>1. CASE Moving(p)
  BY <1>1, MovingKeeps
<1>2. CASE Turning(p) \/ Closing(p)
  BY <1>2, TurningKeeps, NamesAssumption DEF HomeHeld, history
<1>3. CASE Revalidate(p) \/ Prepare(p)
  BY <1>3, NamesAssumption DEF HomeHeld, Locked, Revalidate, Prepare, history
<1> QED
  BY <1>1, <1>2, <1>3

\* One step keeps what a sweep has marked enough for every marker there is or
\* may be again, but for a sweep that found the registry set aside.
LEMMA SweepStep ==
  ASSUME HomeInv, [Next]_vars
  PROVE  SweepAgrees'
<1>t. /\ TypeOK /\ HomeHeld /\ JournalAgrees /\ ConsumersAgree /\ SweepAgrees
      /\ journal \in JournalType /\ marker \in [Projects -> MaybeCommit]
      /\ gc \in CollectorType
  BY DEF HomeInv, RuntimeInvariant, HomeAgrees, TypeOK, StoreTyped
<1> USE NamesAssumption
<1> USE DEF SweepAgrees, Sweeps, Marked, Forgotten, At
<1>0. CASE UNCHANGED <<marker, journal, gc, torn>>
  BY <1>t, <1>0
<1>1. ASSUME NEW p \in Projects,
             \/ Moving(p) \/ Turning(p) \/ Closing(p) \/ Revalidate(p) \/ Prepare(p)
      PROVE  SweepAgrees'
  BY <1>t, <1>1, LockedOut
<1>2. ASSUME NEW p \in Projects, Vanish(p) PROVE SweepAgrees'
  BY <1>t, <1>2 DEF Vanish, history
<1>3. CASE GcMark
  <2>1. UNCHANGED <<marker, journal, torn>> /\ gc.pc = "mark"
    BY <1>3 DEF GcMark, Collecting, store, history
  <2>2. CASE gc' = Asleep
    BY <2>1, <2>2 DEF Asleep
  <2>3. CASE gc' # Asleep
    <3>1. /\ registry # Torn
          /\ gc'.refs = MarkersOf(Configured \union LoadConsumers)
                          \union JournalReferences
          /\ gc'.blind <=> registry = Missing /\ Aside
      BY <1>3, <2>3, MarkedHome DEF Aside
    <3>2. ASSUME NEW p \in Configured \union LoadConsumers, marker[p] # NoCommit
          PROVE  marker[p] \in gc'.refs
      BY <3>1, <3>2 DEF MarkersOf
    <3>3. ASSUME NEW p \in Projects, p = journal.owner, ~At("context", {"none"})
          PROVE  Marked(p)'
      <4>1. JournalReferences = {journal.old, journal.new} \ {NoCommit}
        BY <3>3 DEF JournalReferences
      <4>2. journal.at["context"] \in {"none", "old", "out", "new"}
        BY <1>t DEF JournalType, Classes
      <4>3. marker[p] \in {journal.old, journal.new, NoCommit}
        BY <1>t, <3>3, <4>2 DEF JournalAgrees, OwnerAgrees
      <4> QED
        BY <2>1, <3>1, <3>3, <4>1, <4>3
    <3>4. ASSUME NEW p \in Projects, ~Forgotten(p), marker[p] # NoCommit,
                 p # journal.owner \/ At("context", {"none"})
          PROVE  Marked(p)'
      <4>1. p \in Configured \union LoadConsumers \/ Aside
        <5>1. CASE p \in Configured
          BY <5>1
        <5>2. CASE p \notin Configured /\ p # journal.owner
          BY <1>t, <3>1, <3>4, <5>2 DEF ConsumersAgree, BystanderListed, Listed
        <5>3. CASE p \notin Configured /\ p = journal.owner
          <6>1. OwnerListed(p) /\ journal.old # NoCommit
            BY <1>t, <3>4, <5>3 DEF ConsumersAgree, JournalAgrees, OwnerAgrees
          <6>2. journal.at["consumers"] \in {"none", "old", "out", "new"}
            BY <1>t DEF JournalType, Classes
          <6> QED
            BY <3>1, <6>1, <6>2 DEF OwnerListed, Listed, Aside
        <5> QED
          BY <5>1, <5>2, <5>3
      <4>2. p \notin Configured /\ Aside => gc'.blind
        BY <1>t, <3>1, <3>4 DEF ConsumersAgree
      <4> QED
        BY <2>1, <3>2, <3>4, <4>1, <4>2
    <3> QED
      BY <2>1, <3>3, <3>4
  <2> QED
    BY <2>2, <2>3
<1>4. CASE GcTruncate \/ GcRewrite \/ GcSnapshots \/ GcRuntime
  <2>1. /\ UNCHANGED <<marker, journal, torn>> /\ Sweeps
        /\ gc'.refs = gc.refs /\ gc'.blind = gc.blind
    BY <1>t, <1>4
    DEF GcTruncate, GcRewrite, GcSnapshots, GcRuntime, Collecting, GcGoto,
        CollectorType, history
  <2> QED
    BY <1>t, <2>1
<1>5. CASE GcSidecars
  <2>1. /\ UNCHANGED <<marker, torn>> /\ Sweeps
        /\ gc'.refs = gc.refs /\ gc'.blind = gc.blind
    BY <1>t, <1>5 DEF GcSidecars, Collecting, GcGoto, CollectorType, store, history
  <2> QED
    BY <1>t, <1>5, <2>1, LosesKeeps DEF SameJournal
<1>6. CASE GcLock \/ GcBuilds \/ CollectorCrash
  <2>1. gc'.pc \in {"idle", "mark"}
    BY <1>t, <1>6
    DEF GcLock, GcBuilds, CollectorCrash, GcGoto, GcEnd, Asleep, CollectorType
  <2> QED
    BY <2>1
<1> QED
  <2>1. ASSUME NEW p \in Projects, Planning(p) PROVE UNCHANGED <<marker, journal, gc, torn>>
    BY <1>t, <2>1, PlanningKeeps DEF history
  <2>2. UNCHANGED vars => UNCHANGED <<marker, journal, gc, torn>>
    BY DEF vars, store, history
  <2> QED
    BY <1>0, <1>1, <1>2, <1>3, <1>4, <1>5, <1>6, <2>1, <2>2, NextCases
    DEF Sweeping, Collect

\* One step keeps the builds: a commit published what it names, and the sweep
\* spares what it has marked or says what it overlooked.
LEMMA BuildsStep ==
  ASSUME HomeInv, [Next]_vars
  PROVE  BuildsAgree'
<1>t. /\ TypeOK /\ HomeHeld /\ JournalAgrees /\ SweepAgrees /\ BuildsAgree
      /\ InstallsAgree
      /\ journal \in JournalType /\ marker \in [Projects -> MaybeCommit]
      /\ plan \in [Projects -> PlanType] /\ pc \in [Projects -> Steps]
      /\ builds \in [Commits -> {"absent", "fresh", "old"}]
  BY DEF HomeInv, RuntimeInvariant, HomeAgrees, TypeOK, StoreTyped, ProcessesTyped
<1> USE NamesAssumption
<1> USE DEF BuildsAgree, BuildAgrees, Forgotten
<1>0. ASSUME UNCHANGED <<marker, builds>>, torn => torn',
             overlooked \subseteq overlooked',
             \/ journal'.owner = Nobody
             \/ /\ journal'.owner = journal.owner /\ journal'.old = journal.old
                /\ journal'.new = journal.new,
             \A q \in Projects : pc'[q] = "prepare" =>
               pc[q] = "prepare" /\ plan'[q].commit = plan[q].commit
      PROVE  BuildsAgree'
  BY <1>t, <1>0 DEF Present
<1>1. ASSUME NEW p \in Projects, Planning(p) PROVE BuildsAgree'
  <2>1. \A q \in Projects : pc'[q] = "prepare" =>
          pc[q] = "prepare" /\ plan'[q].commit = plan[q].commit
    BY <1>t, <1>1, PlanningKeeps DEF Locked
  <2> QED
    BY <1>t, <1>0, <1>1, <2>1, PlanningKeeps DEF history
<1>2. ASSUME NEW p \in Projects, Moving(p) PROVE BuildsAgree'
  <2>1. /\ UNCHANGED <<builds, pc, torn, overlooked>> /\ SameJournal
        /\ \A q \in Projects : pc[q] # "prepare"
        /\ \A q \in Projects : q # journal.owner => marker'[q] = marker[q]
    BY <1>t, <1>2, MovingKeeps DEF Locked
  <2>2. /\ journal.owner \in Projects
        /\ marker'[journal.owner] \in
             {marker[journal.owner], NoCommit, journal.old, journal.new}
    <3>1. journal.owner \in Projects
      BY <1>2, OwnerOpen
    <3> QED
      BY <1>t, <1>2, <3>1
      DEF Moving, DisplaceContext, PlaceContext, PlaceRuntime, DisplaceRemovals,
          SaveRemovals, DisplaceConsumers, PlaceConsumers, WithdrawConsumers,
          RestoreConsumers, RestoreRemovals, WithdrawRuntime, WithdrawContext,
          RestoreContext, MarkerMoves, store
  <2>3. Present' = Present
    BY <2>1 DEF Present
  <2> QED
    BY <1>t, <2>1, <2>2, <2>3 DEF SameJournal
<1>3. ASSUME NEW p \in Projects, Turning(p) \/ Closing(p) PROVE BuildsAgree'
  <2>1. pc'[p] # "prepare"
    BY <1>t, <1>3
    DEF Turning, Recover, Stopped, CommitFails, Decide, StartUndo, Closing, Clean,
        RolledBack, End, Goto
  <2>2. UNCHANGED <<marker, builds, torn, overlooked>>
        /\ \A q \in Projects \ {p} : pc'[q] = pc[q] /\ plan'[q] = plan[q]
    BY <1>t, <1>3, TurningKeeps DEF store, history
  <2>3. \/ journal' \in {journal, NoJournal}
        \/ \E phase \in {"forward", "back", "done"} :
             journal' = [journal EXCEPT !.phase = phase]
    BY <1>3
    DEF Turning, Recover, Stopped, CommitFails, Decide, StartUndo, Closing, Clean,
        RolledBack
  <2>4. \/ journal'.owner = Nobody
        \/ /\ journal'.owner = journal.owner /\ journal'.old = journal.old
           /\ journal'.new = journal.new
    BY <1>t, <2>3, PhaseKeeps, JournalClosed DEF SameJournal
  <2> QED
    BY <1>0, <2>1, <2>2, <2>4
<1>4. ASSUME NEW p \in Projects, Revalidate(p) PROVE BuildsAgree'
  <2>1. CASE ~(PlanCurrent(p) /\ (plan[p].private \/ plan[p].commit \in Present))
    <3>1. /\ UNCHANGED <<marker, journal, builds, torn, overlooked>>
          /\ pc'[p] # "prepare"
          /\ \A q \in Projects \ {p} : pc'[q] = pc[q] /\ plan'[q] = plan[q]
      BY <1>t, <1>4, <2>1 DEF Revalidate, Retry, End, Goto, history
    <3> QED
      BY <1>0, <3>1
  <2>2. CASE PlanCurrent(p) /\ (plan[p].private \/ plan[p].commit \in Present)
    <3>1. /\ UNCHANGED <<marker, journal, torn, overlooked, plan>>
          /\ pc' = [pc EXCEPT ![p] = "prepare"]
          /\ builds' = IF plan[p].commit \in Present THEN builds
                       ELSE [builds EXCEPT ![plan[p].commit] = "fresh"]
      BY <1>4, <2>2 DEF Revalidate, Goto, history
    <3>2. plan[p].commit \in Commits
      BY <1>t, <2>2 DEF PlanCurrent, TypeOK, StoreTyped
    <3>3. Present \subseteq Present' /\ plan[p].commit \in Present'
      BY <1>t, <3>1, <3>2 DEF Present
    <3> QED
      BY <1>t, <3>1, <3>3
  <2> QED
    BY <2>1, <2>2
<1>5. ASSUME NEW p \in Projects, Prepare(p) PROVE BuildsAgree'
  <2>1. /\ UNCHANGED <<marker, builds, torn, overlooked>> /\ pc[p] = "prepare"
        /\ pc'[p] # "prepare"
        /\ \A q \in Projects \ {p} : pc'[q] = pc[q] /\ plan'[q] = plan[q]
        /\ journal' \in {journal, JournalOf(p)}
    BY <1>t, <1>5 DEF Prepare, End, Goto, store, history
  <2>2. CASE journal' = journal
    BY <1>0, <2>1, <2>2
  <2>3. CASE journal' = JournalOf(p)
    <3>1. /\ journal'.owner = p /\ journal'.old = marker[p]
          /\ journal'.new = plan[p].commit
      BY <2>3, JournalOpened
    <3>2. Present' = Present
      BY <2>1 DEF Present
    <3>3. marker[p] \in Commits \union {NoCommit}
      BY <1>t DEF MaybeCommit
    <3> QED
      BY <1>t, <2>1, <3>1, <3>2, <3>3
  <2> QED
    BY <2>1, <2>2, <2>3
<1>6. ASSUME NEW p \in Projects, Vanish(p) PROVE BuildsAgree'
  BY <1>t, <1>6 DEF Vanish, history, Present
<1>7. CASE GcBuilds
  <2> DEFINE aged == {c \in Commits \ gc.refs : builds[c] = "old"}
  <2>1. /\ UNCHANGED <<marker, journal, torn>> /\ Sweeps
        /\ builds' = [c \in Commits |-> IF c \in aged THEN "absent" ELSE builds[c]]
        /\ overlooked' = overlooked \union Missed(aged)
    BY <1>7 DEF GcBuilds, Collecting, process, Sweeps
  <2>2. Present \ aged \subseteq Present' /\ aged \intersect gc.refs = {}
    BY <2>1 DEF Present
  <2>3. \A p \in Projects : pc'[p] # "prepare"
    BY <1>t, <1>7, SweepingKeeps DEF Sweeping, Collect, Locked
  <2>4. ASSUME NEW p \in Projects, gc.blind, marker[p] \in aged
        PROVE  marker[p] \in overlooked'
    <3>1. marker[p] # NoCommit
      BY <2>4
    <3> QED
      BY <2>1, <2>4, <3>1 DEF Missed, MarkersOf
  <2> HIDE DEF aged
  <2>5. ASSUME NEW p \in Projects, marker[p] \in Commits \ Present'
        PROVE  marker[p] \in overlooked' \/ Forgotten(p)
    BY <1>t, <2>1, <2>2, <2>4, <2>5 DEF SweepAgrees, Marked
  <2>6. ASSUME NEW p \in Projects, journal.owner = p, ~Forgotten(p)
        PROVE  {journal.old, journal.new} \ {NoCommit} \subseteq Present' \union overlooked'
    <3>1. CASE At("context", {"none"})
      <4>1. journal.old = marker[p] /\ journal.new = marker[p] /\ marker[p] \in Commits
        BY <1>t, <2>6, <3>1 DEF JournalAgrees, OwnerAgrees
      <4> QED
        BY <2>5, <2>6, <4>1
    <3>2. CASE ~At("context", {"none"})
      <4>1. {journal.old, journal.new} \ {NoCommit} \subseteq gc.refs
        BY <1>t, <2>1, <2>6, <3>2 DEF SweepAgrees, Marked
      <4> QED
        BY <1>t, <2>1, <2>2, <2>6, <4>1
    <3> QED
      BY <3>1, <3>2
  <2> QED
    BY <2>1, <2>3, <2>5, <2>6
<1>8. CASE Sweeping /\ ~GcBuilds
  <2>1. builds' = builds
    BY <1>8
    DEF Sweeping, Collect, GcLock, GcMark, GcTruncate, GcRewrite, GcRuntime,
        GcSidecars, GcSnapshots, CollectorCrash, store
  <2> QED
    BY <1>t, <1>0, <1>8, <2>1, SweepingKeeps DEF SameJournal
<1> QED
  <2>1. UNCHANGED vars => BuildsAgree'
    BY <1>0 DEF vars, store, process, history
  <2> QED
    BY <1>1, <1>2, <1>3, <1>4, <1>5, <1>6, <1>7, <1>8, <2>1, NextCases
    DEF Sweeping, Collect

\* A plan that stays what it is keeps sparing what it has read: a marker that
\* comes back is no longer among that.
LEMMA PlanStays ==
  ASSUME TypeOK, NEW r \in Projects, PlanAgrees(r), torn => torn',
         pc'[r] = pc[r], plan'[r].sure \subseteq plan[r].sure,
         plan'[r].commit = plan[r].commit, plan'[r].refs = plan[r].refs,
         plan'[r].unread = plan[r].unread, plan'[r].consumers = plan[r].consumers,
         plan'[r].removals = plan[r].removals, plan'[r].registry = plan[r].registry,
         \A q \in plan'[r].sure : marker'[q] \in {marker[q], NoCommit}
  PROVE  PlanAgrees(r)'
<1>1. NoCommit \notin plan[r].removals
  BY NamesAssumption DEF TypeOK, ProcessesTyped, PlanType
<1>2. Asked(r)' = Asked(r)
  BY DEF Asked, Load
<1>3. ReadsMarkers(r) => ReadsMarkers(r)'
  BY <1>2 DEF ReadsMarkers
<1>4. Spares(r) => Spares(r)'
  BY <1>1 DEF Spares, Load
<1> QED
  BY <1>1, <1>3, <1>4 DEF PlanAgrees, Forgotten, Load

\* An install that plans spares what it has read: one marker after the other,
\* and of the registry that it reads last only if nobody has written it since.
LEMMA PlanningSpares ==
  ASSUME HomeInv, NEW p \in Projects, Planning(p)
  PROVE  PlanAgrees(p)'
<1>t. /\ TypeOK /\ PlanAgrees(p) /\ marker' = marker /\ torn' = torn
      /\ plan \in [Projects -> PlanType] /\ pc \in [Projects -> Steps]
      /\ plan[p] \in PlanType
      /\ runtime \subseteq Commits /\ registry \in Registries
  BY PlanningKeeps
  DEF HomeInv, RuntimeInvariant, HomeAgrees, RemovalsAgree, TypeOK, StoreTyped,
      ProcessesTyped, history
<1> USE NamesAssumption
<1>1. CASE \/ Start(p) \/ StartAgain(p) \/ LockTimeout(p) \/ PublishProject(p)
           \/ PublishRefused(p) \/ UndoRefused(p) \/ Crash(p)
  <2>1. pc'[p] \in {"resolve", "idle"}
    BY <1>t, <1>1
    DEF Start, StartAgain, LockTimeout, PublishProject, PublishRefused, UndoRefused,
        Crash, Observe, End, Goto
  <2> QED
    BY <2>1 DEF PlanAgrees
<1>2. CASE Resolve(p)
  <2>1. CASE Generation(p) = <<plan[p].marker, plan[p].built>>
    <3>1. /\ plan'[p] = [plan[p] EXCEPT
                           !.commit = source[p], !.hit = source[p] \in Present,
                           !.refs = {source[p]}, !.sure = Projects \ {p},
                           !.unread = Configured \ {p}]
          /\ pc'[p] = "configured"
      BY <1>t, <1>2, <2>1 DEF Resolve, Goto
    <3>2. /\ plan'[p].commit = source[p] /\ plan'[p].refs = {source[p]}
          /\ plan'[p].sure = Projects \ {p} /\ plan'[p].unread = Configured \ {p}
      BY <1>t, <3>1 DEF PlanType
    <3>3. Asked(p)' \subseteq {p}
      BY <3>1, <3>2 DEF Asked
    <3> QED
      BY <3>1, <3>2, <3>3 DEF PlanAgrees, ReadsMarkers
  <2>2. CASE ~(Generation(p) = <<plan[p].marker, plan[p].built>>)
    <3>1. pc'[p] \in {"again", "idle"}
      BY <1>t, <1>2, <2>2 DEF Resolve, Retry, End, Goto
    <3> QED
      BY <3>1 DEF PlanAgrees
  <2> QED
    BY <2>1, <2>2
<1>3. CASE ReadMarker(p)
  <2>1. PICK q \in plan[p].unread :
          plan'[p] = [plan[p] EXCEPT !.unread = plan[p].unread \ {q},
                                     !.refs = plan[p].refs \union MarkersOf({q}),
                                     !.sure = plan[p].sure \union {q}]
    BY <1>t, <1>3 DEF ReadMarker
  <2>2. pc[p] \in {"configured", "registered"} /\ pc' = pc
    BY <1>3 DEF ReadMarker
  <2>3. /\ plan'[p].unread = plan[p].unread \ {q}
        /\ plan'[p].refs = plan[p].refs \union MarkersOf({q})
        /\ plan'[p].sure = plan[p].sure \union {q}
        /\ plan'[p].commit = plan[p].commit
        /\ plan'[p].consumers = plan[p].consumers
    BY <1>t, <2>1 DEF PlanType
  <2>4. ReadsMarkers(p)
    BY <1>t, <2>2 DEF PlanAgrees
  <2>5. Asked(p)' \subseteq Asked(p) \union {q}
    BY <2>2, <2>3 DEF Asked, Load
  <2>6. marker[q] \in MarkersOf({q}) \union {NoCommit}
    BY DEF MarkersOf
  <2>7. ReadsMarkers(p)'
    BY <1>t, <2>3, <2>4, <2>5, <2>6 DEF ReadsMarkers
  <2> QED
    BY <2>2, <2>7 DEF PlanAgrees
<1>4. CASE ReadConsumers(p)
  <2>1. /\ plan'[p] = [plan[p] EXCEPT
                         !.consumers = registry,
                         !.unread = LoadConsumers \ (Configured \union {p})]
        /\ pc[p] = "configured" /\ plan[p].unread = {} /\ pc'[p] = "registered"
    BY <1>t, <1>4 DEF ReadConsumers, Goto
  <2>2. /\ plan'[p].consumers = registry
        /\ plan'[p].unread = LoadConsumers \ (Configured \union {p})
        /\ plan'[p].refs = plan[p].refs /\ plan'[p].sure = plan[p].sure
        /\ plan'[p].commit = plan[p].commit
    BY <1>t, <2>1 DEF PlanType
  <2>3. ReadsMarkers(p) /\ Asked(p) = Configured
    BY <1>t, <2>1 DEF PlanAgrees, Asked
  <2>4. Asked(p)' \subseteq Configured \union {p}
    BY <2>1, <2>2 DEF Asked, LoadConsumers, Load
  <2>5. ReadsMarkers(p)'
    BY <1>t, <2>2, <2>3, <2>4 DEF ReadsMarkers
  <2> QED
    BY <2>1, <2>5 DEF PlanAgrees
<1>5. CASE ReadPins(p)
  <2>1. /\ plan' = [plan EXCEPT ![p].refs = @ \union Pinned]
        /\ pc[p] = "registered" /\ plan[p].unread = {} /\ pc'[p] = "list"
    BY <1>t, <1>5 DEF ReadPins, Goto
  <2>2. /\ plan'[p].refs = plan[p].refs \union Pinned
        /\ plan'[p].consumers = plan[p].consumers
        /\ plan'[p].unread = plan[p].unread /\ plan'[p].sure = plan[p].sure
        /\ plan'[p].commit = plan[p].commit
    BY <1>t, <2>1 DEF PlanType
  <2>3. ReadsMarkers(p) /\ Asked(p)' = Asked(p)
    BY <1>t, <2>1, <2>2 DEF PlanAgrees, Asked, Load
  <2>4. ReadsMarkers(p)'
    BY <1>t, <2>2, <2>3 DEF ReadsMarkers
  <2> QED
    BY <2>1, <2>2, <2>4 DEF PlanAgrees
<1>6. CASE ListRuntime(p)
  <2>1. /\ plan'[p] = [plan[p] EXCEPT !.removals = runtime \ plan[p].refs, !.refs = {}]
        /\ pc[p] = "list" /\ pc'[p] = "preimages"
    BY <1>t, <1>6 DEF ListRuntime, Goto
  <2>2. /\ plan'[p].removals = runtime \ plan[p].refs
        /\ plan'[p].consumers = plan[p].consumers
        /\ plan'[p].sure = plan[p].sure /\ plan'[p].commit = plan[p].commit
    BY <1>t, <2>1 DEF PlanType
  <2>3. /\ ReadsMarkers(p)
        /\ Asked(p) = Configured \union Load(plan[p].consumers)
    BY <1>t, <2>1 DEF PlanAgrees, Asked
  <2>4. \A q \in plan'[p].sure \intersect
                   (Configured \union Load(plan'[p].consumers)) :
          marker'[q] \notin plan'[p].removals
    BY <1>t, <2>2, <2>3 DEF ReadsMarkers
  <2> QED
    BY <2>1, <2>2, <2>3, <2>4 DEF PlanAgrees, ReadsMarkers
<1>7. CASE CapturePreimages(p)
  <2>1. CASE ~(runtime \subseteq snapshots)
    <3>1. pc'[p] = "idle"
      BY <1>t, <1>7, <2>1 DEF CapturePreimages, End, Goto
    <3> QED
      BY <3>1 DEF PlanAgrees
  <2>2. CASE runtime \subseteq snapshots
    <3> DEFINE sure == IF registry = plan[p].consumers THEN plan[p].sure
                       ELSE plan[p].sure \intersect
                              (Configured \union Load(plan[p].consumers))
    <3>1. /\ plan'[p] = [plan[p] EXCEPT
               !.removals = plan[p].removals \intersect runtime,
               !.gone     = plan[p].removals \ runtime,
               !.context  = marker[p], !.runtime  = plan[p].commit \in runtime,
               !.registry = registry, !.consumers = {}, !.sure = sure]
          /\ pc[p] = "preimages" /\ pc'[p] \in {"lock", "build"}
      BY <1>t, <1>7, <2>2 DEF CapturePreimages, Goto
    <3> HIDE DEF sure
    <3>2. /\ plan'[p].removals = plan[p].removals \intersect runtime
          /\ plan'[p].registry = registry /\ plan'[p].sure = sure
          /\ plan'[p].commit = plan[p].commit
      BY <1>t, <3>1 DEF PlanType
    <3>3. /\ p \notin plan[p].sure /\ plan[p].commit \notin plan[p].removals
          /\ \A q \in plan[p].sure \intersect
                        (Configured \union Load(plan[p].consumers)) :
               marker[q] \notin plan[p].removals
      BY <1>t, <3>1 DEF PlanAgrees
    <3>4. Spares(p)'
      BY <1>t, <3>2, <3>3 DEF sure, Spares, Load
    <3> QED
      BY <3>1, <3>4 DEF PlanAgrees
  <2> QED
    BY <2>1, <2>2
<1>8. CASE BuildPrivate(p)
  <2>1. /\ plan' = [plan EXCEPT ![p].private = plan[p].commit \notin Present]
        /\ pc[p] = "build" /\ pc'[p] = "lock"
    BY <1>t, <1>8 DEF BuildPrivate, Goto
  <2>2. /\ plan'[p].removals = plan[p].removals /\ plan'[p].sure = plan[p].sure
        /\ plan'[p].registry = plan[p].registry /\ plan'[p].commit = plan[p].commit
    BY <1>t, <2>1 DEF PlanType
  <2> QED
    BY <1>t, <2>1, <2>2 DEF PlanAgrees, Spares, Load
<1>9. CASE MoveRef(p)
  BY <1>t, <1>9 DEF MoveRef, process, PlanAgrees, Spares, ReadsMarkers, Asked, Load, Forgotten
<1> QED
  BY <1>1, <1>2, <1>3, <1>4, <1>5, <1>6, <1>7, <1>8, <1>9 DEF Planning, Plan

\* One step keeps the removals fair: a plan spares what it has read, and under
\* the lock whoever it has not read and has a marker is one that it saw no
\* registry of.
LEMMA RemovalsStep ==
  ASSUME HomeInv, [Next]_vars
  PROVE  RemovalsAgree'
<1>t. /\ TypeOK /\ HomeHeld /\ InstallsAgree /\ JournalAgrees /\ ConsumersAgree
      /\ RemovalsAgree /\ torn \in BOOLEAN
      /\ journal \in JournalType /\ marker \in [Projects -> MaybeCommit]
      /\ plan \in [Projects -> PlanType] /\ pc \in [Projects -> Steps]
  BY DEF HomeInv, RuntimeInvariant, HomeAgrees, TypeOK, StoreTyped, ProcessesTyped
<1> USE NamesAssumption
<1> DEFINE JournalSpares == \A q \in journal.sure :
                              marker[q] \notin journal.removals \/ Forgotten(q)
<1>0. ASSUME NEW p \in Projects, marker' = marker, torn => torn',
             \A q \in Projects \ {p} : pc'[q] = pc[q] /\ plan'[q] = plan[q]
      PROVE  \A q \in Projects \ {p} : PlanAgrees(q)'
  BY <1>t, <1>0, PlanStays DEF RemovalsAgree
<1>1. ASSUME NEW p \in Projects, Planning(p) PROVE RemovalsAgree'
  <2>1. /\ marker' = marker /\ torn' = torn /\ journal' = journal
        /\ \A q \in Projects \ {p} : pc'[q] = pc[q] /\ plan'[q] = plan[q]
    BY <1>t, <1>1, PlanningKeeps DEF history
  <2>2. PlanAgrees(p)'
    BY <1>1, PlanningSpares
  <2>3. JournalSpares'
    BY <1>t, <2>1 DEF RemovalsAgree, Forgotten
  <2> QED
    BY <1>0, <2>1, <2>2, <2>3 DEF RemovalsAgree
<1>2. ASSUME NEW p \in Projects, Moving(p) PROVE RemovalsAgree'
  <2>1. /\ pc' = pc /\ torn' = torn /\ SameJournal
        /\ \A q \in Projects : q # journal.owner => marker'[q] = marker[q]
    BY <1>t, <1>2, MovingKeeps
  <2>2. ASSUME NEW r \in Projects PROVE PlanAgrees(r)'
    BY <1>t, <1>2, <2>1, MovingPlans, PlanStays DEF RemovalsAgree
  <2>3. journal.owner \notin journal.sure /\ journal.sure \subseteq Projects
    BY <1>t, <1>2, OwnerOpen DEF OwnerAgrees, JournalType
  <2>4. JournalSpares'
    BY <1>t, <2>1, <2>3 DEF RemovalsAgree, SameJournal, Forgotten
  <2> QED
    BY <2>2, <2>4 DEF RemovalsAgree
<1>3. ASSUME NEW p \in Projects, Turning(p) \/ Closing(p) PROVE RemovalsAgree'
  <2>1. /\ marker' = marker /\ torn' = torn
        /\ \A q \in Projects \ {p} : pc'[q] = pc[q] /\ plan'[q] = plan[q]
    BY <1>t, <1>3, TurningKeeps DEF store, history
  <2>2. JournalSpares'
    <3>1. \/ journal' \in {journal, NoJournal}
          \/ \E phase \in {"forward", "back", "done"} :
               journal' = [journal EXCEPT !.phase = phase]
      BY <1>3
      DEF Turning, Recover, Stopped, CommitFails, Decide, StartUndo, Closing, Clean,
          RolledBack
    <3>2. \/ journal'.sure = {}
          \/ journal'.sure = journal.sure /\ journal'.removals = journal.removals
      BY <1>t, <3>1, PhaseKeeps, JournalClosed DEF SameJournal
    <3> QED
      BY <1>t, <2>1, <3>2 DEF RemovalsAgree, Forgotten
  <2>3. PlanAgrees(p)'
    <3>1. CASE plan' = plan /\ pc'[p] \in {"revalidate", "replay", "finish", "restore"}
      <4>1. pc[p] \in {"lock", "replay", "finish", "restore"}
        BY <1>t, <1>3, <3>1
        DEF Turning, Recover, Stopped, CommitFails, Decide, StartUndo, Closing, Clean,
            RolledBack, Backing, Forwarding, End, Goto
      <4>2. Spares(p)
        BY <1>t, <4>1 DEF RemovalsAgree, PlanAgrees
      <4> QED
        BY <2>1, <3>1, <4>2 DEF PlanAgrees, Spares, Load
    <3>2. CASE pc'[p] \in {"undo", "clean", "publish", "idle"}
      BY <3>2 DEF PlanAgrees
    <3> QED
      BY <1>t, <1>3, <3>1, <3>2
      DEF Turning, Recover, Stopped, CommitFails, Decide, StartUndo, Closing, Clean,
          RolledBack, Backing, Forwarding, End, Goto
  <2> QED
    BY <1>0, <2>1, <2>2, <2>3 DEF RemovalsAgree
<1>4. ASSUME NEW p \in Projects, Revalidate(p) PROVE RemovalsAgree'
  <2>1. /\ UNCHANGED <<marker, journal, torn>> /\ pc[p] = "revalidate"
        /\ \A q \in Projects \ {p} : pc'[q] = pc[q] /\ plan'[q] = plan[q]
    BY <1>t, <1>4 DEF Revalidate, Retry, End, Goto, history
  <2>2. JournalSpares'
    BY <1>t, <2>1 DEF RemovalsAgree, Forgotten
  <2>3. PlanAgrees(p)'
    <3>1. CASE ~(PlanCurrent(p) /\ (plan[p].private \/ plan[p].commit \in Present))
      <4>1. pc'[p] \in {"again", "idle"}
        BY <1>t, <1>4, <3>1 DEF Revalidate, Retry, End, Goto
      <4> QED
        BY <4>1 DEF PlanAgrees
    <3>2. CASE PlanCurrent(p) /\ (plan[p].private \/ plan[p].commit \in Present)
      <4>1. pc'[p] = "prepare" /\ plan' = plan
        BY <1>t, <1>4, <3>2 DEF Revalidate, Goto
      <4>2. Spares(p)
        BY <1>t, <2>1 DEF RemovalsAgree, PlanAgrees
      <4>3. /\ plan[p].registry = registry /\ journal = NoJournal
            /\ gc.pc = "idle"
        BY <1>t, <1>4, <2>1, <3>2, LockedOut
        DEF PlanCurrent, InstallsAgree, InstallAgrees
      <4>4. NoCommit \notin plan[p].removals /\ plan[p].sure \subseteq Projects
        BY <1>t DEF PlanType
      <4>5. ASSUME NEW q \in plan[p].sure, marker[q] \in plan[p].removals
            PROVE  Forgotten(q)
        <5>1. q \in Projects \ Configured /\ q \notin Load(registry)
          BY <4>2, <4>3, <4>4, <4>5 DEF Spares
        <5>2. CASE ~torn
          <6>1. q # journal.owner /\ marker[q] # NoCommit /\ ~Aside /\ registry # Torn
            BY <1>t, <4>3, <4>4, <4>5, <5>1, <5>2, JournalClosed
            DEF ConsumersAgree, Aside, At, Classes
          <6> QED
            BY <1>t, <5>1, <5>2, <6>1
            DEF ConsumersAgree, BystanderListed, Listed, LoadConsumers
        <5> QED
          BY <5>1, <5>2 DEF Forgotten
      <4> QED
        BY <2>1, <4>1, <4>2, <4>5 DEF PlanAgrees, Spares, Load, Forgotten
    <3> QED
      BY <3>1, <3>2
  <2> QED
    BY <1>0, <2>1, <2>2, <2>3 DEF RemovalsAgree
<1>5. ASSUME NEW p \in Projects, Prepare(p) PROVE RemovalsAgree'
  <2>1. /\ UNCHANGED <<marker, torn>> /\ pc[p] = "prepare"
        /\ pc'[p] \in {"publish", "apply", "idle"}
        /\ \A q \in Projects \ {p} : pc'[q] = pc[q] /\ plan'[q] = plan[q]
        /\ journal' \in {journal, JournalOf(p)}
    BY <1>t, <1>5 DEF Prepare, End, Goto, store, history
  <2>2. PlanAgrees(p)'
    BY <2>1 DEF PlanAgrees
  <2>3. JournalSpares'
    <3>1. CASE journal' = journal
      BY <1>t, <2>1, <3>1 DEF RemovalsAgree, Forgotten
    <3>2. CASE journal' = JournalOf(p)
      <4>1. journal'.sure = plan[p].sure /\ journal'.removals = plan[p].removals
        BY <3>2, JournalOpened
      <4> QED
        BY <1>t, <2>1, <4>1 DEF RemovalsAgree, PlanAgrees, Forgotten
    <3> QED
      BY <2>1, <3>1, <3>2
  <2> QED
    BY <1>0, <2>1, <2>2, <2>3 DEF RemovalsAgree
<1>6. ASSUME NEW p \in Projects, Vanish(p) PROVE RemovalsAgree'
  <2>1. /\ UNCHANGED <<pc, plan, journal, torn>>
        /\ \A q \in Projects : marker'[q] \in {marker[q], NoCommit}
    BY <1>t, <1>6 DEF Vanish, history
  <2>2. \A r \in Projects : plan[r].sure \subseteq Projects
    BY <1>t DEF PlanType
  <2>3. ASSUME NEW r \in Projects PROVE PlanAgrees(r)'
    BY <1>t, <2>1, <2>2, PlanStays DEF RemovalsAgree
  <2>4. NoCommit \notin journal.removals /\ journal.sure \subseteq Projects
    BY <1>t DEF JournalType
  <2>5. JournalSpares'
    BY <1>t, <2>1, <2>4 DEF RemovalsAgree, Forgotten
  <2> QED
    BY <2>3, <2>5 DEF RemovalsAgree
<1>7. ASSUME UNCHANGED <<pc, plan, marker>>, torn => torn', SameJournal
      PROVE  RemovalsAgree'
  <2>1. ASSUME NEW r \in Projects PROVE PlanAgrees(r)'
    BY <1>t, <1>7, PlanStays DEF RemovalsAgree
  <2> QED
    BY <1>t, <1>7, <2>1 DEF RemovalsAgree, SameJournal, Forgotten
<1>8. CASE Sweeping
  BY <1>t, <1>7, <1>8, SweepingKeeps
<1>9. CASE UNCHANGED vars
  BY <1>7, <1>9 DEF vars, store, process, history, SameJournal
<1> QED
  BY <1>1, <1>2, <1>3, <1>4, <1>5, <1>6, <1>8, <1>9, NextCases

\* What a removal by rename takes from a marker it had not read is stale.
LEMMA DisplacedIsExcused ==
  ASSUME HomeInv, NEW p \in Projects, DisplaceRemovals(p), NEW q \in Projects,
         marker[q] \in journal.removals
  PROVE  marker[q] \in Excused' \/ Forgotten(q)
<1>1. stale' = stale \union Overtaken(journal.removals)
  BY DEF DisplaceRemovals
<1>2. CASE q \in journal.sure
  BY <1>2 DEF HomeInv, HomeAgrees, RemovalsAgree
<1>3. CASE q \notin journal.sure
  BY <1>1, <1>3 DEF Overtaken, Excused
<1> QED
  BY <1>2, <1>3

\* One step keeps the runtimes: a commit publishes what it names, a rollback
\* brings back what it names again, and a sweep spares what it has marked.
LEMMA RuntimeStep ==
  ASSUME HomeInv, [Next]_vars
  PROVE  RuntimeAgrees'
<1>t. /\ TypeOK /\ HomeHeld /\ InstallsAgree /\ JournalAgrees /\ SweepAgrees
      /\ RuntimeAgrees
      /\ journal \in JournalType /\ marker \in [Projects -> MaybeCommit]
      /\ torn \in BOOLEAN /\ runtime \subseteq Commits
      /\ \A class \in Classes : journal.at[class] \in {"none", "old", "out", "new"}
  BY DEF HomeInv, RuntimeInvariant, HomeAgrees, TypeOK, StoreTyped, JournalType
<1>u. ~At("runtime", {"out"})
  BY DEF HomeInv, RuntimeInvariant, SnapshotsKept, JournalHasSnapshot
<1> USE NamesAssumption
<1> USE DEF RuntimeAgrees, HasRuntime, OwnerHasRuntime, Excused, Forgotten, At
<1>0. ASSUME UNCHANGED <<marker, runtime>>, torn => torn', SameJournal,
             journal'.at = journal.at,
             journal'.lost = journal.lost,
             stale \subseteq stale', overlooked \subseteq overlooked'
      PROVE  RuntimeAgrees'
  BY <1>t, <1>0 DEF SameJournal
<1>1. ASSUME NEW p \in Projects, Moving(p) PROVE RuntimeAgrees'
  <2>1. /\ UNCHANGED <<torn, overlooked>> /\ stale \subseteq stale' /\ SameJournal
        /\ journal'.phase = journal.phase /\ journal'.lost = journal.lost
        /\ \A q \in Projects : q # journal.owner => marker'[q] = marker[q]
    BY <1>t, <1>1, MovingKeeps
  <2>2. /\ journal.owner \in Projects /\ OwnerAgrees(journal.owner)
        /\ OwnerHasRuntime(journal.owner)
    BY <1>t, <1>1, OwnerOpen
  <2>3. journal'.owner = journal.owner /\ journal'.old = journal.old
        /\ journal'.new = journal.new /\ journal'.removals = journal.removals
    BY <2>1 DEF SameJournal
  <2>4. CASE DisplaceContext(p) \/ WithdrawContext(p)
    <3>1. /\ Move("context", "out") /\ runtime' = runtime
          /\ marker'[journal.owner] = NoCommit
      BY <1>t, <2>2, <2>4 DEF DisplaceContext, WithdrawContext
    <3>2. \A class \in {"runtime", "removal"} : journal'.at[class] = journal.at[class]
      BY <1>t, <3>1, MoveKeeps DEF Classes
    <3> QED
      BY <1>t, <2>1, <2>2, <2>3, <3>1, <3>2
  <2>5. CASE PlaceContext(p)
    <3>1. /\ Move("context", "new") /\ runtime' = runtime
          /\ marker'[journal.owner] = journal.new
      BY <1>t, <2>2, <2>5 DEF PlaceContext, MarkerMoves
    <3>2. \A class \in {"runtime", "removal"} : journal'.at[class] = journal.at[class]
      BY <1>t, <3>1, MoveKeeps DEF Classes
    <3> QED
      BY <1>t, <2>1, <2>2, <2>3, <3>1, <3>2
  <2>6. CASE RestoreContext(p)
    <3>1. /\ Move("context", "old") /\ runtime' = runtime
          /\ marker'[journal.owner] = journal.old /\ UndoTurn("context")
      BY <1>t, <2>2, <2>6 DEF RestoreContext, MarkerMoves
    <3>2. \A class \in {"runtime", "removal"} : journal'.at[class] = journal.at[class]
      BY <1>t, <3>1, MoveKeeps DEF Classes
    <3>3. journal.at["removal"] \in {"none", "old"}
      BY <3>1 DEF UndoTurn, Earlier, Classes
    <3> QED
      BY <1>t, <2>1, <2>2, <2>3, <3>1, <3>2, <3>3
  <2>7. CASE PlaceRuntime(p)
    <3>1. /\ Move("runtime", "new") /\ runtime' = runtime \union {journal.new}
          /\ marker' = marker /\ Turn("runtime")
      BY <2>7 DEF PlaceRuntime
    <3>2. /\ journal'.at["runtime"] = "new"
          /\ journal'.at["removal"] = journal.at["removal"]
      BY <1>t, <3>1, MoveKeeps DEF Classes
    <3>3. marker[journal.owner] = journal.new /\ journal.at["runtime"] = "old"
      BY <1>u, <2>2, <3>1 DEF Turn, Earlier, OwnerAgrees
    <3> QED
      BY <1>t, <2>1, <2>2, <2>3, <3>1, <3>2, <3>3
  <2>8. CASE DisplaceRemovals(p)
    <3>1. /\ Move("removal", "out") /\ runtime' = runtime \ journal.removals
          /\ marker' = marker /\ At("removal", {"old"}) /\ Forwarding(p)
      BY <2>8 DEF DisplaceRemovals
    <3>2. /\ journal'.at["removal"] = "out"
          /\ journal'.at["runtime"] = journal.at["runtime"]
      BY <1>t, <3>1, MoveKeeps DEF Classes
    <3>3. "removal" \notin journal.lost
      BY <1>t, <3>1 DEF Forwarding, InstallsAgree, InstallAgrees, JournalAgrees, InOrder
    <3>4. journal.new \notin journal.removals
      BY <2>2 DEF OwnerAgrees
    <3>5. \A q \in Projects : marker[q] \in journal.removals =>
            marker[q] \in stale' \union overlooked' \/ Forgotten(q)
      BY <2>8, DisplacedIsExcused
    <3> QED
      BY <1>t, <2>1, <2>2, <2>3, <3>1, <3>2, <3>3, <3>4, <3>5
  <2>9. CASE SaveRemovals(p)
    <3>1. /\ Move("removal", "new") /\ UNCHANGED <<runtime, marker>>
          /\ At("removal", {"out"})
      BY <2>9 DEF SaveRemovals, store
    <3>2. /\ journal'.at["removal"] = "new"
          /\ journal'.at["runtime"] = journal.at["runtime"]
      BY <1>t, <3>1, MoveKeeps DEF Classes
    <3> QED
      BY <1>t, <2>1, <2>2, <2>3, <3>1, <3>2
  <2>10. CASE RestoreRemovals(p)
    <3>1. /\ Move("removal", "old") /\ marker' = marker
          /\ At("removal", {"out", "new"}) /\ ~Unrestorable("removal")
          /\ runtime' = IF "removal" \in journal.lost THEN runtime
                        ELSE runtime \union journal.removals
      BY <2>10 DEF RestoreRemovals, UndoTurn
    <3>2. /\ journal'.at["removal"] = "old"
          /\ journal'.at["runtime"] = journal.at["runtime"]
      BY <1>t, <3>1, MoveKeeps DEF Classes
    <3>3. "removal" \in journal.lost => journal.removals \subseteq overlooked
      BY <1>t, <3>1 DEF Unrestorable
    <3> QED
      BY <1>t, <2>1, <2>2, <2>3, <3>1, <3>2, <3>3
  <2>11. CASE WithdrawRuntime(p)
    <3>1. /\ Move("runtime", "old") /\ runtime' = runtime \ {journal.new}
          /\ marker' = marker /\ UndoTurn("runtime")
      BY <2>11 DEF WithdrawRuntime
    <3>2. /\ journal'.at["runtime"] = "old"
          /\ journal'.at["removal"] = journal.at["removal"]
      BY <1>t, <3>1, MoveKeeps DEF Classes
    <3>3. journal.at["runtime"] = "new"
      BY <1>u, <3>1 DEF UndoTurn
    <3> QED
      BY <1>t, <2>1, <2>2, <2>3, <3>1, <3>2, <3>3
  <2>12. CASE \/ DisplaceConsumers(p) \/ PlaceConsumers(p) \/ WithdrawConsumers(p)
              \/ RestoreConsumers(p)
    <3>1. /\ UNCHANGED <<runtime, marker>>
          /\ \E to \in {"old", "out", "new"} : Move("consumers", to)
      BY <2>12
      DEF DisplaceConsumers, PlaceConsumers, WithdrawConsumers, RestoreConsumers
    <3>2. \A class \in {"runtime", "removal"} : journal'.at[class] = journal.at[class]
      BY <1>t, <3>1, MoveKeeps DEF Classes
    <3> QED
      BY <1>t, <2>1, <2>2, <2>3, <3>1, <3>2
  <2> QED
    BY <1>1, <2>4, <2>5, <2>6, <2>7, <2>8, <2>9, <2>10, <2>11, <2>12 DEF Moving
<1>2. ASSUME NEW p \in Projects, Turning(p) PROVE RuntimeAgrees'
  <2>1. journal' = journal \/ \E phase \in {"forward", "back", "done"} :
                               journal' = [journal EXCEPT !.phase = phase]
    BY <1>2 DEF Turning, Recover, Stopped, CommitFails, Decide, StartUndo
  <2>2. SameJournal /\ journal'.at = journal.at /\ journal'.lost = journal.lost
    BY <1>t, <2>1, PhaseKeeps DEF SameJournal
  <2> QED
    BY <1>t, <1>0, <1>2, <2>2, TurningKeeps DEF store, history
<1>3. ASSUME NEW p \in Projects, Closing(p) PROVE RuntimeAgrees'
  <2>1. UNCHANGED <<marker, runtime, torn, stale, overlooked>>
    BY <1>t, <1>3, TurningKeeps DEF store, history
  <2>2. CASE journal' = journal
    BY <1>0, <2>1, <2>2 DEF SameJournal
  <2>3. CASE journal' # journal
    <3>1. /\ journal' = NoJournal /\ pc[p] \in {"clean", "finish", "undo", "restore"}
          /\ \/ \A class \in Classes : At(class, {"none", "old"})
             \/ pc[p] \in {"clean", "finish"}
      BY <1>3, <2>3 DEF Closing, Clean, RolledBack, Backing
    <3>2. \/ \A class \in Classes : At(class, {"none", "old"})
          \/ \A class \in Classes : At(class, {"none", "new"})
      BY <1>t, <3>1 DEF InstallsAgree, InstallAgrees, JournalAgrees, InOrder
    <3>3. ASSUME NEW q \in Projects, marker[q] \in Commits \ runtime
          PROVE  marker[q] \in Excused \/ Forgotten(q)
      <4>1. CASE journal.owner = q /\ At("runtime", {"old"})
        <5>1. OwnerAgrees(q) /\ OwnerHasRuntime(q)
          BY <1>t, <4>1 DEF JournalAgrees
        <5>2. /\ journal.at["context"] \in {"none", "old"}
              /\ journal.at["removal"] \in {"none", "old"}
          BY <3>2, <4>1 DEF Classes
        <5>3. marker[q] = journal.old
          BY <5>1, <5>2 DEF OwnerAgrees
        <5> QED
          BY <3>3, <5>1, <5>2, <5>3
      <4> QED
        BY <1>t, <3>3, <4>1
    <3> QED
      BY <2>1, <3>1, <3>3, JournalClosed DEF Classes
  <2> QED
    BY <2>2, <2>3
<1>4. ASSUME NEW p \in Projects, Prepare(p) PROVE RuntimeAgrees'
  <2>1. UNCHANGED <<marker, runtime, torn, stale, overlooked>> /\ journal = NoJournal
    BY <1>t, <1>4 DEF Prepare, store, history, InstallsAgree, InstallAgrees
  <2>2. CASE journal' = journal
    BY <1>0, <2>1, <2>2 DEF SameJournal
  <2>3. CASE journal' = JournalOf(p)
    <3>1. /\ journal'.owner = p /\ journal'.old = marker[p]
          /\ journal'.new = plan[p].commit /\ journal'.lost = {}
          /\ journal'.at["runtime"] = IF plan[p].commit \notin runtime THEN "old"
                                      ELSE "none"
          /\ journal'.at["removal"] \in {"none", "old"}
      BY <2>3, JournalOpened, ClassTargeted DEF Classes
    <3>2. \A q \in Projects : marker[q] \in Commits \ runtime =>
            marker[q] \in Excused \/ Forgotten(q)
      BY <1>t, <2>1, JournalClosed
    <3>3. \A q \in Projects : marker[q] \in Commits \union {NoCommit}
      BY <1>t DEF MaybeCommit
    <3>4. plan[p].commit \in Commits
      BY <1>t, <1>4, <2>1, <2>3, JournalOpened, JournalClosed
      DEF Prepare, TypeOK, StoreTyped
    <3> QED
      BY <2>1, <3>1, <3>2, <3>3, <3>4
  <2> QED
    BY <1>4, <2>2, <2>3 DEF Prepare
<1>5. ASSUME NEW p \in Projects, Vanish(p) PROVE RuntimeAgrees'
  <2>1. /\ UNCHANGED <<runtime, journal, torn, stale, overlooked>>
        /\ \A q \in Projects : marker'[q] \in {marker[q], NoCommit}
    BY <1>t, <1>5 DEF Vanish, history
  <2>2. journal.owner \in Projects => journal.new # NoCommit
    BY <1>t DEF JournalAgrees, OwnerAgrees
  <2> QED
    BY <1>t, <2>1, <2>2
<1>6. CASE GcRuntime
  <2>1. PICK c \in Collectable : /\ runtime' = runtime \ {c}
                                 /\ overlooked' = overlooked \union Missed({c})
    BY <1>6 DEF GcRuntime
  <2>2. /\ UNCHANGED <<marker, journal, torn, stale>> /\ Sweeps
        /\ c \notin gc.refs /\ c \in Commits
    BY <1>t, <1>6, <2>1 DEF GcRuntime, Collecting, Collectable, process, Sweeps
  <2>3. ASSUME NEW q \in Projects, marker[q] = c, ~Forgotten(q)
        PROVE  c \in overlooked'
    <3>1. gc.blind /\ c \in MarkersOf(Projects)
      BY <1>t, <2>2, <2>3 DEF SweepAgrees, Marked, MarkersOf
    <3> QED
      BY <2>1, <3>1 DEF Missed
  <2>4. ASSUME NEW q \in Projects, journal.owner = q, ~Forgotten(q),
               c \in {journal.old, journal.new}
        PROVE  c \in overlooked'
    <3>1. OwnerAgrees(q)
      BY <1>t, <2>4 DEF JournalAgrees
    <3>2. At("context", {"none"})
      BY <1>t, <2>2, <2>4 DEF SweepAgrees, Marked
    <3> QED
      BY <2>3, <2>4, <3>1, <3>2 DEF OwnerAgrees
  <2> QED
    BY <1>t, <2>1, <2>2, <2>3, <2>4
<1>7. CASE GcSidecars
  <2>1. /\ UNCHANGED <<marker, runtime, torn, stale>>
        /\ overlooked' = overlooked \union Dropped
    BY <1>7 DEF GcSidecars, store
  <2>2. /\ SameJournal /\ journal'.at = journal.at
    BY <1>t, <1>7, LosesKeeps
  <2>3. At("removal", {"out"})' => journal'.removals \subseteq overlooked'
    BY <2>1, <2>2 DEF Dropped, SameJournal
  <2> QED
    BY <1>t, <2>1, <2>2, <2>3 DEF SameJournal
<1>8. CASE \/ GcLock \/ GcMark \/ GcTruncate \/ GcRewrite \/ GcSnapshots \/ GcBuilds
           \/ CollectorCrash
  <2>1. runtime' = runtime /\ journal' = journal
    BY <1>8
    DEF GcLock, GcMark, GcTruncate, GcRewrite, GcSnapshots, GcBuilds, CollectorCrash,
        store
  <2>2. Sweeping
    BY <1>8 DEF Sweeping, Collect
  <2>3. marker' = marker /\ stale' = stale /\ overlooked \subseteq overlooked'
    BY <1>t, <2>2, SweepingKeeps
  <2>4. torn => torn'
    BY <1>t, <2>2, SweepingKeeps
  <2>5. SameJournal
    BY <2>1 DEF SameJournal
  <2> QED
    BY <1>0, <2>1, <2>3, <2>4, <2>5
<1> QED
  <2>1. ASSUME NEW p \in Projects, Planning(p) \/ Revalidate(p)
        PROVE  UNCHANGED <<marker, runtime, journal, torn, stale, overlooked>>
    <3>1. CASE Planning(p)
      BY <1>t, <3>1, PlanningKeeps DEF history
    <3>2. CASE Revalidate(p)
      BY <3>2 DEF Revalidate, history
    <3> QED
      BY <2>1, <3>1, <3>2
  <2>2. UNCHANGED vars => UNCHANGED <<marker, runtime, journal, torn, stale, overlooked>>
    BY DEF vars, store, history
  <2>3. UNCHANGED <<marker, runtime, journal, torn, stale, overlooked>> => RuntimeAgrees'
    BY <1>0 DEF SameJournal
  <2> QED
    BY <1>1, <1>2, <1>3, <1>4, <1>5, <1>6, <1>7, <1>8, <2>1, <2>2, <2>3, NextCases
    DEF Sweeping, Collect

\* The first states agree: nothing runs, whoever has a marker is registered,
\* and what it names has its tree and its build.
LEMMA AgreesFirst == Init => HomeAgrees
<1> SUFFICES ASSUME Init PROVE HomeAgrees
  OBVIOUS
<1> USE NamesAssumption, JournalClosed
<1>1. /\ journal = NoJournal /\ journal.owner = Nobody /\ gc = Asleep /\ ~torn
      /\ gc.pc = "idle" /\ \A p \in Projects : pc[p] = "idle" /\ outcome[p] = "none"
      /\ marker \in [Projects -> Commits \union {NoCommit}]
      /\ registry \in {{p \in Projects : marker[p] # NoCommit}}
                       \union (IF MarkersOf(Projects) = {} THEN {Missing} ELSE {})
      /\ MarkersOf(Projects) \subseteq runtime
      /\ builds = [c \in Commits |-> IF c \in runtime THEN "old" ELSE "absent"]
  BY DEF Init, Asleep
<1>2. \A p \in Projects :
        marker[p] # NoCommit => marker[p] \in runtime /\ p \in LoadConsumers
  <2> SUFFICES ASSUME NEW p \in Projects, marker[p] # NoCommit
               PROVE  marker[p] \in runtime /\ p \in LoadConsumers
    OBVIOUS
  <2>1. marker[p] \in MarkersOf(Projects)
    BY DEF MarkersOf
  <2>2. registry = {q \in Projects : marker[q] # NoCommit}
    BY <1>1, <2>1
  <2>3. registry \notin {Torn, Missing}
    BY <2>2
  <2> QED
    BY <1>1, <2>1, <2>2, <2>3 DEF LoadConsumers, Load
<1>3. registry # Torn
  BY <1>1
<1>4. InstallsAgree /\ JournalAgrees /\ RemovalsAgree
  BY <1>1
  DEF InstallsAgree, InstallAgrees, JournalAgrees, InOrder, At, RemovalsAgree,
      PlanAgrees, Classes
<1>5. ConsumersAgree
  BY <1>1, <1>2, <1>3
  DEF ConsumersAgree, BystanderListed, Listed, Relists, Aside, At, LoadConsumers, Load,
      Classes
<1>6. SweepAgrees
  BY <1>1 DEF SweepAgrees, Sweeps
<1>7. BuildsAgree
  BY <1>1, <1>2 DEF BuildsAgree, BuildAgrees, Present
<1>8. RuntimeAgrees
  BY <1>1, <1>2 DEF RuntimeAgrees, HasRuntime, At, Classes
<1> QED
  BY <1>4, <1>5, <1>6, <1>7, <1>8 DEF HomeAgrees

\* In every reachable state of any home the agreement holds.
THEOREM HomeAgreement == Spec => []HomeInv
<1>1. Init => HomeInv
  BY InvariantHoldsFirst, AgreesFirst DEF HomeInv
<1>2. HomeInv /\ [Next]_vars => HomeInv'
  <2> SUFFICES ASSUME HomeInv, [Next]_vars PROVE HomeInv'
    OBVIOUS
  <2>1. RuntimeInvariant'
    BY TypeStep, HeldStep, SnapshotStep DEF HomeInv, RuntimeInvariant, SnapshotsKept
  <2>2. HomeAgrees'
    BY InstallsStep, JournalStep, ConsumersStep, SweepStep, BuildsStep, RemovalsStep,
       RuntimeStep
    DEF HomeAgrees
  <2> QED
    BY <2>1, <2>2 DEF HomeInv
<1> QED
  BY <1>1, <1>2, PTL DEF Spec

\* Whatever other installs commit, the collector sweeps and recovery restores,
\* the runtime tree a marker names is there: it goes only with a removal that
\* was planned before the marker, with a sweep that could not read the
\* registry that names its checkout, or with a checkout that a crash of the
\* collector has unlisted.
THEOREM RuntimeKeptTheorem == Spec => []RuntimeKept
<1>1. HomeInv => RuntimeKept
  BY DEF HomeInv, HomeAgrees, RuntimeAgrees, HasRuntime, RuntimeKept, Forgotten, Excused
<1> QED
  BY <1>1, HomeAgreement, PTL

\* The build that a marker names stays in the cache, from the inspection under
\* the lock through the commit and every later sweep that could read the
\* registry.
THEOREM BuildsKeptTheorem == Spec => []BuildsKept
<1>1. HomeInv => BuildsKept
  BY DEF HomeInv, HomeAgrees, BuildsAgree, BuildAgrees, BuildsKept, Forgotten
<1> QED
  BY <1>1, HomeAgreement, PTL

\* Every checkout with a marker is listed, or will be by the open journal that
\* has its registry aside or to write, or was lost when the collector died with
\* the file truncated.
THEOREM ConsumersTheorem == Spec => []ConsumersCoverMarkers
<1>1. HomeInv => ConsumersCoverMarkers
  <2> SUFFICES ASSUME HomeInv, NEW p \in Projects \ Configured, marker[p] # NoCommit,
                      p # journal.owner, ~torn, ~Listed(p)
               PROVE  Aside /\ p \in Load(journal.before)
    BY DEF ConsumersCoverMarkers, Listed, Aside
  <2>1. BystanderListed(p)
    BY DEF HomeInv, HomeAgrees, ConsumersAgree
  <2>2. Aside
    BY <2>1 DEF BystanderListed
  <2>3. journal.owner # Nobody
    BY <2>2, JournalClosed DEF HomeInv, HomeAgrees, JournalAgrees, Aside, At, Classes
  <2> QED
    BY <2>1, <2>2, <2>3 DEF BystanderListed
<1> QED
  BY <1>1, HomeAgreement, PTL

\* After an install that succeeded the dispatcher serves what the marker names,
\* until the next install of that checkout or its deletion.
THEOREM DispatchTheorem == Spec => []DispatchFollowsInstall
<1>1. HomeInv => DispatchFollowsInstall
  BY DEF HomeInv, HomeAgrees, InstallsAgree, InstallAgrees, DispatchFollowsInstall
<1> QED
  BY <1>1, HomeAgreement, PTL
=============================================================================
