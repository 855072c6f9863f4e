------------------------ MODULE SourceInstallProofs ------------------------
(***************************************************************************)
(* For any number of projects, aliases, commits, files and attempts: the   *)
(* typing of the schema-2 installs of one home, that every lock is the     *)
(* outcome of one resolution, that the store can serve whatever is         *)
(* installed, that a capture is a state its directory was in, and that the *)
(* lock, the contexts and the runtime entries of every project agree       *)
(* whenever no transaction of that project is open.                        *)
(***************************************************************************)
EXTENDS SourceInstall, TLAPS

\* A capture reads everything before it reads anything again.
ReadBeforeReread ==
  \A p \in Projects : plan[p].checked > 0 => Len(plan[p].read) = LastFile

SpentType ==
  [install: 0..MaxInstalls, crash: 0..MaxCrashes, trouble: 0..MaxTroubles]

SourcesKnown == TypeOK /\ ReadBeforeReread

\* What a lock's members are kept under are entries of the store.
LEMMA KeysTyped ==
  ASSUME NEW l, l.members \in Members
  PROVE  Keys(l) \in SUBSET Entries
BY DEF Keys, Members, Entries

LEMMA PlannedTyped ==
  ASSUME TypeOK, NEW p \in Projects
  PROVE  /\ Planned(p) \in SUBSET Entries
         /\ Keys(plan[p].old) \in SUBSET Entries
<1>1. plan[p].members \in Members /\ plan[p].old.members \in Members
  BY DEF TypeOK, InstallsTyped, PlanType, Locks
<1> QED
  BY <1>1, KeysTyped DEF Planned

\* No lock, no plan and no journal are well-typed too.
LEMMA NothingTyped ==
  /\ NoLock \in Locks /\ NoPlan \in PlanType /\ NoJournal \in JournalType
<1>1. Unresolved \in Members
  BY DEF Unresolved, Members
<1>2. NoLock \in Locks
  BY <1>1 DEF NoLock, Locks
<1>3. << >> \in Seq(Versions) /\ 0 \in 0..LastFile
  BY SourceBoundsAssumption
<1>4. NoPlan \in PlanType
  BY <1>1, <1>2, <1>3 DEF NoPlan, PlanType
<1>5. NoJournal \in JournalType
  BY <1>2 DEF NoJournal, JournalType
<1> QED
  BY <1>2, <1>4, <1>5

\* A lock that is made for a Skillfile is a lock of one resolution.
LEMMA LockOfTyped ==
  ASSUME NEW aliases \in Skillfiles, NEW c \in Commits, NEW tree \in Trees
  PROVE  LockOf(aliases, c, tree) \in Locks
<1>1. aliases \in SUBSET Aliases
  BY AliasesAssumption
<1>2. [a \in Aliases |-> IF a \notin aliases THEN NoPackage
                         ELSE IF a \in GitAliases THEN c ELSE tree] \in Members
  BY DEF Members, Packages
<1> QED
  BY <1>1, <1>2 DEF LockOf, Locks

\* A process that ends its install, or tries it again, stays well-typed.
LEMMA EndTyped ==
  ASSUME InstallsTyped, ReadBeforeReread, home \in Projects \union {Nobody},
         NEW p \in Projects, NEW how \in Outcomes, End(p, how)
  PROVE  InstallsTyped' /\ ReadBeforeReread' /\ home' \in Projects \union {Nobody}
<1>1. InstallsTyped'
  BY NothingTyped, SourceBoundsAssumption DEF InstallsTyped, End, Goto, Steps
<1>2. ReadBeforeReread'
  BY DEF InstallsTyped, End, Goto, ReadBeforeReread, NoPlan
<1> QED
  BY <1>1, <1>2 DEF End

LEMMA RetryTyped ==
  ASSUME InstallsTyped, ReadBeforeReread, home \in Projects \union {Nobody},
         NEW p \in Projects, Retry(p)
  PROVE  InstallsTyped' /\ ReadBeforeReread' /\ home' \in Projects \union {Nobody}
<1>1. CASE attempt[p] < Attempts
  <2>1. InstallsTyped'
    BY <1>1, NothingTyped, SourceBoundsAssumption
    DEF InstallsTyped, Retry, Goto, Steps
  <2>2. ReadBeforeReread'
    BY <1>1 DEF InstallsTyped, Retry, Goto, ReadBeforeReread, NoPlan
  <2> QED
    BY <1>1, <2>1, <2>2 DEF Retry
<1>2. CASE ~(attempt[p] < Attempts)
  BY <1>2, EndTyped DEF Retry, Outcomes
<1> QED
  BY <1>1, <1>2

\* So does one that goes on with another plan.
LEMMA PlanTyped ==
  ASSUME InstallsTyped, ReadBeforeReread,
         NEW p \in Projects, NEW new \in PlanType,
         plan' = [plan EXCEPT ![p] = new],
         new.checked > 0 => Len(new.read) = LastFile,
         pc' \in [Projects -> Steps],
         mode' \in [Projects -> {"none", "frozen", "resolving"}],
         UNCHANGED <<fetch, attempt, outcome>>
  PROVE  InstallsTyped' /\ ReadBeforeReread'
BY DEF InstallsTyped, ReadBeforeReread

\* What the planning steps write is a plan.
LEMMA PlansTyped ==
  ASSUME TypeOK, NEW p \in Projects
  PROVE  /\ [plan[p] EXCEPT !.old = lock[p]] \in PlanType
         /\ [plan[p] EXCEPT !.skillfile = skillfile[p],
                            !.members = plan[p].old.members] \in PlanType
         /\ [plan[p] EXCEPT !.skillfile = skillfile[p], !.old = lock[p]]
              \in PlanType
         /\ [plan[p] EXCEPT !.missing = Keys(plan[p].old) \ store] \in PlanType
         /\ [plan[p] EXCEPT
               !.removals = Removals(p), !.runtime = Watched(p, Removals(p)),
               !.lock = lock[p], !.installed = installed[p]] \in PlanType
         /\ [plan[p] EXCEPT !.data = skillfile[p]] \in PlanType
<1>1. plan[p] \in PlanType /\ lock[p] \in Locks /\ installed[p] \in Locks
  BY DEF TypeOK, InstallsTyped, HomeTyped
<1>2. skillfile[p] \in SUBSET Aliases
  BY AliasesAssumption DEF TypeOK, SourcesTyped
<1>3. /\ Planned(p) \in SUBSET Entries /\ Keys(plan[p].old) \in SUBSET Entries
      /\ runtime \in SUBSET Entries
  BY PlannedTyped DEF TypeOK, HomeTyped
<1>4. /\ Removals(p) \in SUBSET Entries
      /\ Watched(p, Removals(p)) \in SUBSET Entries
      /\ Keys(plan[p].old) \ store \in SUBSET Entries
  BY <1>3 DEF Removals, Watched
<1>5. plan[p].old.members \in Members
  BY <1>1 DEF PlanType, Locks
<1> QED
  BY <1>1, <1>2, <1>4, <1>5 DEF PlanType

\* Resolving an alias writes a package into the plan.
LEMMA ResolvedTyped ==
  ASSUME TypeOK, NEW p \in Projects, NEW a \in Aliases, NEW c \in Packages
  PROVE  [plan[p] EXCEPT !.members[a] = c] \in PlanType
<1>1. plan[p] \in PlanType
  BY DEF TypeOK, InstallsTyped
<1>2. [plan[p].members EXCEPT ![a] = c] \in Members
  BY <1>1 DEF PlanType, Members
<1> QED
  BY <1>1, <1>2 DEF PlanType


\* What is spent stays within its bound.
LEMMA SpendTyped ==
  ASSUME SourcesTyped
  PROVE  /\ Spend("install", MaxInstalls) => spent' \in SpentType
         /\ Spend("crash", MaxCrashes) => spent' \in SpentType
         /\ Spend("trouble", MaxTroubles) => spent' \in SpentType
BY SourceBoundsAssumption DEF SourcesTyped, Spend, SpentType

-----------------------------------------------------------------------------
(* One move of a commit, a rollback or a replay: a target class goes from   *)
(* one place to the next, and the journal says where it is.                 *)

Moving(p) ==
  \/ DisplaceLock(p) \/ PlaceLock(p) \/ DisplaceContext(p) \/ PlaceContext(p)
  \/ SaveDisplaced(p) \/ PlaceRuntime(p) \/ DisplaceRemovals(p)
  \/ RestoreRemovals(p) \/ WithdrawRuntime(p) \/ WithdrawContext(p)
  \/ RestoreContext(p) \/ WithdrawLock(p) \/ RestoreLock(p)

\* The journal may change its mind about a class, and the phase.
SameJournal ==
  /\ journal'.owner = journal.owner /\ journal'.old = journal.old
  /\ journal'.lock = journal.lock /\ journal'.installed = journal.installed
  /\ journal'.new = journal.new /\ journal'.added = journal.added
  /\ journal'.removed = journal.removed /\ journal'.robbed = journal.robbed

LEMMA MoveKeeps ==
  ASSUME journal \in JournalType, NEW class \in Classes,
         NEW to \in {"none", "old", "out", "saved", "new"}, Move(class, to)
  PROVE  /\ journal' \in JournalType /\ SameJournal
         /\ journal'.phase = journal.phase
         /\ journal'.at = [journal.at EXCEPT ![class] = to]
BY DEF Move, JournalType, SameJournal

\* Displacing, placing and withdrawing a file leaves what the journal has found
\* there, what it puts there, or nothing.
LockMoved ==
  \/ lock' = lock /\ replaced' = replaced
  \/ /\ \E l \in {NoLock, journal.new, journal.lock} :
          lock' = [lock EXCEPT ![journal.owner] = l]
     /\ replaced' = replaced \union Superseded
ContextMoved ==
  \/ installed' = installed
  \/ \E l \in {NoLock, journal.new, journal.installed} :
       installed' = [installed EXCEPT ![journal.owner] = l]

LEMMA MovingKeeps ==
  ASSUME HomeTyped, NEW p \in Projects, Moving(p)
  PROVE  /\ UNCHANGED <<sources, store, home, process, spent, dropped>>
         /\ journal' \in JournalType /\ SameJournal
         /\ journal'.phase = journal.phase
         /\ LockMoved /\ ContextMoved
         /\ runtime' \subseteq Entries /\ robbed' \subseteq Entries
<1>1. /\ journal \in JournalType /\ runtime \subseteq Entries
      /\ robbed \subseteq Entries /\ journal.added \subseteq Entries
      /\ journal.removed \subseteq Entries
  BY DEF HomeTyped, JournalType
<1>2. ASSUME NEW class \in Classes, NEW to \in {"old", "out", "saved", "new"},
             Move(class, to)
      PROVE  /\ journal' \in JournalType /\ SameJournal
             /\ journal'.phase = journal.phase
  BY <1>1, <1>2, MoveKeeps
<1>3. {"lock", "context", "runtime", "removal"} \subseteq Classes
  BY DEF Classes
<1>4. CASE DisplaceLock(p) \/ PlaceLock(p) \/ WithdrawLock(p) \/ RestoreLock(p)
  <2>1. /\ UNCHANGED <<sources, installed, runtime, robbed, store, home,
                       process, spent, dropped>>
        /\ \E l \in {NoLock, journal.new, journal.lock} : LockMoves(l)
        /\ \E to \in {"old", "out", "saved", "new"} : Move("lock", to)
    BY <1>4 DEF DisplaceLock, PlaceLock, WithdrawLock, RestoreLock
  <2> QED
    BY <1>1, <1>2, <1>3, <2>1 DEF LockMoves, LockMoved, ContextMoved
<1>5. CASE \/ DisplaceContext(p) \/ PlaceContext(p) \/ WithdrawContext(p)
           \/ RestoreContext(p)
  <2>1. /\ UNCHANGED <<sources, lock, runtime, robbed, store, home, process,
                       spent, replaced, dropped>>
        /\ \E l \in {NoLock, journal.new, journal.installed} :
             installed' = [installed EXCEPT ![journal.owner] = l]
        /\ \E to \in {"old", "out", "saved", "new"} : Move("context", to)
    BY <1>5
    DEF DisplaceContext, PlaceContext, WithdrawContext, RestoreContext
  <2> QED
    BY <1>1, <1>2, <1>3, <2>1 DEF LockMoved, ContextMoved
<1>6. CASE SaveDisplaced(p)
  <2>1. /\ UNCHANGED <<sources, outputs, store, home, process, spent, replaced,
                       dropped>>
        /\ \E class \in Classes, to \in {"old", "out", "saved", "new"} :
             Move(class, to)
    BY <1>6 DEF SaveDisplaced
  <2> QED
    BY <1>1, <1>2, <2>1 DEF LockMoved, ContextMoved, outputs
<1>7. CASE \/ PlaceRuntime(p) \/ DisplaceRemovals(p) \/ RestoreRemovals(p)
           \/ WithdrawRuntime(p)
  <2>1. /\ UNCHANGED <<sources, lock, installed, store, home, process, spent,
                       replaced, dropped>>
        /\ \E class \in {"runtime", "removal"} :
           \E to \in {"old", "out", "saved", "new"} : Move(class, to)
    BY <1>7
    DEF PlaceRuntime, DisplaceRemovals, RestoreRemovals, WithdrawRuntime
  <2>2. runtime' \subseteq Entries /\ robbed' \subseteq Entries
    BY <1>1, <1>7
    DEF PlaceRuntime, DisplaceRemovals, RestoreRemovals, WithdrawRuntime, Robbed
  <2> QED
    BY <1>1, <1>2, <1>3, <2>1, <2>2 DEF LockMoved, ContextMoved
<1> QED
  BY <1>4, <1>5, <1>6, <1>7 DEF Moving

\* One step keeps every variable in its type.
LEMMA TypeStep ==
  ASSUME SourcesKnown, [Next]_vars
  PROVE  SourcesKnown'
<1> USE DEF SourcesKnown, TypeOK
<1>0. CASE UNCHANGED vars
  BY <1>0
  DEF vars, SourcesTyped, HomeTyped, InstallsTyped, ReadBeforeReread
<1>1. ASSUME NEW p \in Projects, Start(p) PROVE SourcesKnown'
  <2>1. SourcesTyped'
    BY <1>1, SpendTyped DEF Start, SourcesTyped, SpentType, sources
  <2>2. InstallsTyped' /\ ReadBeforeReread'
    <3>1. pc' \in [Projects -> Steps] /\ fetch' \in [Projects -> BOOLEAN]
      BY <1>1 DEF Start, Goto, InstallsTyped, Steps
    <3>2. /\ attempt' \in [Projects -> 0..Attempts]
          /\ outcome' \in [Projects -> Outcomes]
      BY <1>1, SourceBoundsAssumption DEF Start, InstallsTyped, Outcomes
    <3> QED
      BY <1>1, <3>1, <3>2 DEF Start, InstallsTyped, ReadBeforeReread
  <2>3. HomeTyped'
    BY <1>1 DEF Start, HomeTyped, outputs, sources
  <2> QED
    BY <2>1, <2>2, <2>3
<1>2. ASSUME NEW p \in Projects, Select(p) PROVE SourcesKnown'
  <2>1. SourcesTyped'
    BY <1>2 DEF Select, SourcesTyped, sources
  <2>2. InstallsTyped' /\ ReadBeforeReread'
    <3>1. mode' \in [Projects -> {"none", "frozen", "resolving"}]
      BY <1>2 DEF Select, InstallsTyped
    <3>2. DEFINE new == [plan[p] EXCEPT !.old = lock[p]]
    <3>3. new \in PlanType /\ (new.checked > 0 => Len(new.read) = LastFile)
      BY PlansTyped DEF InstallsTyped, PlanType, ReadBeforeReread
    <3> QED
      BY <1>2, <3>1, <3>3, PlanTyped DEF Select, Goto, InstallsTyped, Steps
  <2>3. HomeTyped'
    BY <1>2 DEF Select, HomeTyped, outputs, sources
  <2> QED
    BY <2>1, <2>2, <2>3
<1>3. ASSUME NEW p \in Projects, ReadFrozen(p) PROVE SourcesKnown'
  <2>1. SourcesTyped'
    BY <1>3 DEF ReadFrozen, SourcesTyped, sources
  <2>2. InstallsTyped' /\ ReadBeforeReread' /\ home' \in Projects \union {Nobody}
    <3>1. CASE plan[p].old.skillfile = skillfile[p]
      <4> DEFINE new == [plan[p] EXCEPT !.skillfile = skillfile[p],
                                        !.members = plan[p].old.members]
      <4>1. new \in PlanType
        BY PlansTyped
      <4>2. new.checked > 0 => Len(new.read) = LastFile
        BY DEF InstallsTyped, PlanType, ReadBeforeReread
      <4>3. /\ plan' = [plan EXCEPT ![p] = new] /\ pc' \in [Projects -> Steps]
            /\ UNCHANGED <<fetch, mode, attempt, outcome, home>>
        BY <1>3, <3>1 DEF ReadFrozen, Goto, InstallsTyped, Steps
      <4> HIDE DEF new
      <4> QED
        BY <4>1, <4>2, <4>3, PlanTyped DEF InstallsTyped, HomeTyped
    <3>2. CASE ~(plan[p].old.skillfile = skillfile[p])
      BY <1>3, <3>2, EndTyped DEF ReadFrozen, HomeTyped, Outcomes
    <3> QED
      BY <3>1, <3>2
  <2>3. HomeTyped'
    BY <1>3, <2>2 DEF ReadFrozen, HomeTyped, outputs
  <2> QED
    BY <2>1, <2>2, <2>3
<1>4. ASSUME NEW p \in Projects, ReadResolving(p) PROVE SourcesKnown'
  <2>1. SourcesTyped'
    BY <1>4 DEF ReadResolving, SourcesTyped, sources
  <2>2. InstallsTyped' /\ ReadBeforeReread'
    <3> DEFINE new == [plan[p] EXCEPT !.skillfile = skillfile[p], !.old = lock[p]]
    <3>1. new \in PlanType
      BY PlansTyped
    <3>2. new.checked > 0 => Len(new.read) = LastFile
      BY DEF InstallsTyped, PlanType, ReadBeforeReread
    <3>3. plan' = [plan EXCEPT ![p] = new] /\ pc' \in [Projects -> Steps]
          /\ UNCHANGED <<fetch, mode, attempt, outcome>>
      BY <1>4 DEF ReadResolving, Goto, InstallsTyped, Steps
    <3> HIDE DEF new
    <3> QED
      BY <3>1, <3>2, <3>3, PlanTyped DEF InstallsTyped
  <2>3. HomeTyped'
    BY <1>4 DEF ReadResolving, HomeTyped, outputs, sources
  <2> QED
    BY <2>1, <2>2, <2>3
<1>5. ASSUME NEW p \in Projects, Resolve(p) PROVE SourcesKnown'
  <2>1. SourcesTyped'
    BY <1>5 DEF Resolve, SourcesTyped, sources
  <2>2. InstallsTyped' /\ ReadBeforeReread'
    <3>1. PICK a \in Wanted(p) :
            plan' = [plan EXCEPT ![p].members[a] = ResolveGitAlias(p, a)]
      BY <1>5 DEF Resolve
    <3>2. a \in Aliases
      BY DEF Wanted, Aliases
    <3>3. ResolveGitAlias(p, a) \in Packages
      <4> DEFINE known == {plan[p].members[b] : b \in GitAliases} \ {NoPackage}
      <4>1. upstream \in Packages
        BY DEF SourcesTyped, Packages
      <4>2. plan[p].members \in Members
        BY DEF InstallsTyped, PlanType
      <4>3. known \subseteq Packages
        BY <4>2 DEF Members, Aliases
      <4>4. known # {} => (CHOOSE c \in known : TRUE) \in known
        BY Zenon
      <4> HIDE DEF known
      <4>5. ResolveGitAlias(p, a) =
              IF known = {} THEN upstream ELSE CHOOSE c \in known : TRUE
        BY DEF ResolveGitAlias, known
      <4> QED
        BY <4>1, <4>3, <4>4, <4>5
    <3> DEFINE new == [plan[p] EXCEPT !.members[a] = ResolveGitAlias(p, a)]
    <3>4. new \in PlanType
      BY <3>2, <3>3, ResolvedTyped
    <3>5. new.checked > 0 => Len(new.read) = LastFile
      BY DEF InstallsTyped, PlanType, ReadBeforeReread
    <3>6. plan' = [plan EXCEPT ![p] = new]
      BY <3>1
    <3> HIDE DEF new
    <3> QED
      BY <1>5, <3>4, <3>5, <3>6, PlanTyped DEF Resolve, InstallsTyped
  <2>3. HomeTyped'
    BY <1>5 DEF Resolve, HomeTyped, outputs, sources
  <2> QED
    BY <2>1, <2>2, <2>3
<1>6. ASSUME NEW p \in Projects, Resolved(p) PROVE SourcesKnown'
  <2>1. SourcesTyped'
    BY <1>6 DEF Resolved, SourcesTyped, sources
  <2>2. InstallsTyped' /\ ReadBeforeReread'
    BY <1>6 DEF Resolved, Goto, InstallsTyped, ReadBeforeReread, Steps
  <2>3. HomeTyped'
    BY <1>6 DEF Resolved, HomeTyped, outputs, sources
  <2> QED
    BY <2>1, <2>2, <2>3
<1>7. ASSUME NEW p \in Projects, Serve(p) PROVE SourcesKnown'
  <2>1. SourcesTyped'
    BY <1>7 DEF Serve, SourcesTyped, sources
  <2>2. InstallsTyped' /\ ReadBeforeReread'
    <3> DEFINE new == [plan[p] EXCEPT !.missing = Keys(plan[p].old) \ store]
    <3>1. new \in PlanType
      BY PlansTyped
    <3>2. new.checked > 0 => Len(new.read) = LastFile
      BY DEF InstallsTyped, PlanType, ReadBeforeReread
    <3>3. plan' = [plan EXCEPT ![p] = new] /\ pc' \in [Projects -> Steps]
          /\ UNCHANGED <<fetch, mode, attempt, outcome>>
      BY <1>7 DEF Serve, Goto, InstallsTyped, Steps
    <3> HIDE DEF new
    <3> QED
      BY <3>1, <3>2, <3>3, PlanTyped DEF InstallsTyped
  <2>3. HomeTyped'
    BY <1>7 DEF Serve, HomeTyped, outputs, sources
  <2> QED
    BY <2>1, <2>2, <2>3
<1>8. ASSUME NEW p \in Projects, ReadFile(p) PROVE SourcesKnown'
  <2>1. SourcesTyped'
    BY <1>8 DEF ReadFile, SourcesTyped, sources
  <2>2. InstallsTyped' /\ ReadBeforeReread'
    <3> DEFINE f == Len(plan[p].read) + 1
                new == [plan[p] EXCEPT !.read = Append(@, local[f])]
    <3>1. plan[p] \in PlanType /\ plan[p].read \in Seq(Versions)
      BY DEF InstallsTyped, PlanType
    <3>2. f \in Files /\ plan' = [plan EXCEPT ![p] = new]
      BY <1>8 DEF ReadFile
    <3>3. local[f] \in Versions
      BY <3>2 DEF SourcesTyped, Trees
    <3>7. Append(plan[p].read, local[f]) \in Seq(Versions)
      BY <3>1, <3>3
    <3>4. new \in PlanType
      BY <3>1, <3>7 DEF PlanType
    <3>5. ~(plan[p].checked > 0)
      BY <3>1, <3>2 DEF ReadBeforeReread, Files
    <3>6. new.checked = plan[p].checked
      BY <3>1 DEF PlanType
    <3> HIDE DEF new
    <3> QED
      BY <1>8, <3>2, <3>4, <3>5, <3>6, PlanTyped DEF ReadFile, InstallsTyped
  <2>3. HomeTyped'
    BY <1>8 DEF ReadFile, HomeTyped, outputs, sources
  <2> QED
    BY <2>1, <2>2, <2>3
<1>9. ASSUME NEW p \in Projects, RereadFile(p) PROVE SourcesKnown'
  <2>1. SourcesTyped'
    BY <1>9 DEF RereadFile, SourcesTyped, sources
  <2>2. InstallsTyped' /\ ReadBeforeReread' /\ home' \in Projects \union {Nobody}
    <3> DEFINE f == plan[p].checked + 1
                new == [plan[p] EXCEPT !.checked = f]
    <3>1. plan[p] \in PlanType /\ plan[p].checked \in 0..LastFile
      BY DEF InstallsTyped, PlanType
    <3>2. f \in 0..LastFile
      BY <1>9, <3>1, SourceBoundsAssumption DEF RereadFile, Files
    <3>3. new \in PlanType
      BY <3>1, <3>2 DEF PlanType
    <3>4. new.checked > 0 => Len(new.read) = LastFile
      BY <1>9, <3>1 DEF RereadFile, PlanType
    <3>5. CASE local[f] = plan[p].read[f]
      <4>1. plan' = [plan EXCEPT ![p] = new]
            /\ UNCHANGED <<home, pc, fetch, mode, attempt, outcome>>
        BY <1>9, <3>5 DEF RereadFile
      <4> HIDE DEF new
      <4> QED
        BY <3>3, <3>4, <4>1, PlanTyped DEF InstallsTyped, HomeTyped
    <3>6. CASE ~(local[f] = plan[p].read[f])
      <4>1. CaptureChanged(p)
        BY <1>9, <3>6 DEF RereadFile
      <4>2. CASE /\ mode[p] = "frozen"
                 /\ \A key \in plan[p].missing : key[1] # LocalAlias
        BY <4>1, <4>2
        DEF CaptureChanged, Goto, InstallsTyped, HomeTyped, ReadBeforeReread,
            Steps
      <4>3. CASE ~(/\ mode[p] = "frozen"
                   /\ \A key \in plan[p].missing : key[1] # LocalAlias)
        BY <4>1, <4>3, EndTyped DEF CaptureChanged, HomeTyped, Outcomes
      <4> QED
        BY <4>2, <4>3
    <3> QED
      BY <3>5, <3>6
  <2>3. HomeTyped'
    BY <1>9, <2>2 DEF RereadFile, HomeTyped, outputs
  <2> QED
    BY <2>1, <2>2, <2>3
<1>10. ASSUME NEW p \in Projects, Captured(p) PROVE SourcesKnown'
  <2>1. SourcesTyped'
    BY <1>10 DEF Captured, SourcesTyped, sources
  <2>2. InstallsTyped' /\ ReadBeforeReread' /\ home' \in Projects \union {Nobody}
    <3>1. CASE mode[p] = "resolving"
      <4> DEFINE new == [plan[p] EXCEPT !.members[LocalAlias] = plan[p].read]
      <4>1. plan[p] \in PlanType /\ plan[p].read \in Seq(Versions)
        BY DEF InstallsTyped, PlanType
      <4>2. Len(plan[p].read) = LastFile
        BY <1>10, SourceBoundsAssumption DEF Captured, ReadBeforeReread
      <4>3. plan[p].read \in Packages
        BY <4>1, <4>2 DEF Packages, Trees, Files
      <4>4. new \in PlanType
        BY <4>3, ResolvedTyped DEF Aliases
      <4>5. new.checked > 0 => Len(new.read) = LastFile
        BY <4>1, <4>2 DEF PlanType
      <4>6. /\ plan' = [plan EXCEPT ![p] = new] /\ pc' \in [Projects -> Steps]
            /\ UNCHANGED <<home, fetch, mode, attempt, outcome>>
        BY <1>10, <3>1 DEF Captured, Goto, InstallsTyped, Steps
      <4> HIDE DEF new
      <4> QED
        BY <4>4, <4>5, <4>6, PlanTyped DEF InstallsTyped, HomeTyped
    <3>2. CASE mode[p] = "frozen" /\ plan[p].members[LocalAlias] = plan[p].read
      BY <1>10, <3>2
      DEF Captured, Goto, InstallsTyped, HomeTyped, ReadBeforeReread, Steps
    <3>3. CASE mode[p] = "frozen" /\ plan[p].members[LocalAlias] # plan[p].read
      BY <1>10, <3>3, EndTyped DEF Captured, HomeTyped, Outcomes
    <3> QED
      BY <1>10, <3>1, <3>2, <3>3 DEF Captured
  <2>3. HomeTyped'
    BY <1>10, <2>2 DEF Captured, HomeTyped, outputs
  <2> QED
    BY <2>1, <2>2, <2>3
<1>11. ASSUME NEW p \in Projects, StageStore(p) PROVE SourcesKnown'
  <2>1. SourcesTyped'
    BY <1>11 DEF StageStore, SourcesTyped, sources
  <2>2. InstallsTyped' /\ ReadBeforeReread'
    <3>1. PICK key \in Planned(p) :
            plan' = [plan EXCEPT ![p].staged = @ \union {key}]
      BY <1>11 DEF StageStore
    <3> DEFINE new == [plan[p] EXCEPT !.staged = @ \union {key}]
    <3>2. new \in PlanType
      BY PlannedTyped DEF InstallsTyped, PlanType
    <3>3. new.checked > 0 => Len(new.read) = LastFile
      BY DEF InstallsTyped, PlanType, ReadBeforeReread
    <3>4. plan' = [plan EXCEPT ![p] = new]
      BY <3>1
    <3>5. /\ pc' \in [Projects -> Steps]
          /\ UNCHANGED <<fetch, mode, attempt, outcome>>
      BY <1>11 DEF StageStore, Goto, InstallsTyped, Steps
    <3> HIDE DEF new
    <3> QED
      BY <3>2, <3>3, <3>4, <3>5, PlanTyped DEF InstallsTyped
  <2>3. HomeTyped'
    BY <1>11, PlannedTyped DEF StageStore, HomeTyped, outputs
  <2> QED
    BY <2>1, <2>2, <2>3
<1>12. ASSUME NEW p \in Projects, Refuse(p) PROVE SourcesKnown'
  <2>1. SourcesTyped'
    BY <1>12, SpendTyped DEF Refuse, SourcesTyped, SpentType, sources
  <2>2. InstallsTyped' /\ ReadBeforeReread' /\ home' \in Projects \union {Nobody}
    BY <1>12, EndTyped DEF Refuse, HomeTyped, Outcomes
  <2>3. HomeTyped'
    BY <1>12, <2>2 DEF Refuse, HomeTyped, outputs
  <2> QED
    BY <2>1, <2>2, <2>3
<1>13. ASSUME NEW p \in Projects, PlanTargets(p) PROVE SourcesKnown'
  <2>1. SourcesTyped'
    BY <1>13 DEF PlanTargets, SourcesTyped, sources
  <2>2. InstallsTyped' /\ ReadBeforeReread' /\ home' \in Projects \union {Nobody}
    <3>1. CASE Recorded(Removals(p))
      <4> DEFINE new == [plan[p] EXCEPT
                   !.removals = Removals(p), !.runtime = Watched(p, Removals(p)),
                   !.lock = lock[p], !.installed = installed[p]]
      <4>1. new \in PlanType
        BY PlansTyped
      <4>2. new.checked > 0 => Len(new.read) = LastFile
        BY DEF InstallsTyped, PlanType, ReadBeforeReread
      <4>3. /\ plan' = [plan EXCEPT ![p] = new] /\ pc' \in [Projects -> Steps]
            /\ UNCHANGED <<home, fetch, mode, attempt, outcome>>
        BY <1>13, <3>1 DEF PlanTargets, Goto, InstallsTyped, Steps
      <4> HIDE DEF new
      <4> QED
        BY <4>1, <4>2, <4>3, PlanTyped DEF InstallsTyped, HomeTyped
    <3>2. CASE ~Recorded(Removals(p))
      BY <1>13, <3>2, EndTyped DEF PlanTargets, HomeTyped, Outcomes
    <3> QED
      BY <3>1, <3>2
  <2>3. HomeTyped'
    BY <1>13, <2>2 DEF PlanTargets, HomeTyped, outputs
  <2> QED
    BY <2>1, <2>2, <2>3
<1>14. ASSUME NEW p \in Projects, LockTimeout(p) PROVE SourcesKnown'
  <2>1. SourcesTyped'
    BY <1>14 DEF LockTimeout, SourcesTyped, sources
  <2>2. InstallsTyped' /\ ReadBeforeReread' /\ home' \in Projects \union {Nobody}
    BY <1>14, EndTyped DEF LockTimeout, HomeTyped, Outcomes
  <2>3. HomeTyped'
    BY <1>14, <2>2 DEF LockTimeout, HomeTyped, outputs
  <2> QED
    BY <2>1, <2>2, <2>3
<1>15. ASSUME NEW p \in Projects, Recover(p) PROVE SourcesKnown'
  <2>1. SourcesTyped'
    BY <1>15 DEF Recover, SourcesTyped, sources
  <2>2. InstallsTyped' /\ ReadBeforeReread'
    BY <1>15 DEF Recover, Goto, InstallsTyped, ReadBeforeReread, Steps
  <2>3. journal' \in JournalType
    BY <1>15 DEF Recover, HomeTyped, JournalType
  <2>4. HomeTyped'
    BY <1>15, <2>3 DEF Recover, HomeTyped, outputs
  <2> QED
    BY <2>1, <2>2, <2>4
<1>16. ASSUME NEW p \in Projects, Revalidate(p) PROVE SourcesKnown'
  <2>1. SourcesTyped'
    BY <1>16 DEF Revalidate, SourcesTyped, sources
  <2>2. InstallsTyped' /\ ReadBeforeReread' /\ home' \in Projects \union {Nobody}
    <3> DEFINE current == PreimagesCurrent(p) /\ skillfile[p] = plan[p].skillfile
    <3>1. CASE Recorded(plan[p].removals) /\ current
      <4> DEFINE new == [plan[p] EXCEPT !.data = skillfile[p]]
      <4>1. new \in PlanType
        BY PlansTyped
      <4>2. new.checked > 0 => Len(new.read) = LastFile
        BY DEF InstallsTyped, PlanType, ReadBeforeReread
      <4>3. /\ plan' = [plan EXCEPT ![p] = new] /\ pc' \in [Projects -> Steps]
            /\ UNCHANGED <<home, fetch, mode, attempt, outcome>>
        BY <1>16, <3>1 DEF Revalidate, Goto, InstallsTyped, Steps
      <4> HIDE DEF new
      <4> QED
        BY <4>1, <4>2, <4>3, PlanTyped DEF InstallsTyped, HomeTyped
    <3>2. CASE Recorded(plan[p].removals) /\ ~current
      BY <1>16, <3>2, RetryTyped DEF Revalidate, HomeTyped
    <3>3. CASE ~Recorded(plan[p].removals)
      BY <1>16, <3>3, EndTyped DEF Revalidate, HomeTyped, Outcomes
    <3> QED
      BY <3>1, <3>2, <3>3
  <2>3. HomeTyped'
    BY <1>16, <2>2 DEF Revalidate, HomeTyped, outputs
  <2> QED
    BY <2>1, <2>2, <2>3
<1>17. ASSUME NEW p \in Projects, Prepare(p) PROVE SourcesKnown'
  <2>1. SourcesTyped'
    BY <1>17 DEF Prepare, Settled, End, SourcesTyped, sources
  <2>2. InstallsTyped' /\ ReadBeforeReread' /\ home' \in Projects \union {Nobody}
    <3>1. CASE Publishable(p) /\ Targets(p) # {}
      BY <1>17, <3>1 DEF Prepare, Goto, InstallsTyped, HomeTyped, ReadBeforeReread, Steps
    <3>2. CASE Publishable(p) /\ Targets(p) = {}
      BY <1>17, <3>2, EndTyped DEF Prepare, HomeTyped, Outcomes
    <3>3. CASE ~Publishable(p)
      BY <1>17, <3>3, EndTyped DEF Prepare, HomeTyped, Outcomes
    <3> QED
      BY <3>1, <3>2, <3>3
  <2>3. HomeTyped'
    <3>1. JournalOf(p) \in JournalType
      <4>1. Desired(p) \in Locks /\ plan[p].old \in Locks
        BY DEF Desired, InstallsTyped, PlanType, Locks
      <4>2. /\ Planned(p) \ runtime \in SUBSET Entries
            /\ plan[p].removals \intersect runtime \in SUBSET Entries
            /\ Targets(p) \in SUBSET Classes
        BY PlannedTyped DEF HomeTyped, Targets
      <4>3. lock[p] \in Locks /\ installed[p] \in Locks /\ robbed \in SUBSET Entries
        BY DEF HomeTyped
      <4> QED
        BY <4>1, <4>2, <4>3, NothingTyped DEF JournalOf, JournalType
    <3>2. plan[p].missing \subseteq Entries
      BY DEF InstallsTyped, PlanType
    <3>3. store' \subseteq Entries /\ journal' \in JournalType
      BY <1>17, <3>1, <3>2 DEF Prepare, HomeTyped
    <3> QED
      BY <1>17, <2>2, <3>3 DEF Prepare, HomeTyped, outputs
  <2> QED
    BY <2>1, <2>2, <2>3
<1>18. ASSUME NEW p \in Projects, Moving(p) PROVE SourcesKnown'
  <2>1. /\ UNCHANGED <<sources, store, home, process, spent, dropped>>
        /\ journal' \in JournalType /\ LockMoved /\ ContextMoved
        /\ runtime' \subseteq Entries /\ robbed' \subseteq Entries
    BY <1>18, MovingKeeps
  <2>2. /\ journal.new \in Locks /\ journal.lock \in Locks
        /\ journal.installed \in Locks /\ NoLock \in Locks
    BY NothingTyped DEF HomeTyped, JournalType
  <2>3. /\ lock' \in [Projects -> Locks] /\ installed' \in [Projects -> Locks]
        /\ replaced' \subseteq Projects
    BY <2>1, <2>2
    DEF LockMoved, ContextMoved, Superseded, HomeTyped, SourcesTyped
  <2>4. SourcesTyped'
    BY <2>1, <2>3 DEF SourcesTyped, sources
  <2>5. InstallsTyped' /\ ReadBeforeReread'
    BY <2>1 DEF process, InstallsTyped, ReadBeforeReread
  <2>6. HomeTyped'
    BY <2>1, <2>3 DEF HomeTyped
  <2> QED
    BY <2>4, <2>5, <2>6
<1>19. ASSUME NEW p \in Projects, Decide(p) PROVE SourcesKnown'
  <2>1. SourcesTyped'
    BY <1>19 DEF Decide, Settled, SourcesTyped, sources
  <2>2. InstallsTyped' /\ ReadBeforeReread' /\ home' \in Projects \union {Nobody}
    <3>1. CASE pc[p] = "apply"
      BY <1>19, <3>1, EndTyped DEF Decide, HomeTyped, Outcomes
    <3>2. CASE pc[p] # "apply"
      BY <1>19, <3>2
      DEF Decide, Goto, HomeTyped, InstallsTyped, ReadBeforeReread, Steps
    <3> QED
      BY <3>1, <3>2
  <2>3. HomeTyped'
    BY <1>19, <2>2, NothingTyped DEF Decide, HomeTyped, outputs
  <2> QED
    BY <2>1, <2>2, <2>3
<1>20. ASSUME NEW p \in Projects, CommitFails(p) PROVE SourcesKnown'
  <2>1. SourcesTyped'
    BY <1>20, SpendTyped DEF CommitFails, SourcesTyped, SpentType, sources
  <2>2. InstallsTyped' /\ ReadBeforeReread'
    BY <1>20 DEF CommitFails, Goto, InstallsTyped, ReadBeforeReread, Steps
  <2>3. journal' \in JournalType
    BY <1>20 DEF CommitFails, HomeTyped, JournalType
  <2>4. HomeTyped'
    BY <1>20, <2>3 DEF CommitFails, HomeTyped, outputs
  <2> QED
    BY <2>1, <2>2, <2>4
<1>21. ASSUME NEW p \in Projects, RolledBack(p) PROVE SourcesKnown'
  <2>1. SourcesTyped'
    BY <1>21 DEF RolledBack, CloseRollback, SourcesTyped, sources
  <2>2. InstallsTyped' /\ ReadBeforeReread' /\ home' \in Projects \union {Nobody}
    <3>1. CASE pc[p] = "undo"
      BY <1>21, <3>1, EndTyped DEF RolledBack, CloseRollback, HomeTyped, Outcomes
    <3>2. CASE pc[p] # "undo"
      BY <1>21, <3>2
      DEF RolledBack, CloseRollback, Goto, HomeTyped, InstallsTyped,
          ReadBeforeReread, Steps
    <3> QED
      BY <3>1, <3>2
  <2>3. HomeTyped'
    BY <1>21, <2>2, NothingTyped DEF RolledBack, CloseRollback, HomeTyped, outputs
  <2> QED
    BY <2>1, <2>2, <2>3
<1>22. ASSUME NEW p \in Projects, Crash(p) PROVE SourcesKnown'
  <2>1. SourcesTyped'
    BY <1>22, SpendTyped DEF Crash, SourcesTyped, SpentType, sources
  <2>2. InstallsTyped' /\ ReadBeforeReread' /\ home' \in Projects \union {Nobody}
    BY <1>22, EndTyped DEF Crash, HomeTyped, Outcomes
  <2>3. HomeTyped'
    BY <1>22, <2>2 DEF Crash, HomeTyped, outputs
  <2> QED
    BY <2>1, <2>2, <2>3
<1>23. ASSUME NEW p \in Projects, EditSkillfile(p) PROVE SourcesKnown'
  <2>1. SourcesTyped'
    BY <1>23, SpendTyped DEF EditSkillfile, SourcesTyped, SpentType
  <2>2. InstallsTyped' /\ ReadBeforeReread'
    BY <1>23 DEF EditSkillfile, process, InstallsTyped, ReadBeforeReread
  <2>3. HomeTyped'
    BY <1>23 DEF EditSkillfile, HomeTyped, outputs
  <2> QED
    BY <2>1, <2>2, <2>3
<1>24. ASSUME NEW p \in Projects, PullLock(p) PROVE SourcesKnown'
  <2>1. SourcesTyped'
    BY <1>24, SpendTyped DEF PullLock, SourcesTyped, SpentType, sources
  <2>2. InstallsTyped' /\ ReadBeforeReread'
    BY <1>24 DEF PullLock, process, InstallsTyped, ReadBeforeReread
  <2>3. HomeTyped'
    <3>1. PICK c \in Commits : lock' = [lock EXCEPT ![p] = LockOf(skillfile[p], c, local)]
      BY <1>24 DEF PullLock
    <3>2. LockOf(skillfile[p], c, local) \in Locks
      BY LockOfTyped DEF SourcesTyped
    <3> QED
      BY <1>24, <3>1, <3>2 DEF PullLock, HomeTyped
  <2> QED
    BY <2>1, <2>2, <2>3
<1>25. CASE MoveBranch
  <2>1. SourcesTyped'
    BY <1>25, SpendTyped DEF MoveBranch, SourcesTyped, SpentType
  <2>2. HomeTyped'
    BY <1>25 DEF MoveBranch, HomeTyped, outputs
  <2>3. InstallsTyped' /\ ReadBeforeReread'
    BY <1>25 DEF MoveBranch, process, InstallsTyped, ReadBeforeReread
  <2> QED
    BY <2>1, <2>2, <2>3
<1>26. CASE EditFile
  <2>1. SourcesTyped'
    <3>1. PICK f \in Files : local[f] < MaxEdits /\ local' = [local EXCEPT ![f] = @ + 1]
      BY <1>26 DEF EditFile
    <3>2. local[f] + 1 \in Versions
      BY <3>1, SourceBoundsAssumption DEF SourcesTyped, Trees, Versions
    <3>3. local' \in Trees
      BY <3>1, <3>2 DEF SourcesTyped, Trees
    <3> QED
      BY <1>26, <3>3 DEF EditFile, SourcesTyped
  <2>2. HomeTyped'
    BY <1>26 DEF EditFile, HomeTyped, outputs
  <2>3. InstallsTyped' /\ ReadBeforeReread'
    BY <1>26 DEF EditFile, process, InstallsTyped, ReadBeforeReread
  <2> QED
    BY <2>1, <2>2, <2>3
<1>27. CASE DropStore
  <2>1. SourcesTyped'
    BY <1>27, SpendTyped DEF DropStore, SourcesTyped, SpentType, sources
  <2>2. HomeTyped'
    BY <1>27 DEF DropStore, HomeTyped, outputs
  <2>3. InstallsTyped' /\ ReadBeforeReread'
    BY <1>27 DEF DropStore, process, InstallsTyped, ReadBeforeReread
  <2> QED
    BY <2>1, <2>2, <2>3
<1> QED
  BY <1>0, <1>1, <1>2, <1>3, <1>4, <1>5, <1>6, <1>7, <1>8, <1>9, <1>10,
     <1>11, <1>12, <1>13, <1>14, <1>15, <1>16, <1>17, <1>18, <1>19, <1>20,
     <1>21, <1>22, <1>23, <1>24, <1>25, <1>26, <1>27
  DEF Next, Install, Plan, Commit, Rollback, Moving

\* The aliases that the plan has a package for.
Have(p) == {a \in Aliases : plan[p].members[a] # NoPackage}

OneCommit(members) ==
  \A a, b \in GitAliases :
    members[a] # NoPackage /\ members[b] # NoPackage => members[a] = members[b]

\* How far the resolution of a plan has come at each step: at the end it has
\* a package for exactly what the Skillfile selects.
PlanResolved(p) ==
  /\ OneResolution(plan[p].old)
  /\ OneCommit(plan[p].members)
  /\ pc[p] \in {"idle", "select", "read"} => Have(p) = {}
  /\ pc[p] = "resolve" => mode[p] = "resolving" /\ Have(p) \subseteq Wanted(p)
  /\ pc[p] = "serve" => mode[p] = "frozen"
  /\ pc[p] = "capture" =>
       /\ LocalAlias \in plan[p].skillfile
       /\ Have(p) = IF mode[p] = "resolving" THEN Wanted(p) ELSE plan[p].skillfile
  /\ pc[p] \in {"serve", "store", "plan", "lock", "replay", "restore",
                "revalidate", "prepare"} =>
       Have(p) = plan[p].skillfile
  /\ pc[p] = "prepare" => plan[p].data = plan[p].skillfile

PlansResolved == \A p \in Projects : PlanResolved(p)
JournalResolved == OneResolution(journal.new) /\ OneResolution(journal.lock)
Resolution == LockIsOneResolution /\ JournalResolved /\ PlansResolved

LEMMA NothingResolved ==
  /\ OneResolution(NoLock) /\ OneCommit(NoPlan.members)
  /\ OneResolution(NoPlan.old)
  /\ OneResolution(NoJournal.new) /\ OneResolution(NoJournal.lock)
BY DEF OneResolution, OneCommit, NoLock, NoPlan, NoJournal, Unresolved, Aliases

\* Every lock that is made in one piece is the outcome of one resolution.
LEMMA LockOfResolved ==
  ASSUME NEW aliases \in Skillfiles, NEW c \in Commits, NEW tree \in Trees
  PROVE  OneResolution(LockOf(aliases, c, tree))
<1>1. aliases \in SUBSET Aliases
  BY AliasesAssumption
<1>2. c # NoPackage /\ tree # NoPackage
  BY PackagesAssumption DEF Packages
<1> QED
  BY <1>1, <1>2 DEF OneResolution, LockOf, Aliases

\* The plans of the other projects are not touched.
LEMMA OthersResolved ==
  ASSUME NEW p \in Projects, PlansResolved,
         \A q \in Projects \ {p} :
           plan'[q] = plan[q] /\ pc'[q] = pc[q] /\ mode'[q] = mode[q],
         PlanResolved(p)'
  PROVE  PlansResolved'
BY DEF PlansResolved, PlanResolved, Have, Wanted

LEMMA EndResolved ==
  ASSUME InstallsTyped, PlansResolved, NEW p \in Projects,
         NEW how \in Outcomes, End(p, how)
  PROVE  PlansResolved'
<1>1. PlanResolved(p)'
  BY NothingResolved
  DEF End, Goto, InstallsTyped, PlanResolved, Have, NoPlan, Unresolved
<1> QED
  BY <1>1, OthersResolved DEF End, Goto, InstallsTyped

LEMMA RetryResolved ==
  ASSUME InstallsTyped, PlansResolved, NEW p \in Projects, Retry(p)
  PROVE  PlansResolved'
<1>1. CASE attempt[p] < Attempts
  <2>1. plan'[p] = NoPlan /\ pc'[p] = "select"
    BY <1>1 DEF Retry, Goto, InstallsTyped
  <2>2. PlanResolved(p)'
    BY <2>1, NothingResolved DEF PlanResolved, Have, NoPlan, Unresolved
  <2> QED
    BY <1>1, <2>2, OthersResolved DEF Retry, Goto, InstallsTyped
<1>2. CASE ~(attempt[p] < Attempts)
  BY <1>2, EndResolved DEF Retry, Outcomes
<1> QED
  BY <1>1, <1>2

\* A process that has closed a journal it found goes on with its plan.
LEMMA ClosedResolved ==
  ASSUME InstallsTyped, PlansResolved, NEW p \in Projects,
         pc[p] \in {"replay", "restore"}, Goto(p, "revalidate"),
         UNCHANGED <<plan, mode>>
  PROVE  PlansResolved'
<1>1. /\ pc'[p] = "revalidate" /\ \A q \in Projects \ {p} : pc'[q] = pc[q]
  BY DEF Goto, InstallsTyped
<1>2. PlanResolved(p)'
  BY <1>1 DEF PlansResolved, PlanResolved, Have, Wanted
<1> QED
  BY <1>1, <1>2, OthersResolved

\* One step keeps every lock, and every plan on its way to one, the outcome of
\* one resolution.
LEMMA ResolutionStep ==
  ASSUME SourcesKnown, Resolution, [Next]_vars
  PROVE  Resolution'
<1> USE DEF SourcesKnown, TypeOK, Resolution
<1>0. CASE UNCHANGED vars
  BY <1>0
  DEF vars, LockIsOneResolution, JournalResolved, PlansResolved, PlanResolved,
      Have, Wanted
<1>1. ASSUME NEW p \in Projects, Start(p) PROVE Resolution'
  <2>1. LockIsOneResolution'
    BY <1>1 DEF Start, LockIsOneResolution, outputs
  <2>2. JournalResolved'
    BY <1>1 DEF Start, JournalResolved
  <2>3. PlansResolved'
    <3>1. PlanResolved(p)'
      BY <1>1 DEF Start, Goto, PlansResolved, PlanResolved, Have, Wanted, InstallsTyped, PlanType
    <3> QED
      BY <1>1, <3>1, OthersResolved DEF Start, Goto, InstallsTyped
  <2> QED
    BY <2>1, <2>2, <2>3
<1>2. ASSUME NEW p \in Projects, Select(p) PROVE Resolution'
  <2>1. LockIsOneResolution'
    BY <1>2 DEF Select, LockIsOneResolution, outputs
  <2>2. JournalResolved'
    BY <1>2 DEF Select, JournalResolved
  <2>3. PlansResolved'
    <3>1. PlanResolved(p)'
      BY <1>2 DEF Select, Goto, PlansResolved, PlanResolved, Have, Wanted, InstallsTyped, PlanType, OneResolution, LockIsOneResolution
    <3> QED
      BY <1>2, <3>1, OthersResolved DEF Select, Goto, InstallsTyped
  <2> QED
    BY <2>1, <2>2, <2>3
<1>3. ASSUME NEW p \in Projects, ReadFrozen(p) PROVE Resolution'
  <2>1. LockIsOneResolution'
    BY <1>3 DEF ReadFrozen, LockIsOneResolution, outputs
  <2>2. JournalResolved'
    BY <1>3 DEF ReadFrozen, JournalResolved
  <2>3. PlansResolved'
    <3>1. CASE plan[p].old.skillfile = skillfile[p]
      <4>1. /\ plan' = [plan EXCEPT ![p] = [@ EXCEPT
                 !.skillfile = skillfile[p], !.members = plan[p].old.members]]
            /\ Goto(p, "serve") /\ mode' = mode /\ mode[p] = "frozen"
        BY <1>3, <3>1 DEF ReadFrozen
      <4>2. /\ plan'[p].members = plan[p].old.members
            /\ plan'[p].skillfile = plan[p].old.skillfile
            /\ plan'[p].old = plan[p].old
        BY <3>1, <4>1 DEF InstallsTyped, PlanType
      <4>6. mode'[p] = "frozen" /\ pc'[p] = "serve"
        BY <4>1 DEF Goto, InstallsTyped
      <4>3. OneResolution(plan[p].old)
        BY DEF PlansResolved, PlanResolved
      <4>4. Have(p)' = plan'[p].skillfile
        BY <4>2, <4>3 DEF Have, OneResolution
      <4>5. OneCommit(plan'[p].members)
        BY <4>2, <4>3 DEF OneCommit, OneResolution, Aliases
      <4>7. PlanResolved(p)'
        BY <4>2, <4>3, <4>4, <4>5, <4>6 DEF PlanResolved
      <4> QED
        BY <4>1, <4>7, OthersResolved DEF Goto, InstallsTyped
    <3>2. CASE ~(plan[p].old.skillfile = skillfile[p])
      BY <1>3, <3>2, EndResolved DEF ReadFrozen, Outcomes
    <3> QED
      BY <3>1, <3>2
  <2> QED
    BY <2>1, <2>2, <2>3
<1>4. ASSUME NEW p \in Projects, ReadResolving(p) PROVE Resolution'
  <2>1. LockIsOneResolution'
    BY <1>4 DEF ReadResolving, LockIsOneResolution, outputs
  <2>2. JournalResolved'
    BY <1>4 DEF ReadResolving, JournalResolved
  <2>3. PlansResolved'
    <3>1. PlanResolved(p)'
      BY <1>4 DEF ReadResolving, Goto, PlansResolved, PlanResolved, Have, Wanted, InstallsTyped, PlanType, LockIsOneResolution
    <3> QED
      BY <1>4, <3>1, OthersResolved DEF ReadResolving, Goto, InstallsTyped
  <2> QED
    BY <2>1, <2>2, <2>3
<1>5. ASSUME NEW p \in Projects, Resolve(p) PROVE Resolution'
  <2>1. LockIsOneResolution'
    BY <1>5 DEF Resolve, LockIsOneResolution, outputs
  <2>2. JournalResolved'
    BY <1>5 DEF Resolve, JournalResolved
  <2>3. PlansResolved'
    <3>1. PICK a \in Wanted(p) :
            /\ plan[p].members[a] = NoPackage
            /\ plan' = [plan EXCEPT ![p].members[a] = ResolveGitAlias(p, a)]
      BY <1>5 DEF Resolve
    <3>2. plan[p].members \in Members /\ a \in GitAliases /\ a \in Aliases
      BY DEF InstallsTyped, PlanType, Wanted, Aliases
    <3>3. /\ plan'[p].members = [plan[p].members EXCEPT ![a] = ResolveGitAlias(p, a)]
          /\ plan'[p].old = plan[p].old /\ plan'[p].skillfile = plan[p].skillfile
      BY <3>1 DEF InstallsTyped, PlanType
    <3>4. \A b \in GitAliases : plan[p].members[b] # NoPackage =>
            plan[p].members[b] = ResolveGitAlias(p, a)
      <4> DEFINE known == {plan[p].members[b] : b \in GitAliases} \ {NoPackage}
      <4>1. \A x, y \in known : x = y
        BY DEF PlansResolved, PlanResolved, OneCommit
      <4>2. known # {} => (CHOOSE c \in known : TRUE) \in known
        BY Zenon
      <4>3. ResolveGitAlias(p, a) =
              IF known = {} THEN upstream ELSE CHOOSE c \in known : TRUE
        BY DEF ResolveGitAlias
      <4>4. \A b \in GitAliases :
              plan[p].members[b] # NoPackage => plan[p].members[b] \in known
        OBVIOUS
      <4> HIDE DEF known
      <4> QED
        BY <4>1, <4>2, <4>3, <4>4
    <3>5. OneCommit(plan'[p].members)
      BY <3>2, <3>3, <3>4 DEF OneCommit, PlansResolved, PlanResolved, Members, Aliases
    <3>6. Have(p)' \subseteq Have(p) \union {a}
      BY <3>2, <3>3 DEF Have, Members
    <3>7. pc' = pc /\ mode' = mode /\ pc[p] = "resolve"
      BY <1>5 DEF Resolve
    <3>8. PlanResolved(p)'
      BY <3>3, <3>5, <3>6, <3>7 DEF PlansResolved, PlanResolved, Wanted
    <3> QED
      BY <3>1, <3>7, <3>8, OthersResolved DEF InstallsTyped
  <2> QED
    BY <2>1, <2>2, <2>3
<1>6. ASSUME NEW p \in Projects, Resolved(p) PROVE Resolution'
  <2>1. LockIsOneResolution'
    BY <1>6 DEF Resolved, LockIsOneResolution, outputs
  <2>2. JournalResolved'
    BY <1>6 DEF Resolved, JournalResolved
  <2>3. PlansResolved'
    <3>1. Have(p) = Wanted(p)
      BY <1>6 DEF Resolved, PlansResolved, PlanResolved, Have, Wanted, Aliases
    <3>2. LocalAlias \notin plan[p].skillfile => Wanted(p) = plan[p].skillfile
      BY DEF Wanted, InstallsTyped, PlanType, Aliases
    <3>3. plan' = plan /\ mode' = mode /\ Have(p)' = Have(p) /\ Wanted(p)' = Wanted(p)
      BY <1>6 DEF Resolved, Have, Wanted
    <3>4. /\ pc[p] = "resolve"
          /\ pc'[p] = IF LocalAlias \in plan[p].skillfile THEN "capture" ELSE "store"
      BY <1>6 DEF Resolved, Goto, InstallsTyped
    <3>5. PlanResolved(p)'
      BY <3>1, <3>2, <3>3, <3>4 DEF PlansResolved, PlanResolved
    <3> QED
      BY <1>6, <3>5, OthersResolved DEF Resolved, Goto, InstallsTyped
  <2> QED
    BY <2>1, <2>2, <2>3
<1>7. ASSUME NEW p \in Projects, Serve(p) PROVE Resolution'
  <2>1. LockIsOneResolution'
    BY <1>7 DEF Serve, LockIsOneResolution, outputs
  <2>2. JournalResolved'
    BY <1>7 DEF Serve, JournalResolved
  <2>3. PlansResolved'
    <3>1. PlanResolved(p)'
      BY <1>7 DEF Serve, Goto, PlansResolved, PlanResolved, Have, Wanted, InstallsTyped, PlanType
    <3> QED
      BY <1>7, <3>1, OthersResolved DEF Serve, Goto, InstallsTyped
  <2> QED
    BY <2>1, <2>2, <2>3
<1>8. ASSUME NEW p \in Projects, ReadFile(p) PROVE Resolution'
  <2>1. LockIsOneResolution'
    BY <1>8 DEF ReadFile, LockIsOneResolution, outputs
  <2>2. JournalResolved'
    BY <1>8 DEF ReadFile, JournalResolved
  <2>3. PlansResolved'
    <3>1. PlanResolved(p)'
      BY <1>8 DEF ReadFile, Goto, PlansResolved, PlanResolved, Have, Wanted, InstallsTyped, PlanType
    <3> QED
      BY <1>8, <3>1, OthersResolved DEF ReadFile, Goto, InstallsTyped
  <2> QED
    BY <2>1, <2>2, <2>3
<1>9. ASSUME NEW p \in Projects, RereadFile(p) PROVE Resolution'
  <2>1. LockIsOneResolution'
    BY <1>9 DEF RereadFile, LockIsOneResolution, outputs
  <2>2. JournalResolved'
    BY <1>9 DEF RereadFile, JournalResolved
  <2>3. PlansResolved'
    <3> DEFINE f == plan[p].checked + 1
    <3>1. CASE local[f] = plan[p].read[f]
      <4>2. /\ plan'[p].members = plan[p].members
            /\ plan'[p].skillfile = plan[p].skillfile
            /\ plan'[p].old = plan[p].old
            /\ pc' = pc /\ mode' = mode /\ pc[p] = "capture"
        BY <1>9, <3>1 DEF RereadFile, InstallsTyped, PlanType
      <4>1. PlanResolved(p)'
        BY <4>2 DEF PlansResolved, PlanResolved, Have, Wanted
      <4> QED
        BY <1>9, <3>1, <4>1, OthersResolved DEF RereadFile, InstallsTyped
    <3>2. CASE ~(local[f] = plan[p].read[f])
      <4>1. CaptureChanged(p) /\ pc[p] = "capture"
        BY <1>9, <3>2 DEF RereadFile
      <4>2. CASE /\ mode[p] = "frozen"
                 /\ \A key \in plan[p].missing : key[1] # LocalAlias
        <5>1. PlanResolved(p)'
          BY <4>1, <4>2 DEF CaptureChanged, Goto, PlansResolved, PlanResolved, Have, Wanted, InstallsTyped, PlanType
        <5> QED
          BY <4>1, <4>2, <5>1, OthersResolved
          DEF CaptureChanged, Goto, InstallsTyped
      <4>3. CASE ~(/\ mode[p] = "frozen"
                   /\ \A key \in plan[p].missing : key[1] # LocalAlias)
        BY <4>1, <4>3, EndResolved DEF CaptureChanged, Outcomes
      <4> QED
        BY <4>2, <4>3
    <3> QED
      BY <3>1, <3>2
  <2> QED
    BY <2>1, <2>2, <2>3
<1>10. ASSUME NEW p \in Projects, Captured(p) PROVE Resolution'
  <2>1. LockIsOneResolution'
    BY <1>10 DEF Captured, LockIsOneResolution, outputs
  <2>2. JournalResolved'
    BY <1>10 DEF Captured, JournalResolved
  <2>3. PlansResolved'
    <3>1. CASE mode[p] = "resolving"
      <4>1. plan[p].members \in Members /\ plan[p].skillfile \subseteq Aliases
        BY DEF InstallsTyped, PlanType
      <4>2. plan[p].read \in Packages
        BY <1>10, SourceBoundsAssumption
        DEF Captured, ReadBeforeReread, InstallsTyped, PlanType, Packages, Trees, Files
      <4>3. plan[p].read # NoPackage
        BY <4>2, PackagesAssumption
      <4>4. /\ plan'[p].members = [plan[p].members EXCEPT ![LocalAlias] = plan[p].read]
            /\ plan'[p].old = plan[p].old /\ plan'[p].skillfile = plan[p].skillfile
        BY <1>10, <3>1 DEF Captured, InstallsTyped, PlanType
      <4>9. pc[p] = "capture" /\ pc'[p] = "store" /\ mode' = mode
        BY <1>10, <3>1 DEF Captured, Goto, InstallsTyped
      <4>5. Have(p)' = Have(p) \union {LocalAlias}
        BY <4>1, <4>3, <4>4 DEF Have, Members, Aliases
      <4>6. Have(p)' = plan'[p].skillfile
        BY <3>1, <4>1, <4>4, <4>5, <4>9
        DEF PlansResolved, PlanResolved, Wanted, Aliases
      <4>7. OneCommit(plan'[p].members)
        BY <4>1, <4>4, AliasesAssumption
        DEF PlansResolved, PlanResolved, OneCommit, Members, Aliases
      <4>8. PlanResolved(p)'
        BY <4>4, <4>6, <4>7, <4>9 DEF PlansResolved, PlanResolved
      <4> QED
        BY <1>10, <3>1, <4>8, OthersResolved DEF Captured, Goto, InstallsTyped
    <3>2. CASE mode[p] = "frozen" /\ plan[p].members[LocalAlias] = plan[p].read
      <4>1. PlanResolved(p)'
        BY <1>10, <3>2 DEF Captured, Goto, PlanResolved, Have, Wanted,
           InstallsTyped, PlanType, PlansResolved
      <4> QED
        BY <1>10, <3>2, <4>1, OthersResolved DEF Captured, Goto, InstallsTyped
    <3>3. CASE mode[p] = "frozen" /\ plan[p].members[LocalAlias] # plan[p].read
      BY <1>10, <3>3, EndResolved DEF Captured, Outcomes
    <3> QED
      BY <1>10, <3>1, <3>2, <3>3 DEF Captured
  <2> QED
    BY <2>1, <2>2, <2>3
<1>11. ASSUME NEW p \in Projects, StageStore(p) PROVE Resolution'
  <2>1. LockIsOneResolution'
    BY <1>11 DEF StageStore, LockIsOneResolution, outputs
  <2>2. JournalResolved'
    BY <1>11 DEF StageStore, JournalResolved
  <2>3. PlansResolved'
    <3>1. PlanResolved(p)'
      BY <1>11 DEF StageStore, Goto, PlansResolved, PlanResolved, Have, Wanted, InstallsTyped, PlanType
    <3> QED
      BY <1>11, <3>1, OthersResolved DEF StageStore, Goto, InstallsTyped
  <2> QED
    BY <2>1, <2>2, <2>3
<1>12. ASSUME NEW p \in Projects, Refuse(p) PROVE Resolution'
  <2>1. LockIsOneResolution'
    BY <1>12 DEF Refuse, LockIsOneResolution, outputs
  <2>2. JournalResolved'
    BY <1>12 DEF Refuse, JournalResolved
  <2>3. PlansResolved'
    BY <1>12, EndResolved DEF Refuse, Outcomes
  <2> QED
    BY <2>1, <2>2, <2>3
<1>13. ASSUME NEW p \in Projects, PlanTargets(p) PROVE Resolution'
  <2>1. LockIsOneResolution'
    BY <1>13 DEF PlanTargets, LockIsOneResolution, outputs
  <2>2. JournalResolved'
    BY <1>13 DEF PlanTargets, JournalResolved
  <2>3. PlansResolved'
    <3>1. CASE Recorded(Removals(p))
      <4>2. /\ plan' = [plan EXCEPT ![p] = [@ EXCEPT
                 !.removals = Removals(p), !.runtime = Watched(p, Removals(p)),
                 !.lock = lock[p], !.installed = installed[p]]]
            /\ pc[p] = "plan" /\ pc'[p] = "lock" /\ mode' = mode
        BY <1>13, <3>1 DEF PlanTargets, Goto, InstallsTyped
      <4>3. /\ plan'[p].members = plan[p].members /\ plan'[p].old = plan[p].old
            /\ plan'[p].skillfile = plan[p].skillfile
        BY <4>2 DEF InstallsTyped, PlanType
      <4>1. PlanResolved(p)'
        BY <4>2, <4>3 DEF PlansResolved, PlanResolved, Have
      <4> QED
        BY <1>13, <3>1, <4>1, OthersResolved DEF PlanTargets, Goto, InstallsTyped
    <3>2. CASE ~Recorded(Removals(p))
      BY <1>13, <3>2, EndResolved DEF PlanTargets, Outcomes
    <3> QED
      BY <3>1, <3>2
  <2> QED
    BY <2>1, <2>2, <2>3
<1>14. ASSUME NEW p \in Projects, LockTimeout(p) PROVE Resolution'
  <2>1. LockIsOneResolution'
    BY <1>14 DEF LockTimeout, LockIsOneResolution, outputs
  <2>2. JournalResolved'
    BY <1>14 DEF LockTimeout, JournalResolved
  <2>3. PlansResolved'
    BY <1>14, EndResolved DEF LockTimeout, Outcomes
  <2> QED
    BY <2>1, <2>2, <2>3
<1>15. ASSUME NEW p \in Projects, Recover(p) PROVE Resolution'
  <2>1. LockIsOneResolution'
    BY <1>15 DEF Recover, outputs, LockIsOneResolution
  <2>2. journal'.new = journal.new /\ journal'.lock = journal.lock
    BY <1>15 DEF Recover, HomeTyped, JournalType
  <2>3. PlansResolved'
    <3>1. /\ pc'[p] \in {"revalidate", "replay", "undo", "restore"}
          /\ pc[p] = "lock" /\ UNCHANGED <<plan, mode>>
          /\ \A q \in Projects \ {p} : pc'[q] = pc[q]
      BY <1>15 DEF Recover, Goto, InstallsTyped
    <3>2. PlanResolved(p)'
      BY <3>1 DEF PlansResolved, PlanResolved, Have, Wanted
    <3> QED
      BY <3>1, <3>2, OthersResolved
  <2> QED
    BY <2>1, <2>2, <2>3 DEF JournalResolved
<1>16. ASSUME NEW p \in Projects, Revalidate(p) PROVE Resolution'
  <2>1. LockIsOneResolution'
    BY <1>16 DEF Revalidate, LockIsOneResolution, outputs
  <2>2. JournalResolved'
    BY <1>16 DEF Revalidate, JournalResolved
  <2>3. PlansResolved'
    <3>1. CASE Recorded(plan[p].removals) /\ PreimagesCurrent(p)
               /\ skillfile[p] = plan[p].skillfile
      <4>2. /\ plan'[p].members = plan[p].members
            /\ plan'[p].skillfile = plan[p].skillfile
            /\ plan'[p].old = plan[p].old /\ plan'[p].data = skillfile[p]
            /\ mode' = mode /\ pc[p] = "revalidate" /\ pc'[p] = "prepare"
        BY <1>16, <3>1 DEF Revalidate, Goto, InstallsTyped, PlanType
      <4>1. PlanResolved(p)'
        BY <3>1, <4>2 DEF PlansResolved, PlanResolved, Have
      <4> QED
        BY <1>16, <3>1, <4>1, OthersResolved DEF Revalidate, Goto, InstallsTyped
    <3>2. CASE Recorded(plan[p].removals) /\ ~(PreimagesCurrent(p) /\ skillfile[p] = plan[p].skillfile)
      BY <1>16, <3>2, RetryResolved DEF Revalidate
    <3>3. CASE ~Recorded(plan[p].removals)
      BY <1>16, <3>3, EndResolved DEF Revalidate, Outcomes
    <3> QED
      BY <3>1, <3>2, <3>3
  <2> QED
    BY <2>1, <2>2, <2>3
<1>17. ASSUME NEW p \in Projects, Prepare(p) PROVE Resolution'
  <2>1. LockIsOneResolution'
    BY <1>17 DEF Prepare, LockIsOneResolution, outputs
  <2>2. JournalResolved'
    <3>1. OneResolution(Desired(p))
      BY <1>17 DEF Prepare, PlansResolved, PlanResolved, Have, OneResolution, OneCommit,
         Desired, Aliases, InstallsTyped, PlanType
    <3>2. OneResolution(JournalOf(p).new) /\ OneResolution(JournalOf(p).lock)
      BY <3>1 DEF JournalOf, NoJournal, LockIsOneResolution
    <3> QED
      BY <1>17, <3>2 DEF Prepare, JournalResolved
  <2>3. PlansResolved'
    <3>1. CASE Publishable(p) /\ Targets(p) # {}
      <4>1. PlanResolved(p)'
        BY <1>17, <3>1 DEF Prepare, Goto, PlansResolved, PlanResolved, Have, Wanted, InstallsTyped, PlanType
      <4> QED
        BY <1>17, <3>1, <4>1, OthersResolved DEF Prepare, Goto, InstallsTyped
    <3>2. CASE Publishable(p) /\ Targets(p) = {}
      BY <1>17, <3>2, EndResolved DEF Prepare, Outcomes
    <3>3. CASE ~Publishable(p)
      BY <1>17, <3>3, EndResolved DEF Prepare, Outcomes
    <3> QED
      BY <3>1, <3>2, <3>3
  <2> QED
    BY <2>1, <2>2, <2>3
<1>18. ASSUME NEW p \in Projects, Moving(p) PROVE Resolution'
  <2>1. /\ UNCHANGED <<sources, store, home, process, spent, dropped>>
        /\ journal' \in JournalType /\ SameJournal /\ LockMoved
    BY <1>18, MovingKeeps
  <2>2. LockIsOneResolution'
    BY <2>1, NothingResolved
    DEF LockMoved, LockIsOneResolution, JournalResolved, HomeTyped
  <2>3. JournalResolved'
    BY <2>1 DEF SameJournal, JournalResolved
  <2>4. PlansResolved'
    BY <2>1 DEF process, PlansResolved, PlanResolved, Have, Wanted
  <2> QED
    BY <2>2, <2>3, <2>4
<1>19. ASSUME NEW p \in Projects, Decide(p) PROVE Resolution'
  <2>1. LockIsOneResolution'
    BY <1>19 DEF Decide, LockIsOneResolution, outputs
  <2>2. JournalResolved'
    BY <1>19, NothingResolved DEF Decide, JournalResolved
  <2>3. PlansResolved'
    <3>1. CASE pc[p] = "apply"
      BY <1>19, <3>1, EndResolved DEF Decide, Outcomes
    <3>2. CASE pc[p] # "apply"
      BY <1>19, <3>2, ClosedResolved DEF Decide, Forwarding
    <3> QED
      BY <3>1, <3>2
  <2> QED
    BY <2>1, <2>2, <2>3
<1>20. ASSUME NEW p \in Projects, CommitFails(p) PROVE Resolution'
  <2>1. LockIsOneResolution'
    BY <1>20 DEF CommitFails, LockIsOneResolution, outputs
  <2>2. journal'.new = journal.new /\ journal'.lock = journal.lock
    BY <1>20 DEF CommitFails, HomeTyped, JournalType
  <2>3. PlansResolved'
    <3>1. /\ pc'[p] = "undo" /\ UNCHANGED <<plan, mode>>
          /\ \A q \in Projects \ {p} : pc'[q] = pc[q]
          /\ pc[p] \in {"apply", "replay"}
      BY <1>20 DEF CommitFails, Forwarding, Goto, InstallsTyped
    <3>2. PlanResolved(p)'
      BY <3>1 DEF PlansResolved, PlanResolved, Have, Wanted
    <3> QED
      BY <3>1, <3>2, OthersResolved
  <2> QED
    BY <2>1, <2>2, <2>3 DEF JournalResolved
<1>21. ASSUME NEW p \in Projects, RolledBack(p) PROVE Resolution'
  <2>1. LockIsOneResolution'
    BY <1>21 DEF RolledBack, CloseRollback, LockIsOneResolution, outputs
  <2>2. JournalResolved'
    BY <1>21, NothingResolved DEF RolledBack, CloseRollback, JournalResolved
  <2>3. PlansResolved'
    <3>1. CASE pc[p] = "undo"
      BY <1>21, <3>1, EndResolved DEF RolledBack, CloseRollback, Outcomes
    <3>2. CASE pc[p] # "undo"
      BY <1>21, <3>2, ClosedResolved DEF RolledBack, CloseRollback, Backing
    <3> QED
      BY <3>1, <3>2
  <2> QED
    BY <2>1, <2>2, <2>3
<1>22. ASSUME NEW p \in Projects, Crash(p) PROVE Resolution'
  <2>1. LockIsOneResolution'
    BY <1>22 DEF Crash, LockIsOneResolution, outputs
  <2>2. JournalResolved'
    BY <1>22 DEF Crash, JournalResolved
  <2>3. PlansResolved'
    BY <1>22, EndResolved DEF Crash, Outcomes
  <2> QED
    BY <2>1, <2>2, <2>3
<1>23. ASSUME NEW p \in Projects, EditSkillfile(p) PROVE Resolution'
  <2>1. LockIsOneResolution'
    BY <1>23 DEF EditSkillfile, LockIsOneResolution, outputs
  <2>2. JournalResolved'
    BY <1>23 DEF EditSkillfile, JournalResolved
  <2>3. PlansResolved'
    BY <1>23 DEF EditSkillfile, process, PlansResolved, PlanResolved, Have, Wanted
  <2> QED
    BY <2>1, <2>2, <2>3
<1>24. ASSUME NEW p \in Projects, PullLock(p) PROVE Resolution'
  <2>1. LockIsOneResolution'
    <3>1. PICK c \in Commits : lock' = [lock EXCEPT ![p] = LockOf(skillfile[p], c, local)]
      BY <1>24 DEF PullLock
    <3>2. OneResolution(LockOf(skillfile[p], c, local))
      BY LockOfResolved DEF SourcesTyped
    <3> QED
      BY <3>1, <3>2 DEF LockIsOneResolution, HomeTyped
  <2>2. JournalResolved'
    BY <1>24 DEF PullLock, JournalResolved
  <2>3. PlansResolved'
    BY <1>24 DEF PullLock, process, PlansResolved, PlanResolved, Have, Wanted
  <2> QED
    BY <2>1, <2>2, <2>3
<1>25. CASE MoveBranch
  BY <1>25
  DEF MoveBranch, outputs, process, LockIsOneResolution, JournalResolved,
      PlansResolved, PlanResolved, Have, Wanted
<1>26. CASE EditFile
  BY <1>26
  DEF EditFile, outputs, process, LockIsOneResolution, JournalResolved,
      PlansResolved, PlanResolved, Have, Wanted
<1>27. CASE DropStore
  BY <1>27
  DEF DropStore, outputs, process, LockIsOneResolution, JournalResolved,
      PlansResolved, PlanResolved, Have, Wanted
<1> QED
  BY <1>0, <1>1, <1>2, <1>3, <1>4, <1>5, <1>6, <1>7, <1>8, <1>9, <1>10,
     <1>11, <1>12, <1>13, <1>14, <1>15, <1>16, <1>17, <1>18, <1>19, <1>20,
     <1>21, <1>22, <1>23, <1>24, <1>25, <1>26, <1>27
  DEF Next, Install, Plan, Commit, Rollback, Moving

\* The keys of every lock that is, or that recovery can make, installed have
\* been stored.
Stored(l) == Keys(l) \subseteq store \union dropped
JournalStored == Stored(journal.new) /\ Stored(journal.installed)
StoreKept == StoreServesInstalled /\ JournalStored

LEMMA NothingStored == Keys(NoLock) = {}
BY DEF Keys, NoLock, Unresolved

\* One step keeps in the store, or among what somebody deleted, all that is
\* installed and all that the journal would install.
LEMMA StoreStep ==
  ASSUME SourcesKnown, StoreKept, [Next]_vars
  PROVE  StoreKept'
<1> USE DEF SourcesKnown, TypeOK, StoreKept
<1>0. CASE UNCHANGED vars
  BY <1>0 DEF vars, StoreServesInstalled, JournalStored, Stored, Keys
<1>1. ASSUME NEW p \in Projects, Start(p) PROVE StoreKept'
  BY <1>1
  DEF Start, outputs, StoreServesInstalled, JournalStored, Stored, Keys
<1>2. ASSUME NEW p \in Projects, Select(p) PROVE StoreKept'
  BY <1>2
  DEF Select, outputs, StoreServesInstalled, JournalStored, Stored, Keys
<1>3. ASSUME NEW p \in Projects, ReadFrozen(p) PROVE StoreKept'
  BY <1>3
  DEF ReadFrozen, outputs, StoreServesInstalled, JournalStored, Stored, Keys
<1>4. ASSUME NEW p \in Projects, ReadResolving(p) PROVE StoreKept'
  BY <1>4
  DEF ReadResolving, outputs, StoreServesInstalled, JournalStored, Stored,
      Keys
<1>5. ASSUME NEW p \in Projects, Resolve(p) PROVE StoreKept'
  BY <1>5
  DEF Resolve, outputs, StoreServesInstalled, JournalStored, Stored, Keys
<1>6. ASSUME NEW p \in Projects, Resolved(p) PROVE StoreKept'
  BY <1>6
  DEF Resolved, outputs, StoreServesInstalled, JournalStored, Stored, Keys
<1>7. ASSUME NEW p \in Projects, Serve(p) PROVE StoreKept'
  BY <1>7
  DEF Serve, outputs, StoreServesInstalled, JournalStored, Stored, Keys
<1>8. ASSUME NEW p \in Projects, ReadFile(p) PROVE StoreKept'
  BY <1>8
  DEF ReadFile, outputs, StoreServesInstalled, JournalStored, Stored, Keys
<1>9. ASSUME NEW p \in Projects, RereadFile(p) PROVE StoreKept'
  BY <1>9
  DEF RereadFile, outputs, StoreServesInstalled, JournalStored, Stored, Keys
<1>10. ASSUME NEW p \in Projects, Captured(p) PROVE StoreKept'
  BY <1>10
  DEF Captured, outputs, StoreServesInstalled, JournalStored, Stored, Keys
<1>11. ASSUME NEW p \in Projects, StageStore(p) PROVE StoreKept'
  BY <1>11
  DEF StageStore, outputs, StoreServesInstalled, JournalStored, Stored, Keys
<1>12. ASSUME NEW p \in Projects, Refuse(p) PROVE StoreKept'
  BY <1>12
  DEF Refuse, outputs, StoreServesInstalled, JournalStored, Stored, Keys
<1>13. ASSUME NEW p \in Projects, PlanTargets(p) PROVE StoreKept'
  BY <1>13
  DEF PlanTargets, outputs, StoreServesInstalled, JournalStored, Stored,
      Keys
<1>14. ASSUME NEW p \in Projects, LockTimeout(p) PROVE StoreKept'
  BY <1>14
  DEF LockTimeout, outputs, StoreServesInstalled, JournalStored, Stored,
      Keys
<1>15. ASSUME NEW p \in Projects, Recover(p) PROVE StoreKept'
  <2>1. /\ journal'.new = journal.new /\ journal'.installed = journal.installed
        /\ UNCHANGED <<installed, store, dropped>>
    BY <1>15 DEF Recover, outputs, HomeTyped, JournalType
  <2> QED
    BY <2>1 DEF StoreServesInstalled, JournalStored, Stored, Keys
<1>16. ASSUME NEW p \in Projects, Revalidate(p) PROVE StoreKept'
  BY <1>16
  DEF Revalidate, outputs, StoreServesInstalled, JournalStored, Stored, Keys
<1>17. ASSUME NEW p \in Projects, Prepare(p) PROVE StoreKept'
  <2>1. store \subseteq store' /\ UNCHANGED <<installed, dropped>>
    BY <1>17 DEF Prepare, outputs
  <2>2. StoreServesInstalled'
    BY <2>1 DEF StoreServesInstalled, Keys
  <2>3. CASE journal' = journal
    BY <2>1, <2>2, <2>3 DEF JournalStored, Stored, Keys
  <2>4. CASE journal' # journal
    <3>1. /\ Publishable(p) /\ journal' = JournalOf(p)
          /\ store' = store \union plan[p].missing
      BY <1>17, <2>4 DEF Prepare
    <3>2. Keys(Desired(p)) = Planned(p)
      BY DEF Keys, Desired, Planned
    <3>3. Keys(Desired(p)) \subseteq store'
      BY <3>1, <3>2 DEF Publishable
    <3>4. journal'.new = Desired(p) /\ journal'.installed = installed[p]
      BY <3>1 DEF JournalOf, NoJournal
    <3>5. Stored(journal.installed)'
      BY <2>1, <3>4 DEF StoreServesInstalled, Stored, Keys
    <3>6. Stored(journal.new)'
      BY <3>3, <3>4 DEF Stored, Keys
    <3> QED
      BY <2>2, <3>5, <3>6 DEF JournalStored
  <2> QED
    BY <2>3, <2>4
<1>18. ASSUME NEW p \in Projects, Moving(p) PROVE StoreKept'
  <2>1. /\ UNCHANGED <<store, dropped>> /\ SameJournal /\ ContextMoved
    BY <1>18, MovingKeeps
  <2>2. \A q \in Projects :
          installed'[q] \in {installed[q], NoLock, journal.new, journal.installed}
    BY <2>1 DEF ContextMoved, HomeTyped
  <2>3. ASSUME NEW q \in Projects PROVE Stored(installed'[q])
    BY <2>2, NothingStored DEF StoreServesInstalled, JournalStored, Stored
  <2> QED
    BY <2>1, <2>3
    DEF StoreServesInstalled, JournalStored, Stored, SameJournal, Keys
<1>19. ASSUME NEW p \in Projects, Decide(p) PROVE StoreKept'
  BY <1>19, NothingStored
  DEF Decide, outputs, NoJournal, StoreServesInstalled, JournalStored, Stored, Keys
<1>20. ASSUME NEW p \in Projects, CommitFails(p) PROVE StoreKept'
  <2>1. /\ journal'.new = journal.new /\ journal'.installed = journal.installed
        /\ UNCHANGED <<installed, store, dropped>>
    BY <1>20 DEF CommitFails, outputs, HomeTyped, JournalType
  <2> QED
    BY <2>1 DEF StoreServesInstalled, JournalStored, Stored, Keys
<1>21. ASSUME NEW p \in Projects, RolledBack(p) PROVE StoreKept'
  BY <1>21, NothingStored
  DEF RolledBack, CloseRollback, outputs, NoJournal, StoreServesInstalled,
      JournalStored, Stored, Keys
<1>22. ASSUME NEW p \in Projects, Crash(p) PROVE StoreKept'
  BY <1>22
  DEF Crash, outputs, StoreServesInstalled, JournalStored, Stored, Keys
<1>23. ASSUME NEW p \in Projects, EditSkillfile(p) PROVE StoreKept'
  BY <1>23
  DEF EditSkillfile, outputs, StoreServesInstalled, JournalStored, Stored,
      Keys
<1>24. ASSUME NEW p \in Projects, PullLock(p) PROVE StoreKept'
  BY <1>24
  DEF PullLock, outputs, StoreServesInstalled, JournalStored, Stored, Keys
<1>25. CASE MoveBranch
  BY <1>25
  DEF MoveBranch, outputs, StoreServesInstalled, JournalStored, Stored, Keys
<1>26. CASE EditFile
  BY <1>26
  DEF EditFile, outputs, StoreServesInstalled, JournalStored, Stored, Keys
<1>27. CASE DropStore
  BY <1>27
  DEF DropStore, outputs, StoreServesInstalled, JournalStored, Stored, Keys
<1> QED
  BY <1>0, <1>1, <1>2, <1>3, <1>4, <1>5, <1>6, <1>7, <1>8, <1>9, <1>10,
     <1>11, <1>12, <1>13, <1>14, <1>15, <1>16, <1>17, <1>18, <1>19, <1>20,
     <1>21, <1>22, <1>23, <1>24, <1>25, <1>26, <1>27
  DEF Next, Install, Plan, Commit, Rollback, Moving

SourceInvariant == SourcesKnown /\ Resolution /\ StoreKept

\* New checkouts, clones that bring a lock and installed projects satisfy it.
LEMMA InvariantHoldsFirst == Init => SourceInvariant
<1> SUFFICES ASSUME Init PROVE SourceInvariant
  OBVIOUS
<1>1. local \in Trees
  BY SourceBoundsAssumption DEF Init, Trees, Versions
<1>2. PICK c \in Commits, locked, served \in SUBSET Projects :
        /\ lock = [p \in Projects |->
             IF p \in locked THEN LockOf(skillfile[p], c, local) ELSE NoLock]
        /\ installed = [p \in Projects |->
             IF p \in served THEN lock[p] ELSE NoLock]
  BY DEF Init
<1>3. skillfile \in [Projects -> Skillfiles]
  BY DEF Init
<1>4. ASSUME NEW p \in Projects
      PROVE  /\ lock[p] \in Locks /\ installed[p] \in Locks
             /\ OneResolution(lock[p])
  <2>1. /\ LockOf(skillfile[p], c, local) \in Locks
        /\ OneResolution(LockOf(skillfile[p], c, local))
    BY <1>1, <1>3, LockOfTyped, LockOfResolved
  <2> QED
    BY <1>2, <2>1, NothingTyped, NothingResolved
<1>5. lock \in [Projects -> Locks] /\ installed \in [Projects -> Locks]
  BY <1>2, <1>4
<1>6. store \in SUBSET Entries
  <2>1. \A p \in Projects : Keys(installed[p]) \in SUBSET Entries
    BY <1>5, KeysTyped DEF Locks
  <2>2. store = UNION {Keys(installed[p]) : p \in Projects}
    BY DEF Init
  <2> QED
    BY <2>1, <2>2
<1>7. SourcesTyped
  BY <1>1, <1>3, SourceBoundsAssumption DEF Init, SourcesTyped
<1>8. HomeTyped
  BY <1>5, <1>6, NothingTyped DEF Init, HomeTyped
<1>9. InstallsTyped
  BY NothingTyped, SourceBoundsAssumption DEF Init, InstallsTyped, Steps, Outcomes
<1>10. SourcesKnown
  BY <1>7, <1>8, <1>9 DEF Init, SourcesKnown, TypeOK, ReadBeforeReread, NoPlan
<1>11. Resolution
  <2>1. PlansResolved
    BY NothingResolved
    DEF Init, PlansResolved, PlanResolved, Have, NoPlan, Unresolved
  <2> QED
    BY <1>4, <2>1, NothingResolved
    DEF Init, Resolution, LockIsOneResolution, JournalResolved
<1>12. StoreKept
  <2>1. StoreServesInstalled
    BY DEF Init, StoreServesInstalled
  <2>2. JournalStored
    BY NothingStored DEF Init, JournalStored, Stored, NoJournal
  <2> QED
    BY <2>1, <2>2 DEF StoreKept
<1> QED
  BY <1>10, <1>11, <1>12 DEF SourceInvariant

\* The inductive invariant: the typing, how far each plan and the journal
\* have come in a resolution, and what the journal would install is stored.
THEOREM SourceInvariantHolds == Spec => []SourceInvariant
<1>1. SourceInvariant /\ [Next]_vars => SourceInvariant'
  BY TypeStep, ResolutionStep, StoreStep DEF SourceInvariant
<1> QED
  BY InvariantHoldsFirst, <1>1, PTL DEF Spec

\* Every variable of the schema-2 installs keeps its type, and no install
\* plans more often than Attempts times.
THEOREM SourceTyped == Spec => []TypeOK
BY SourceInvariantHolds, PTL DEF SourceInvariant, SourcesKnown

\* However the branch, the Skillfile and other installs move while a lock is
\* resolved, published, rolled back or recovered: it has a package for exactly
\* what its Skillfile selects, and one commit for the aliases of a declaration.
THEOREM LockOneResolution == Spec => []LockIsOneResolution
BY SourceInvariantHolds, PTL DEF SourceInvariant, Resolution

\* What is installed was stored first, after every failure and recovery.
THEOREM InstalledIsStored == Spec => []StoreServesInstalled
BY SourceInvariantHolds, PTL DEF SourceInvariant, StoreKept

-----------------------------------------------------------------------------
(* What a capture takes for a state of the directory.                      *)

\* Steps that plan: they write no file that another step reads.
Planning(p) ==
  \/ Start(p) \/ Select(p) \/ ReadFrozen(p) \/ ReadResolving(p) \/ Resolve(p)
  \/ Resolved(p) \/ Serve(p) \/ ReadFile(p) \/ RereadFile(p) \/ Captured(p)
  \/ StageStore(p) \/ PlanTargets(p) \/ LockTimeout(p) \/ Refuse(p)
  \/ Revalidate(p) \/ Crash(p)

LEMMA PlanningShape ==
  ASSUME NEW p \in Projects, Planning(p)
  PROVE  /\ UNCHANGED <<lock, installed, runtime, robbed, journal, replaced,
                        upstream, local, skillfile, seen>>
         /\ StageStore(p) \/ store' = store
<1>1. CASE Start(p) \/ Select(p) \/ ReadFrozen(p) \/ ReadResolving(p)
  BY <1>1 DEF Start, Select, ReadFrozen, ReadResolving, outputs, sources
<1>2. CASE Resolve(p) \/ Resolved(p) \/ Serve(p) \/ ReadFile(p)
  BY <1>2 DEF Resolve, Resolved, Serve, ReadFile, outputs, sources
<1>3. CASE RereadFile(p) \/ Captured(p) \/ StageStore(p) \/ PlanTargets(p)
  BY <1>3 DEF RereadFile, Captured, StageStore, PlanTargets, outputs, sources
<1>4. CASE LockTimeout(p) \/ Refuse(p) \/ Revalidate(p) \/ Crash(p)
  BY <1>4 DEF LockTimeout, Refuse, Revalidate, Crash, outputs, sources
<1> QED
  BY <1>1, <1>2, <1>3, <1>4 DEF Planning

\* What happens outside the installs, but for a lock that is pulled.
Elsewhere ==
  (\E p \in Projects : EditSkillfile(p)) \/ MoveBranch \/ EditFile \/ DropStore

LEMMA ElsewhereShape ==
  ASSUME Elsewhere
  PROVE  /\ UNCHANGED <<lock, installed, runtime, robbed, journal, replaced,
                        home, process>>
         /\ EditFile \/ UNCHANGED <<local, seen>>
         /\ DropStore \/ store' = store
<1>1. CASE \E p \in Projects : EditSkillfile(p)
  BY <1>1 DEF EditSkillfile, outputs
<1>2. CASE MoveBranch \/ EditFile \/ DropStore
  BY <1>2 DEF MoveBranch, EditFile, DropStore, outputs, sources
<1> QED
  BY <1>1, <1>2 DEF Elsewhere

\* What publishes leaves the directory alone.
Publishing(p) ==
  \/ Recover(p) \/ Prepare(p) \/ Moving(p) \/ Decide(p) \/ CommitFails(p)
  \/ RolledBack(p)

LEMMA PublishingShape ==
  ASSUME HomeTyped, NEW p \in Projects, Publishing(p)
  PROVE  /\ UNCHANGED <<local, seen>>
         /\ Prepare(p) \/ store' = store
<1>1. CASE Moving(p)
  BY <1>1, MovingKeeps DEF sources
<1>2. CASE ~Moving(p)
  BY <1>2
  DEF Publishing, Recover, Prepare, Decide, CommitFails, RolledBack,
      CloseRollback, sources
<1> QED
  BY <1>1, <1>2

LEMMA StepShape ==
  ASSUME [Next]_vars
  PROVE  \/ UNCHANGED vars \/ Elsewhere
         \/ \E p \in Projects : Planning(p) \/ Publishing(p) \/ PullLock(p)
BY DEF Next, Install, Plan, Commit, Rollback, Moving, Planning, Publishing, Elsewhere

\* The trees in a lock and in the store are states the directory was in.
SeenTree(members) == \A a \in Aliases : members[a] \in Trees => members[a] \in seen
SeenEntries(keys) == \A key \in keys : key[2] \in Trees => key[2] \in seen

LocksSeen ==
  /\ SeenTree(journal.new.members) /\ SeenTree(journal.lock.members)
  /\ \A p \in Projects : SeenTree(lock[p].members)

PlanSeen(p) ==
  /\ SeenTree(plan[p].old.members) /\ SeenTree(plan[p].members)
  /\ SeenEntries(plan[p].missing)

\* Versions only grow.  So the directory, when its last file had been read, was
\* between what was read and what is there now, and equal to both in each file
\* that was read again.
Between(p, tree) ==
  \A f \in Files :
    /\ plan[p].read[f] <= tree[f] /\ tree[f] <= local[f]
    /\ f <= plan[p].checked => tree[f] = plan[p].read[f]

ReadingSeen(p) ==
  /\ Len(plan[p].read) <= LastFile
  /\ \A f \in 1..Len(plan[p].read) : plan[p].read[f] <= local[f]
  /\ Len(plan[p].read) = LastFile => \E tree \in seen : Between(p, tree)

PlansSeen == \A p \in Projects : PlanSeen(p) /\ ReadingSeen(p)
CapturesSeen == local \in seen /\ CaptureIsOneState /\ LocksSeen /\ PlansSeen

\* Commits are no trees, and neither is nothing.
LEMMA NothingSeen ==
  /\ \A members : (\A a \in Aliases : members[a] \notin Trees) => SeenTree(members)
  /\ SeenTree(Unresolved) /\ SeenTree(NoLock.members) /\ SeenEntries({})
<1>1. \A a \in Aliases : Unresolved[a] \notin Trees
  BY PackagesAssumption DEF Unresolved, Packages
<1> QED
  BY <1>1 DEF SeenTree, SeenEntries, NoLock

LEMMA KeysSeen ==
  ASSUME NEW l, SeenTree(l.members)
  PROVE  SeenEntries(Keys(l))
BY DEF SeenTree, SeenEntries, Keys

LEMMA LockOfSeen ==
  ASSUME NEW aliases \in Skillfiles, NEW c \in Commits, NEW tree \in seen
  PROVE  SeenTree(LockOf(aliases, c, tree).members)
<1>1. c \notin Trees /\ NoPackage \notin Trees
  BY PackagesAssumption DEF Packages
<1> QED
  BY <1>1 DEF SeenTree, LockOf

\* What was seen stays seen.
LEMMA SeenStays ==
  ASSUME seen \subseteq seen'
  PROVE  /\ \A members : SeenTree(members) => SeenTree(members)'
         /\ \A keys : SeenEntries(keys) => SeenEntries(keys)'
BY DEF SeenTree, SeenEntries

\* A new plan of one install, while the directory stays as it is.
LEMMA OthersSeen ==
  ASSUME PlansSeen, NEW p \in Projects, UNCHANGED <<local, seen>>,
         \A q \in Projects \ {p} : plan'[q] = plan[q],
         PlanSeen(p)', ReadingSeen(p)'
  PROVE  PlansSeen'
BY DEF PlansSeen, PlanSeen, ReadingSeen, Between, SeenTree, SeenEntries

LEMMA SamePlans ==
  ASSUME PlansSeen, UNCHANGED <<local, seen, plan>>
  PROVE  PlansSeen'
BY DEF PlansSeen, PlanSeen, ReadingSeen, Between, SeenTree, SeenEntries

LEMMA NoPlanSeen ==
  ASSUME InstallsTyped, PlansSeen, NEW p \in Projects, UNCHANGED <<local, seen>>,
         plan' = [plan EXCEPT ![p] = NoPlan]
  PROVE  PlansSeen'
<1>1. plan'[p] = NoPlan
  BY DEF InstallsTyped
<1>2. PlanSeen(p)'
  <2>1. /\ plan'[p].old.members = NoLock.members /\ plan'[p].members = Unresolved
        /\ plan'[p].missing = {}
    BY <1>1 DEF NoPlan
  <2> QED
    BY <2>1, NothingSeen DEF PlanSeen, SeenTree, SeenEntries
<1>3. ReadingSeen(p)'
  <2>1. plan'[p].read = << >>
    BY <1>1 DEF NoPlan
  <2> QED
    BY <2>1, SourceBoundsAssumption DEF ReadingSeen
<1> QED
  BY <1>2, <1>3, OthersSeen DEF InstallsTyped

\* An install that ends or starts again has no plan.
LEMMA EndSeen ==
  ASSUME InstallsTyped, PlansSeen, NEW p \in Projects, UNCHANGED <<local, seen>>,
         (\E how \in Outcomes : End(p, how)) \/ Retry(p)
  PROVE  PlansSeen'
BY NoPlanSeen DEF End, Retry

\* A plan that goes on with what has been read.
LEMMA GoesOnSeen ==
  ASSUME InstallsTyped, PlansSeen, NEW p \in Projects, UNCHANGED <<local, seen>>,
         NEW new, plan' = [plan EXCEPT ![p] = new],
         SeenTree(new.old.members), SeenTree(new.members),
         SeenEntries(new.missing),
         new.read = plan[p].read, new.checked = plan[p].checked
  PROVE  PlansSeen'
<1>1. plan'[p] = new
  BY DEF InstallsTyped
<1>2. PlanSeen(p)'
  BY <1>1 DEF PlanSeen, SeenTree, SeenEntries
<1>3. ReadingSeen(p)'
  BY <1>1 DEF PlansSeen, ReadingSeen, Between
<1> QED
  BY <1>2, <1>3, OthersSeen DEF InstallsTyped

\* One file more; with the last one, what the directory is now is what it was
\* when its last file was read.
LEMMA ReadFileSeen ==
  ASSUME SourcesKnown, PlansSeen, local \in seen, UNCHANGED <<local, seen>>,
         NEW p \in Projects, ReadFile(p)
  PROVE  PlansSeen'
<1> USE DEF SourcesKnown, TypeOK
<1> DEFINE f == Len(plan[p].read) + 1
           new == [plan[p] EXCEPT !.read = Append(@, local[f])]
<1>1. plan[p] \in PlanType /\ plan[p].read \in Seq(Versions)
  BY DEF InstallsTyped, PlanType
<1>2. f \in Files /\ plan' = [plan EXCEPT ![p] = new]
  BY DEF ReadFile
<1>3. local \in [Files -> Nat] /\ local[f] \in Versions /\ LastFile \in Nat
  BY <1>2, SourceBoundsAssumption DEF SourcesTyped, Trees, Versions
<1>4. plan'[p] = new
  BY <1>2 DEF InstallsTyped
<1>5. plan'[p].read = Append(plan[p].read, local[f])
  BY <1>1, <1>4 DEF PlanType
<1>6. plan'[p].checked = plan[p].checked /\ plan[p].checked = 0
  <2>1. Len(plan[p].read) # LastFile /\ plan[p].checked \in 0..LastFile
    BY <1>1, <1>2, <1>3 DEF Files, PlanType
  <2> QED
    BY <1>1, <1>3, <1>4, <2>1 DEF ReadBeforeReread, PlanType
<1>7. PlanSeen(p)'
  <2>1. /\ plan'[p].old = plan[p].old /\ plan'[p].members = plan[p].members
        /\ plan'[p].missing = plan[p].missing
    BY <1>1, <1>4 DEF PlanType
  <2> QED
    BY <2>1 DEF PlansSeen, PlanSeen, SeenTree, SeenEntries
<1>8. /\ Len(plan'[p].read) = f
      /\ \A g \in 1..f : plan'[p].read[g] =
           IF g = f THEN local[f] ELSE plan[p].read[g]
  BY <1>1, <1>3, <1>5
<1>9. \A g \in 1..f : plan'[p].read[g] <= local[g]
  <2>1. \A g \in 1..Len(plan[p].read) : plan[p].read[g] <= local[g]
    BY DEF PlansSeen, ReadingSeen
  <2> QED
    BY <1>1, <1>2, <1>3, <1>8, <2>1 DEF Files
<1>10. f = LastFile => \A g \in Files :
         plan'[p].read[g] <= local[g] /\ ~(g <= plan'[p].checked)
  BY <1>6, <1>9, <1>3 DEF Files
<1>11. \A g \in Files : local[g] <= local[g]
  BY <1>3 DEF Files
<1>12. ReadingSeen(p)'
  <2>1. Len(plan'[p].read) = LastFile => Between(p, local)'
    BY <1>8, <1>10, <1>11 DEF Between
  <2>2. f <= LastFile
    BY <1>2, <1>3 DEF Files
  <2> HIDE DEF f, new
  <2> QED
    BY <1>8, <1>9, <2>1, <2>2 DEF ReadingSeen
<1> QED
  BY <1>2, <1>7, <1>12, OthersSeen DEF InstallsTyped

\* A file that is the same again has not changed since the last one was read.
LEMMA RereadFileSeen ==
  ASSUME SourcesKnown, PlansSeen, UNCHANGED <<local, seen>>,
         NEW p \in Projects, RereadFile(p)
  PROVE  PlansSeen'
<1> USE DEF SourcesKnown, TypeOK
<1> DEFINE f == plan[p].checked + 1
<1>1. plan[p] \in PlanType /\ plan[p].read \in Seq(Versions)
  BY DEF InstallsTyped, PlanType
<1>2. CASE local[f] # plan[p].read[f]
  <2>1. CaptureChanged(p)
    BY <1>2 DEF RereadFile
  <2> QED
    BY <2>1, EndSeen, SamePlans DEF CaptureChanged, Outcomes
<1>3. CASE local[f] = plan[p].read[f]
  <2>1. /\ Len(plan[p].read) = LastFile /\ f \in Files
        /\ plan' = [plan EXCEPT ![p].checked = f]
    BY <1>3 DEF RereadFile
  <2>2. /\ plan'[p].checked = f /\ plan'[p].read = plan[p].read
        /\ plan'[p].old = plan[p].old /\ plan'[p].members = plan[p].members
        /\ plan'[p].missing = plan[p].missing
    BY <1>1, <2>1 DEF InstallsTyped, PlanType
  <2>3. PICK tree \in seen : Between(p, tree)
    BY <2>1 DEF PlansSeen, ReadingSeen
  <2>4. /\ tree \in [Files -> Nat] /\ local \in [Files -> Nat]
        /\ plan[p].read \in [Files -> Nat] /\ plan[p].checked \in Nat
        /\ LastFile \in Nat
    <3>1. Versions \subseteq Nat /\ LastFile \in Nat
      BY SourceBoundsAssumption DEF Versions
    <3>2. tree \in [Files -> Versions] /\ local \in [Files -> Versions]
      BY DEF SourcesTyped, Trees
    <3>3. plan[p].read \in [Files -> Versions]
      BY <1>1, <2>1 DEF Files
    <3>4. plan[p].checked \in Nat
      BY <1>1, <3>1 DEF PlanType
    <3> QED
      BY <3>1, <3>2, <3>3, <3>4
  <2>5. tree[f] = plan[p].read[f]
    BY <1>3, <2>1, <2>3, <2>4 DEF Between
  <2>6. \A g \in Files : g <= f => g <= plan[p].checked \/ g = f
    BY <2>4 DEF Files
  <2>7. Between(p, tree)'
    BY <2>2, <2>3, <2>5, <2>6 DEF Between
  <2>8. PlanSeen(p)' /\ ReadingSeen(p)'
    BY <2>2, <2>7 DEF PlansSeen, PlanSeen, ReadingSeen, SeenTree, SeenEntries
  <2> QED
    BY <2>1, <2>8, OthersSeen DEF InstallsTyped
<1> QED
  BY <1>2, <1>3

\* All files read again: what was read is a state the directory was in.
LEMMA ReadIsSeen ==
  ASSUME SourcesKnown, PlansSeen, NEW p \in Projects,
         Len(plan[p].read) = LastFile, plan[p].checked = LastFile
  PROVE  plan[p].read \in seen
<1>1. PICK tree \in seen : Between(p, tree)
  BY DEF PlansSeen, ReadingSeen
<1>2. plan[p].read \in Seq(Versions) /\ tree \in [Files -> Versions]
  BY DEF SourcesKnown, TypeOK, InstallsTyped, PlanType, SourcesTyped, Trees
<1>3. \A f \in Files : tree[f] = plan[p].read[f]
  BY <1>1, SourceBoundsAssumption DEF Between, Files
<1>4. plan[p].read \in [Files -> Versions]
  BY <1>2 DEF Files
<1> QED
  BY <1>1, <1>2, <1>3, <1>4

\* Planning makes no tree up.
LEMMA PlanningSeen ==
  ASSUME SourcesKnown, CapturesSeen, NEW p \in Projects, Planning(p)
  PROVE  PlansSeen'
<1> USE DEF SourcesKnown, TypeOK
<1>1. UNCHANGED <<local, seen>>
  BY PlanningShape
<1>2. /\ PlansSeen /\ local \in seen /\ SeenTree(lock[p].members)
      /\ PlanSeen(p) /\ plan[p] \in PlanType
  BY DEF CapturesSeen, LocksSeen, PlansSeen, InstallsTyped
<1>3. CASE Start(p) \/ Resolved(p)
  BY <1>1, <1>2, <1>3, SamePlans DEF Start, Resolved
<1>4. CASE LockTimeout(p) \/ Refuse(p) \/ Crash(p)
  BY <1>1, <1>2, <1>4, EndSeen DEF LockTimeout, Refuse, Crash, Outcomes
<1>5. CASE Select(p) \/ ReadResolving(p)
  <2> DEFINE new == IF Select(p) THEN [plan[p] EXCEPT !.old = lock[p]]
                    ELSE [plan[p] EXCEPT !.skillfile = skillfile[p], !.old = lock[p]]
  <2>1. plan' = [plan EXCEPT ![p] = new]
    BY <1>5 DEF Select, ReadResolving
  <2>2. /\ new.old = lock[p] /\ new.members = plan[p].members
        /\ new.missing = plan[p].missing
        /\ new.read = plan[p].read /\ new.checked = plan[p].checked
    BY <1>2 DEF PlanType
  <2> HIDE DEF new
  <2> QED
    BY <1>1, <1>2, <2>1, <2>2, GoesOnSeen DEF PlanSeen
<1>6. CASE ReadFrozen(p)
  <2>1. CASE plan[p].old.skillfile = skillfile[p]
    <3> DEFINE new == [plan[p] EXCEPT !.skillfile = skillfile[p],
                                      !.members = plan[p].old.members]
    <3>1. plan' = [plan EXCEPT ![p] = new]
      BY <1>6, <2>1 DEF ReadFrozen
    <3>2. /\ new.old = plan[p].old /\ new.members = plan[p].old.members
          /\ new.missing = plan[p].missing
          /\ new.read = plan[p].read /\ new.checked = plan[p].checked
      BY <1>2 DEF PlanType
    <3> HIDE DEF new
    <3> QED
      BY <1>1, <1>2, <3>1, <3>2, GoesOnSeen DEF PlanSeen
  <2>2. CASE plan[p].old.skillfile # skillfile[p]
    BY <1>1, <1>2, <1>6, <2>2, EndSeen DEF ReadFrozen, Outcomes
  <2> QED
    BY <2>1, <2>2
<1>7. CASE Resolve(p)
  <2>1. PICK a \in Wanted(p) :
          plan' = [plan EXCEPT ![p].members[a] = ResolveGitAlias(p, a)]
    BY <1>7 DEF Resolve
  <2>2. a \in Aliases /\ GitAliases \subseteq Aliases
    BY DEF Wanted, Aliases
  <2>3. ResolveGitAlias(p, a) \in Trees => ResolveGitAlias(p, a) \in seen
    <3> DEFINE known == {plan[p].members[b] : b \in GitAliases} \ {NoPackage}
    <3>1. upstream \notin Trees
      BY PackagesAssumption DEF SourcesTyped
    <3>2. \A c \in known : c \in Trees => c \in seen
      BY <1>2, <2>2 DEF PlanSeen, SeenTree
    <3>3. known # {} => (CHOOSE c \in known : TRUE) \in known
      BY Zenon
    <3>4. ResolveGitAlias(p, a) =
            IF known = {} THEN upstream ELSE CHOOSE c \in known : TRUE
      BY DEF ResolveGitAlias
    <3> HIDE DEF known
    <3> QED
      BY <3>1, <3>2, <3>3, <3>4
  <2> DEFINE new == [plan[p] EXCEPT !.members[a] = ResolveGitAlias(p, a)]
  <2>4. plan' = [plan EXCEPT ![p] = new]
    BY <2>1
  <2>5. /\ new.old = plan[p].old /\ new.missing = plan[p].missing
        /\ new.members = [plan[p].members EXCEPT ![a] = ResolveGitAlias(p, a)]
        /\ new.read = plan[p].read /\ new.checked = plan[p].checked
    BY <1>2 DEF PlanType
  <2>6. SeenTree(new.members)
    BY <1>2, <2>3, <2>5 DEF PlanSeen, SeenTree, PlanType, Members
  <2> HIDE DEF new
  <2> QED
    BY <1>1, <1>2, <2>4, <2>5, <2>6, GoesOnSeen DEF PlanSeen
<1>8. CASE Serve(p)
  <2> DEFINE new == [plan[p] EXCEPT !.missing = Keys(plan[p].old) \ store]
  <2>1. plan' = [plan EXCEPT ![p] = new]
    BY <1>8 DEF Serve
  <2>2. /\ new.old = plan[p].old /\ new.members = plan[p].members
        /\ new.missing \subseteq Keys(plan[p].old)
        /\ new.read = plan[p].read /\ new.checked = plan[p].checked
    BY <1>2 DEF PlanType
  <2>3. SeenEntries(new.missing)
    BY <1>2, <2>2, KeysSeen DEF PlanSeen, SeenEntries
  <2> HIDE DEF new
  <2> QED
    BY <1>1, <1>2, <2>1, <2>2, <2>3, GoesOnSeen DEF PlanSeen
<1>9. CASE ReadFile(p)
  BY <1>1, <1>2, <1>9, ReadFileSeen
<1>10. CASE RereadFile(p)
  BY <1>1, <1>2, <1>10, RereadFileSeen
<1>11. CASE Captured(p)
  <2>1. plan[p].checked = LastFile /\ LastFile > 0
    BY <1>11, SourceBoundsAssumption DEF Captured
  <2>2. Len(plan[p].read) = LastFile
    BY <2>1 DEF ReadBeforeReread
  <2>3. CASE plan' = [plan EXCEPT ![p].members[LocalAlias] = plan[p].read]
    <3> DEFINE new == [plan[p] EXCEPT !.members[LocalAlias] = plan[p].read]
    <3>1. plan' = [plan EXCEPT ![p] = new]
      BY <2>3
    <3>2. /\ new.old = plan[p].old /\ new.missing = plan[p].missing
          /\ new.members = [plan[p].members EXCEPT ![LocalAlias] = plan[p].read]
          /\ new.read = plan[p].read /\ new.checked = plan[p].checked
      BY <1>2 DEF PlanType
    <3>3. plan[p].read \in seen
      BY <1>2, <2>1, <2>2, ReadIsSeen
    <3>4. SeenTree(new.members)
      BY <1>2, <3>2, <3>3 DEF PlanSeen, SeenTree, PlanType, Members
    <3> HIDE DEF new
    <3> QED
      BY <1>1, <1>2, <3>1, <3>2, <3>4, GoesOnSeen DEF PlanSeen
  <2>4. CASE plan' = plan
    BY <1>1, <1>2, <2>4, SamePlans
  <2>5. CASE End(p, "failed")
    BY <1>1, <1>2, <2>5, EndSeen DEF Outcomes
  <2> QED
    BY <1>11, <2>3, <2>4, <2>5 DEF Captured
<1>12. CASE StageStore(p)
  <2>1. PICK key \in Planned(p) :
          plan' = [plan EXCEPT ![p].staged = @ \union {key}]
    BY <1>12 DEF StageStore
  <2> DEFINE new == [plan[p] EXCEPT !.staged = @ \union {key}]
  <2>2. plan' = [plan EXCEPT ![p] = new]
    BY <2>1
  <2>3. /\ new.old = plan[p].old /\ new.members = plan[p].members
        /\ new.missing = plan[p].missing
        /\ new.read = plan[p].read /\ new.checked = plan[p].checked
    BY <1>2 DEF PlanType
  <2> HIDE DEF new
  <2> QED
    BY <1>1, <1>2, <2>2, <2>3, GoesOnSeen DEF PlanSeen
<1>13. CASE PlanTargets(p)
  <2>1. CASE End(p, "failed")
    BY <1>1, <1>2, <2>1, EndSeen DEF Outcomes
  <2>2. CASE ~End(p, "failed")
    <3> DEFINE new == [plan[p] EXCEPT
                 !.removals = Removals(p), !.runtime = Watched(p, Removals(p)),
                 !.lock = lock[p], !.installed = installed[p]]
    <3>1. plan' = [plan EXCEPT ![p] = new]
      BY <1>13, <2>2 DEF PlanTargets
    <3>2. /\ new.old = plan[p].old /\ new.members = plan[p].members
          /\ new.missing = plan[p].missing
          /\ new.read = plan[p].read /\ new.checked = plan[p].checked
      BY <1>2 DEF PlanType
    <3> HIDE DEF new
    <3> QED
      BY <1>1, <1>2, <3>1, <3>2, GoesOnSeen DEF PlanSeen
  <2> QED
    BY <2>1, <2>2
<1>14. CASE Revalidate(p)
  <2>1. CASE Retry(p) \/ End(p, "failed")
    BY <1>1, <1>2, <2>1, EndSeen DEF Outcomes
  <2>2. CASE plan' = [plan EXCEPT ![p].data = skillfile[p]]
    <3> DEFINE new == [plan[p] EXCEPT !.data = skillfile[p]]
    <3>1. plan' = [plan EXCEPT ![p] = new]
      BY <2>2
    <3>2. /\ new.old = plan[p].old /\ new.members = plan[p].members
          /\ new.missing = plan[p].missing
          /\ new.read = plan[p].read /\ new.checked = plan[p].checked
      BY <1>2 DEF PlanType
    <3> HIDE DEF new
    <3> QED
      BY <1>1, <1>2, <3>1, <3>2, GoesOnSeen DEF PlanSeen
  <2> QED
    BY <1>14, <2>1, <2>2 DEF Revalidate
<1> QED
  BY <1>3, <1>4, <1>5, <1>6, <1>7, <1>8, <1>9, <1>10, <1>11, <1>12, <1>13,
     <1>14 DEF Planning

LEMMA PublishingPlans ==
  ASSUME SourcesKnown, PlansSeen, NEW p \in Projects,
         Publishing(p) \/ PullLock(p)
  PROVE  PlansSeen' /\ UNCHANGED <<local, seen>>
<1> USE DEF SourcesKnown, TypeOK
<1>1. UNCHANGED <<local, seen>>
  BY PublishingShape DEF PullLock, sources
<1>2. CASE Recover(p) \/ CommitFails(p)
  BY <1>1, <1>2, SamePlans DEF Recover, CommitFails
<1>3. CASE Moving(p) \/ PullLock(p)
  BY <1>1, <1>3, SamePlans, MovingKeeps DEF PullLock, process
<1>4. CASE Decide(p) \/ RolledBack(p)
  <2>1. plan' = plan \/ End(p, "failed") \/ End(p, "ok")
    BY <1>4 DEF Decide, RolledBack, CloseRollback
  <2> QED
    BY <1>1, <2>1, SamePlans, EndSeen DEF Outcomes
<1>5. CASE Prepare(p)
  <2>1. plan' = plan \/ End(p, "failed") \/ End(p, "ok")
    BY <1>5 DEF Prepare
  <2> QED
    BY <1>1, <2>1, SamePlans, EndSeen DEF Outcomes
<1> QED
  BY <1>1, <1>2, <1>3, <1>4, <1>5 DEF Publishing

\* Publishing moves trees between locks, the journal and the store.
LEMMA PublishingLocks ==
  ASSUME SourcesKnown, CapturesSeen, NEW p \in Projects, Publishing(p)
  PROVE  LocksSeen'
<1> USE DEF SourcesKnown, TypeOK
<1>1. UNCHANGED <<local, seen>>
  BY PublishingShape
<1>2. LocksSeen /\ PlanSeen(p) /\ SeenTree(NoLock.members)
  BY NothingSeen DEF CapturesSeen, PlansSeen
<1>3. NoJournal.new = NoLock /\ NoJournal.lock = NoLock
  BY DEF NoJournal
<1>4. CASE Recover(p) \/ CommitFails(p)
  <2>1. lock' = lock
    BY <1>4 DEF Recover, CommitFails, outputs
  <2>2. journal'.new = journal.new /\ journal'.lock = journal.lock
    BY <1>4 DEF Recover, CommitFails, HomeTyped, JournalType
  <2> QED
    BY <1>1, <1>2, <2>1, <2>2 DEF LocksSeen, SeenTree
<1>5. CASE Prepare(p)
  <2>1. lock' = lock
    BY <1>5 DEF Prepare, outputs
  <2>2. journal' = journal \/ journal' = JournalOf(p)
    BY <1>5 DEF Prepare
  <2>3. /\ JournalOf(p).new = Desired(p) /\ JournalOf(p).lock = lock[p]
        /\ Desired(p).members = plan[p].members
    BY DEF JournalOf, NoJournal, Desired
  <2>4. CASE journal' = journal
    BY <1>1, <1>2, <2>1, <2>4 DEF LocksSeen, SeenTree
  <2>5. CASE journal' = JournalOf(p)
    <3>1. /\ SeenTree(JournalOf(p).new.members)
          /\ SeenTree(JournalOf(p).lock.members)
      BY <1>2, <2>3 DEF PlanSeen, LocksSeen
    <3> QED
      BY <1>1, <1>2, <2>1, <2>5, <3>1 DEF LocksSeen, SeenTree
  <2> QED
    BY <2>2, <2>4, <2>5
<1>6. CASE Moving(p)
  <2>1. LockMoved /\ SameJournal
    BY <1>6, MovingKeeps
  <2>2. \A q \in Projects :
          lock'[q] \in {lock[q], NoLock, journal.new, journal.lock}
    BY <2>1 DEF LockMoved, HomeTyped
  <2> QED
    BY <1>1, <1>2, <2>1, <2>2 DEF LocksSeen, SeenTree, SameJournal
<1>7. CASE Decide(p) \/ RolledBack(p)
  <2>1. lock' = lock /\ journal' = NoJournal
    BY <1>7 DEF Decide, RolledBack, CloseRollback, outputs
  <2> QED
    BY <1>1, <1>2, <1>3, <2>1 DEF LocksSeen, SeenTree
<1> QED
  BY <1>4, <1>5, <1>6, <1>7 DEF Publishing

\* Newer files, and one more state that was seen.
LEMMA EditSeen ==
  ASSUME SourcesKnown, CapturesSeen, EditFile
  PROVE  CapturesSeen'
<1> USE DEF SourcesKnown, TypeOK
<1>1. /\ seen' = seen \union {local'}
      /\ UNCHANGED <<lock, journal, store, plan>>
  BY DEF EditFile, outputs, process
<1>2. PICK f \in Files : local' = [local EXCEPT ![f] = @ + 1]
  BY DEF EditFile
<1>3. Versions \subseteq Nat /\ LastFile \in Nat
  BY SourceBoundsAssumption DEF Versions
<1>4. \A g \in Files : local[g] \in Nat /\ local'[g] \in Nat /\ local[g] <= local'[g]
  <2>1. local \in [Files -> Nat]
    BY <1>3 DEF SourcesTyped, Trees
  <2> QED
    BY <1>2, <2>1
<1>5. ASSUME NEW p \in Projects PROVE ReadingSeen(p)'
  <2>1. ReadingSeen(p) /\ plan[p].read \in Seq(Versions)
    BY DEF CapturesSeen, PlansSeen, InstallsTyped, PlanType
  <2>2. ASSUME NEW g \in 1..Len(plan[p].read)
        PROVE  g \in Files /\ plan[p].read[g] \in Nat
    <3>1. Len(plan[p].read) \in Nat /\ Len(plan[p].read) <= LastFile
      BY <2>1 DEF ReadingSeen
    <3>2. g \in Nat /\ 1 <= g /\ g <= LastFile
      BY <1>3, <3>1
    <3>3. plan[p].read[g] \in Versions
      BY <2>1
    <3>4. plan[p].read[g] \in Nat
      BY <1>3, <3>3
    <3>5. g \in Files
      BY <1>3, <3>2 DEF Files
    <3> QED
      BY <3>4, <3>5
  <2>3. \A g \in 1..Len(plan[p].read) : plan[p].read[g] <= local'[g]
    BY <1>4, <2>1, <2>2 DEF ReadingSeen
  <2>4. ASSUME NEW tree \in seen, Between(p, tree) PROVE Between(p, tree)'
    <3>1. \A g \in Files : tree[g] \in Nat
      BY <1>3 DEF SourcesTyped, Trees
    <3>2. \A g \in Files : tree[g] <= local'[g]
      BY <1>4, <2>4, <3>1 DEF Between
    <3> QED
      BY <1>1, <2>4, <3>2 DEF Between
  <2> QED
    BY <1>1, <2>1, <2>3, <2>4 DEF ReadingSeen
<1>6. PlansSeen'
  BY <1>1, <1>5 DEF CapturesSeen, PlansSeen, PlanSeen, SeenTree, SeenEntries
<1>7. LocksSeen' /\ CaptureIsOneState'
  BY <1>1 DEF CapturesSeen, LocksSeen, CaptureIsOneState, SeenTree
<1> QED
  BY <1>1, <1>6, <1>7 DEF CapturesSeen

\* One step keeps every tree in the home a state the directory was in.
LEMMA CapturesStep ==
  ASSUME SourcesKnown, CapturesSeen, [Next]_vars
  PROVE  CapturesSeen'
<1> USE DEF CapturesSeen
<1>1. CASE UNCHANGED vars
  BY <1>1, SamePlans DEF vars, LocksSeen, CaptureIsOneState, SeenTree
<1>2. ASSUME NEW p \in Projects, Planning(p) PROVE CapturesSeen'
  <2>1. UNCHANGED <<lock, journal, local, seen>> /\ (StageStore(p) \/ store' = store)
    BY <1>2, PlanningShape
  <2>2. LocksSeen'
    BY <2>1 DEF LocksSeen, SeenTree
  <2>3. CaptureIsOneState'
    <3>1. SeenEntries(Planned(p))
      BY KeysSeen DEF PlansSeen, PlanSeen, Planned
    <3>2. store' \subseteq store \union Planned(p)
      BY <2>1 DEF StageStore
    <3> QED
      BY <2>1, <3>1, <3>2 DEF CaptureIsOneState, SeenEntries
  <2> QED
    BY <1>2, <2>1, <2>2, <2>3, PlanningSeen
<1>3. ASSUME NEW p \in Projects, Publishing(p) PROVE CapturesSeen'
  <2>1. PlansSeen' /\ UNCHANGED <<local, seen>>
    BY <1>3, PublishingPlans
  <2>2. LocksSeen'
    BY <1>3, PublishingLocks
  <2>3. store' \subseteq store \union plan[p].missing
    BY <1>3, PublishingShape DEF Prepare, SourcesKnown, TypeOK
  <2>4. SeenEntries(plan[p].missing)
    BY DEF PlansSeen, PlanSeen
  <2> QED
    BY <2>1, <2>2, <2>3, <2>4 DEF CaptureIsOneState, SeenEntries
<1>4. ASSUME NEW p \in Projects, PullLock(p) PROVE CapturesSeen'
  <2>1. PlansSeen' /\ UNCHANGED <<local, seen, journal, store>>
    BY <1>4, PublishingPlans DEF PullLock
  <2>2. LocksSeen'
    <3>1. PICK c \in Commits :
            lock' = [lock EXCEPT ![p] = LockOf(skillfile[p], c, local)]
      BY <1>4 DEF PullLock
    <3>2. SeenTree(LockOf(skillfile[p], c, local).members)
      BY LockOfSeen DEF SourcesKnown, TypeOK, SourcesTyped
    <3>3. \A q \in Projects :
            lock'[q] = lock[q] \/ lock'[q] = LockOf(skillfile[p], c, local)
      BY <3>1 DEF SourcesKnown, TypeOK, HomeTyped
    <3> QED
      BY <2>1, <3>2, <3>3 DEF LocksSeen, SeenTree
  <2> QED
    BY <2>1, <2>2 DEF CaptureIsOneState
<1>5. CASE EditFile
  BY <1>5, EditSeen
<1>6. CASE Elsewhere /\ ~EditFile
  <2>1. UNCHANGED <<lock, journal, plan, local, seen>>
    BY <1>6, ElsewhereShape DEF process
  <2>2. store' \subseteq store
    BY <1>6, ElsewhereShape DEF DropStore
  <2> QED
    BY <2>1, <2>2, SamePlans DEF LocksSeen, CaptureIsOneState, SeenTree
<1> QED
  BY <1>1, <1>2, <1>3, <1>4, <1>5, <1>6, StepShape

\* At first the directory is as it has always been, and every tree is it.
LEMMA CapturesFirst == Init => CapturesSeen
<1> SUFFICES ASSUME Init PROVE CapturesSeen
  OBVIOUS
<1>1. SourceInvariant /\ seen = {local} /\ local \in seen
  BY InvariantHoldsFirst DEF Init
<1>2. PICK c \in Commits, locked, served \in SUBSET Projects :
        /\ lock = [p \in Projects |->
             IF p \in locked THEN LockOf(skillfile[p], c, local) ELSE NoLock]
        /\ installed = [p \in Projects |->
             IF p \in served THEN lock[p] ELSE NoLock]
  BY DEF Init
<1>3. skillfile \in [Projects -> Skillfiles]
  BY DEF Init
<1>4. ASSUME NEW p \in Projects
      PROVE  SeenTree(lock[p].members) /\ SeenTree(installed[p].members)
  <2>1. SeenTree(LockOf(skillfile[p], c, local).members)
    BY <1>1, <1>3, LockOfSeen
  <2> QED
    BY <1>2, <2>1, NothingSeen
<1>5. CaptureIsOneState
  <2>1. \A p \in Projects : SeenEntries(Keys(installed[p]))
    BY <1>4, KeysSeen
  <2>2. store = UNION {Keys(installed[p]) : p \in Projects}
    BY DEF Init
  <2> QED
    BY <2>1, <2>2 DEF CaptureIsOneState, SeenEntries
<1>6. LocksSeen
  BY <1>4, NothingSeen DEF Init, LocksSeen, NoJournal
<1>7. ASSUME NEW p \in Projects PROVE PlanSeen(p) /\ ReadingSeen(p)
  <2>1. /\ plan[p].old = NoLock /\ plan[p].members = Unresolved
        /\ plan[p].missing = {} /\ plan[p].read = << >>
    BY DEF Init, NoPlan
  <2> QED
    BY <2>1, NothingSeen, SourceBoundsAssumption DEF PlanSeen, ReadingSeen
<1> QED
  BY <1>1, <1>5, <1>6, <1>7 DEF CapturesSeen, PlansSeen

-----------------------------------------------------------------------------
(* What the open journal and the plans say of the locks and the runtime.   *)

\* What a rollback restores.
OldInstalled(q) == IF q = journal.owner THEN journal.installed ELSE installed[q]
OldRuntime ==
  (runtime \ (IF At("runtime", {"new"}) THEN journal.added ELSE {}))
     \union (IF At("removal", {"out", "new"}) THEN journal.removed ELSE {})

Publishes == {"apply", "replay", "undo", "restore"}
Late == {"lock", "revalidate", "prepare"} \union Publishes

\* Who is past the home lock owns it, and finds the journal in the phase that
\* its routine is for, or no journal.
HomeOwned(p) ==
  /\ pc[p] \in Late \ {"lock"} => home = p
  /\ pc[p] \in {"revalidate", "prepare"} => journal = NoJournal
  /\ pc[p] \in Publishes => journal.owner # Nobody
  /\ pc[p] = "apply" => journal.owner = p
  /\ pc[p] \in {"apply", "replay"} => journal.phase = "forward"
  /\ pc[p] \in {"undo", "restore"} => journal.phase = "back"

\* A frozen install that goes on has read the lock that is there.
FrozenLock(p) ==
  mode[p] = "frozen" =>
    /\ pc[p] \notin {"resolve", "store"}
    /\ pc[p] \notin {"idle", "select", "apply", "undo"} /\ p \notin replaced =>
         lock[p] = plan[p].old

\* A running attempt has a lane, and publishes a Skillfile that wants something.
LaneChosen(p) ==
  /\ pc[p] \notin {"idle", "select"} => mode[p] # "none"
  /\ pc[p] = "prepare" => plan[p].data # {}

\* What a plan removes its old lock names and its new one does not.
PlannedRemovals(p) ==
  /\ plan[p].removals \subseteq Keys(plan[p].old) \ Planned(p)
  /\ pc[p] \in Late \/ plan[p].removals = {}

InstallAgrees(p) ==
  HomeOwned(p) /\ FrozenLock(p) /\ LaneChosen(p) /\ PlannedRemovals(p)
InstallsAgree == \A p \in Projects : InstallAgrees(p)

\* Target classes are applied in their order, and taken back in reverse.
InOrder ==
  /\ At("runtime", {"none", "old", "new"})
  /\ At("removal", {"none", "old", "out", "new"})
  /\ \A class \in Classes : \A e \in Earlier(class) :
       At(class, {"out", "saved", "new"}) => At(e, {"none", "new"})

\* What is applied is as the journal wants it, what is not as it has found it,
\* what is displaced is gone; what it has found agreed.
JournalLocks ==
  journal.owner # Nobody =>
    /\ journal.new # NoLock
    /\ At("lock", {"none", "old"}) => lock[journal.owner] = journal.lock
    /\ At("lock", {"out", "saved"}) => lock[journal.owner] = NoLock
    /\ At("lock", {"new"}) => lock[journal.owner] = journal.new
    /\ At("lock", {"none"}) /\ journal.owner \notin replaced =>
         journal.lock = journal.new
    /\ At("context", {"none", "old"}) =>
         installed[journal.owner] = journal.installed
    /\ At("context", {"out", "saved"}) => installed[journal.owner] = NoLock
    /\ At("context", {"new"}) => installed[journal.owner] = journal.new
    /\ At("context", {"none"}) => journal.installed = journal.new
    /\ journal.owner \notin replaced /\ journal.installed # NoLock =>
         journal.installed = journal.lock

\* The new lock can run once the runtime is applied, and before that everybody
\* could run from what a rollback restores.
JournalRuntime ==
  /\ journal.removed \subseteq Keys(journal.old) \ Keys(journal.new)
  /\ journal.removed \intersect journal.added = {}
  /\ Keys(journal.new) \subseteq
       runtime \union (IF At("runtime", {"old"}) THEN journal.added ELSE {})
  /\ At("runtime", {"old"}) => journal.added \intersect runtime = {}
  /\ At("removal", {"old"}) => journal.removed \subseteq runtime
  /\ journal.robbed \subseteq
       robbed \union OldRuntime
         \union (IF At("runtime", {"new"}) THEN journal.added ELSE {})
  /\ journal.owner # Nobody =>
       \A q \in Projects :
         Keys(OldInstalled(q)) \subseteq OldRuntime \union journal.robbed

JournalAgrees ==
  /\ journal = NoJournal \/ journal.owner \in Projects
  /\ InOrder /\ JournalLocks /\ JournalRuntime

\* The part that names no plan.
HomeAgrees == JournalAgrees /\ LockIsInstalled /\ RuntimeKept

SourceAgrees == InstallsAgree /\ HomeAgrees
SourceInv == SourceInvariant /\ CapturesSeen /\ SourceAgrees
LEMMA NothingAgrees == journal = NoJournal => JournalAgrees
<1> SUFFICES ASSUME journal = NoJournal PROVE JournalAgrees
  OBVIOUS
<1>1. /\ \A class \in Classes : journal.at[class] = "none"
      /\ \A class \in Classes : Earlier(class) \subseteq Classes
      /\ "lock" \in Classes /\ "context" \in Classes
      /\ "runtime" \in Classes /\ "removal" \in Classes
  BY DEF NoJournal, Classes, Earlier
<1>2. /\ journal.owner = Nobody /\ journal.removed = {} /\ journal.robbed = {}
      /\ journal.added = {} /\ journal.new = NoLock
  BY DEF NoJournal
<1>3. InOrder
  BY <1>1 DEF InOrder, At
<1>4. JournalLocks /\ JournalRuntime
  BY <1>1, <1>2, NothingStored DEF JournalLocks, JournalRuntime, At
<1> QED
  BY <1>3, <1>4 DEF JournalAgrees

LEMMA ClosedAgrees == journal' = NoJournal => JournalAgrees'
<1>1. (journal = NoJournal)' => JournalAgrees'
  BY NothingAgrees, PTL
<1> QED
  BY <1>1

\* One install goes on; it changes the journal, and the owner of the home, when
\* the home is its own or nobody's.
LEMMA OthersAgree ==
  ASSUME InstallsAgree, NEW p \in Projects,
         \A q \in Projects \ {p} :
           /\ plan'[q] = plan[q] /\ pc'[q] = pc[q] /\ mode'[q] = mode[q]
           /\ lock'[q] = lock[q]
           /\ q \in replaced => q \in replaced',
         \/ journal' = journal /\ home' = home
         \/ home \in {p, Nobody},
         InstallAgrees(p)'
  PROVE  InstallsAgree'
<1>1. ASSUME NEW q \in Projects \ {p} PROVE InstallAgrees(q)'
  <2>1. InstallAgrees(q) /\ q # Nobody
    BY SourceNamesAssumption DEF InstallsAgree
  <2>2. home \in {p, Nobody} => pc[q] \notin Late \ {"lock"}
    BY <2>1 DEF InstallAgrees, HomeOwned
  <2>3. HomeOwned(q)'
    BY <2>1, <2>2 DEF InstallAgrees, HomeOwned, Late, Publishes
  <2>4. FrozenLock(q)'
    BY <2>1 DEF InstallAgrees, FrozenLock
  <2>5. PlannedRemovals(q)' /\ LaneChosen(q)'
    BY <2>1 DEF InstallAgrees, PlannedRemovals, Planned, Keys, LaneChosen
  <2> QED
    BY <2>3, <2>4, <2>5 DEF InstallAgrees
<1> QED
  BY <1>1 DEF InstallsAgree

LEMMA NoPlanAgrees ==
  ASSUME NEW p \in Projects, plan'[p] = NoPlan,
         (pc'[p] = "idle" /\ mode'[p] = "none") \/ pc'[p] = "select"
  PROVE  InstallAgrees(p)'
<1>1. plan'[p].removals = {}
  BY DEF NoPlan
<1> QED
  BY <1>1
  DEF InstallAgrees, HomeOwned, FrozenLock, LaneChosen, PlannedRemovals, Late,
      Publishes

LEMMA EndAgrees ==
  ASSUME InstallsTyped, InstallsAgree, NEW p \in Projects,
         (\E how \in Outcomes : End(p, how)) \/ Retry(p),
         \A q \in Projects \ {p} :
           lock'[q] = lock[q] /\ (q \in replaced => q \in replaced'),
         journal' = journal \/ home = p
  PROVE  InstallsAgree'
<1>1. /\ plan' = [plan EXCEPT ![p] = NoPlan]
      /\ \/ /\ pc' = [pc EXCEPT ![p] = "idle"]
            /\ mode' = [mode EXCEPT ![p] = "none"]
         \/ pc' = [pc EXCEPT ![p] = "select"] /\ mode' = mode
      /\ home' = home \/ home = p
  BY DEF End, Retry, Goto
<1>2. InstallAgrees(p)'
  BY <1>1, NoPlanAgrees DEF InstallsTyped
<1> QED
  BY <1>1, <1>2, OthersAgree DEF InstallsTyped

\* A plan without targets and without the home lock.
LEMMA EarlyAgrees ==
  ASSUME InstallsAgree, NEW p \in Projects,
         UNCHANGED <<lock, journal, replaced, home>>,
         \A q \in Projects \ {p} :
           plan'[q] = plan[q] /\ pc'[q] = pc[q] /\ mode'[q] = mode[q],
         pc'[p] \in {"select", "read", "resolve", "serve", "capture", "store", "plan"},
         plan'[p].removals = {}, pc'[p] = "select" \/ mode'[p] # "none",
         mode'[p] = "frozen" =>
           /\ pc'[p] \notin {"resolve", "store"}
           /\ pc'[p] = "select" \/ p \in replaced \/ lock[p] = plan'[p].old
  PROVE  InstallsAgree'
<1>1. HomeOwned(p)' /\ PlannedRemovals(p)' /\ LaneChosen(p)'
  BY DEF HomeOwned, PlannedRemovals, LaneChosen, Late, Publishes
<1>2. FrozenLock(p)'
  BY DEF FrozenLock
<1>3. InstallAgrees(p)'
  BY <1>1, <1>2 DEF InstallAgrees
<1> QED
  BY <1>3, OthersAgree

\* Planning reads a lock, and removes what that lock names.
LEMMA PlanningAgrees ==
  ASSUME SourcesKnown, Resolution, InstallsAgree, NEW p \in Projects, Planning(p)
  PROVE  InstallsAgree'
<1> USE DEF SourcesKnown, TypeOK
<1>1. UNCHANGED <<lock, installed, journal, replaced>>
  BY PlanningShape
<1>2. /\ HomeOwned(p) /\ FrozenLock(p) /\ PlannedRemovals(p)
      /\ LaneChosen(p) /\ plan[p] \in PlanType
  BY DEF InstallsAgree, InstallAgrees, InstallsTyped
<1>3. PlanResolved(p)
  BY DEF Resolution, PlansResolved
<1>4. CASE LockTimeout(p) \/ Refuse(p) \/ Crash(p)
  BY <1>1, <1>4, EndAgrees DEF LockTimeout, Refuse, Crash, Outcomes
<1>5. CASE Start(p)
  <2>1. /\ pc[p] = "idle" /\ pc' = [pc EXCEPT ![p] = "select"]
        /\ UNCHANGED <<plan, mode, home>>
    BY <1>5 DEF Start, Goto
  <2>2. plan[p].removals = {}
    BY <1>2, <2>1 DEF PlannedRemovals, Late, Publishes
  <2> QED
    BY <1>1, <2>1, <2>2, <1>2, EarlyAgrees DEF InstallsTyped, LaneChosen
<1>6. CASE Select(p)
  <2>1. /\ pc[p] = "select" /\ pc' = [pc EXCEPT ![p] = "read"]
        /\ \E m \in {"frozen", "resolving"} : mode' = [mode EXCEPT ![p] = m]
        /\ plan' = [plan EXCEPT ![p].old = lock[p]] /\ home' = home
    BY <1>6 DEF Select, Goto
  <2>2. plan'[p].removals = {} /\ plan'[p].old = lock[p]
    BY <1>2, <2>1 DEF PlannedRemovals, Late, Publishes, InstallsTyped, PlanType
  <2> QED
    BY <1>1, <2>1, <2>2, <1>2, EarlyAgrees DEF InstallsTyped, LaneChosen
<1>7. CASE ReadFrozen(p)
  <2>1. CASE plan[p].old.skillfile = skillfile[p]
    <3>1. /\ pc[p] = "read" /\ pc' = [pc EXCEPT ![p] = "serve"]
          /\ plan' = [plan EXCEPT ![p] = [@ EXCEPT !.skillfile = skillfile[p],
                                             !.members = plan[p].old.members]]
          /\ UNCHANGED <<mode, home>>
      BY <1>7, <2>1 DEF ReadFrozen, Goto
    <3>2. plan'[p].removals = {} /\ plan'[p].old = plan[p].old
      BY <1>2, <3>1 DEF PlannedRemovals, Late, Publishes, InstallsTyped, PlanType
    <3>3. mode[p] = "frozen" => p \in replaced \/ lock[p] = plan[p].old
      BY <1>2, <3>1 DEF FrozenLock
    <3> QED
      BY <1>1, <3>1, <3>2, <3>3, <1>2, EarlyAgrees DEF InstallsTyped, LaneChosen
  <2>2. CASE plan[p].old.skillfile # skillfile[p]
    BY <1>1, <1>7, <2>2, EndAgrees DEF ReadFrozen, Outcomes
  <2> QED
    BY <2>1, <2>2
<1>8. CASE ReadResolving(p)
  <2>1. /\ pc[p] = "read" /\ pc' = [pc EXCEPT ![p] = "resolve"]
        /\ plan' = [plan EXCEPT ![p] = [@ EXCEPT !.skillfile = skillfile[p],
                                                 !.old = lock[p]]]
        /\ UNCHANGED <<mode, home>> /\ mode[p] = "resolving"
    BY <1>8 DEF ReadResolving, Goto
  <2>2. plan'[p].removals = {}
    BY <1>2, <2>1 DEF PlannedRemovals, Late, Publishes, InstallsTyped, PlanType
  <2> QED
    BY <1>1, <2>1, <2>2, <1>2, EarlyAgrees DEF InstallsTyped, LaneChosen
<1>9. CASE Resolve(p)
  <2>1. PICK a \in Wanted(p) :
          plan' = [plan EXCEPT ![p].members[a] = ResolveGitAlias(p, a)]
    BY <1>9 DEF Resolve
  <2>2. pc[p] = "resolve" /\ UNCHANGED <<pc, mode, home>>
    BY <1>9 DEF Resolve
  <2>3. mode[p] = "resolving"
    BY <1>3, <2>2 DEF PlanResolved
  <2>4. plan'[p].removals = {}
    BY <1>2, <2>1, <2>2 DEF PlannedRemovals, Late, Publishes, InstallsTyped, PlanType
  <2> QED
    BY <1>1, <2>1, <2>2, <2>3, <2>4, <1>2, EarlyAgrees DEF InstallsTyped, LaneChosen
<1>10. CASE Resolved(p)
  <2>1. /\ pc[p] = "resolve" /\ UNCHANGED <<plan, mode, home>>
        /\ \E step \in {"capture", "store"} : pc' = [pc EXCEPT ![p] = step]
    BY <1>10 DEF Resolved, Goto
  <2>2. mode[p] = "resolving" /\ plan[p].removals = {}
    BY <1>2, <1>3, <2>1 DEF PlanResolved, PlannedRemovals, Late, Publishes
  <2> QED
    BY <1>1, <2>1, <2>2, <1>2, EarlyAgrees DEF InstallsTyped, LaneChosen
<1>11. CASE Serve(p)
  <2>1. /\ pc[p] = "serve" /\ UNCHANGED <<mode, home>>
        /\ \E step \in {"capture", "plan"} : pc' = [pc EXCEPT ![p] = step]
        /\ plan' = [plan EXCEPT ![p].missing = Keys(plan[p].old) \ store]
    BY <1>11 DEF Serve, Goto
  <2>2. plan'[p].removals = {} /\ plan'[p].old = plan[p].old
    BY <1>2, <2>1 DEF PlannedRemovals, Late, Publishes, InstallsTyped, PlanType
  <2>3. mode[p] = "frozen" => p \in replaced \/ lock[p] = plan[p].old
    BY <1>2, <2>1 DEF FrozenLock
  <2> QED
    BY <1>1, <2>1, <2>2, <2>3, <1>2, EarlyAgrees DEF InstallsTyped, LaneChosen
<1>12. CASE ReadFile(p) \/ RereadFile(p) \/ Captured(p)
  <2>1. pc[p] = "capture"
    BY <1>12 DEF ReadFile, RereadFile, Captured
  <2>2. /\ mode[p] = "frozen" => p \in replaced \/ lock[p] = plan[p].old
        /\ plan[p].removals = {}
    BY <1>2, <2>1 DEF FrozenLock, PlannedRemovals, Late, Publishes
  <2>3. CASE End(p, "failed")
    BY <1>1, <2>3, EndAgrees DEF Outcomes
  <2>4. CASE ~End(p, "failed")
    <3>1. /\ \/ pc' = pc \/ pc' = [pc EXCEPT ![p] = "plan"]
             \/ (pc' = [pc EXCEPT ![p] = "store"] /\ mode[p] = "resolving")
          /\ UNCHANGED <<mode, home>>
      BY <1>12, <2>4
      DEF ReadFile, RereadFile, Captured, CaptureChanged, Goto
    <3>2. \/ plan' = plan
          \/ \E r : plan' = [plan EXCEPT ![p].read = r]
          \/ \E k : plan' = [plan EXCEPT ![p].checked = k]
          \/ \E m : plan' = [plan EXCEPT ![p].members[LocalAlias] = m]
      BY <1>12, <2>4 DEF ReadFile, RereadFile, Captured, CaptureChanged
    <3>3. /\ plan'[p].removals = {} /\ plan'[p].old = plan[p].old
          /\ \A q \in Projects \ {p} : plan'[q] = plan[q]
      <4>1. ASSUME NEW new, plan' = [plan EXCEPT ![p] = new],
                   new.removals = plan[p].removals, new.old = plan[p].old
            PROVE  /\ plan'[p].removals = {} /\ plan'[p].old = plan[p].old
                   /\ \A q \in Projects \ {p} : plan'[q] = plan[q]
        BY <2>2, <4>1 DEF InstallsTyped
      <4>2. \A r : /\ [plan[p] EXCEPT !.read = r].removals = plan[p].removals
                   /\ [plan[p] EXCEPT !.read = r].old = plan[p].old
                   /\ [plan[p] EXCEPT !.checked = r].removals = plan[p].removals
                   /\ [plan[p] EXCEPT !.checked = r].old = plan[p].old
                   /\ [plan[p] EXCEPT !.members[LocalAlias] = r].removals
                        = plan[p].removals
                   /\ [plan[p] EXCEPT !.members[LocalAlias] = r].old = plan[p].old
        BY <1>2 DEF PlanType
      <4>3. CASE plan' = plan
        BY <2>2, <4>3
      <4>4. CASE \E r : plan' = [plan EXCEPT ![p].read = r]
        BY <4>1, <4>2, <4>4
      <4>5. CASE \E k : plan' = [plan EXCEPT ![p].checked = k]
        BY <4>1, <4>2, <4>5
      <4>6. CASE \E m : plan' = [plan EXCEPT ![p].members[LocalAlias] = m]
        BY <4>1, <4>2, <4>6
      <4> QED
        BY <3>2, <4>3, <4>4, <4>5, <4>6
    <3>4. /\ pc'[p] \in {"capture", "plan", "store"}
          /\ pc'[p] = "store" => mode[p] = "resolving"
          /\ \A q \in Projects \ {p} : pc'[q] = pc[q]
      BY <2>1, <3>1 DEF InstallsTyped
    <3> QED
      BY <1>1, <1>2, <2>1, <2>2, <3>1, <3>3, <3>4, EarlyAgrees DEF LaneChosen
  <2> QED
    BY <2>3, <2>4
<1>13. CASE StageStore(p)
  <2>1. PICK key \in Planned(p) : plan' = [plan EXCEPT ![p].staged = @ \union {key}]
    BY <1>13 DEF StageStore
  <2>2. /\ pc[p] = "store" /\ UNCHANGED <<mode, home>>
        /\ pc' = pc \/ pc' = [pc EXCEPT ![p] = "plan"]
    BY <1>13 DEF StageStore, Goto
  <2>3. mode[p] # "frozen" /\ plan[p].removals = {}
    BY <1>2, <2>2 DEF FrozenLock, PlannedRemovals, Late, Publishes
  <2>4. plan'[p].removals = {}
    BY <1>2, <2>1, <2>3 DEF InstallsTyped, PlanType
  <2> QED
    BY <1>1, <2>1, <2>2, <2>3, <2>4, <1>2, EarlyAgrees DEF InstallsTyped, LaneChosen
<1>14. CASE PlanTargets(p)
  <2>1. CASE End(p, "failed")
    BY <1>1, <2>1, EndAgrees DEF Outcomes
  <2>2. CASE ~End(p, "failed")
    <3>1. /\ pc[p] = "plan" /\ pc' = [pc EXCEPT ![p] = "lock"]
          /\ UNCHANGED <<mode, home>>
          /\ plan' = [plan EXCEPT ![p] = [@ EXCEPT
               !.removals = Removals(p), !.runtime = Watched(p, Removals(p)),
               !.lock = lock[p], !.installed = installed[p]]]
      BY <1>14, <2>2 DEF PlanTargets, Goto
    <3>2. /\ plan'[p].removals = Removals(p) /\ plan'[p].old = plan[p].old
          /\ plan'[p].members = plan[p].members
      BY <1>2, <3>1 DEF InstallsTyped, PlanType
    <3>3. Planned(p)' = Planned(p) /\ Keys(plan[p].old)' = Keys(plan[p].old)
      BY <3>2 DEF Planned, Keys
    <3>4. pc'[p] = "lock" /\ mode'[p] = mode[p]
      BY <3>1 DEF InstallsTyped
    <3>5. PlannedRemovals(p)'
      BY <3>2, <3>3, <3>4 DEF PlannedRemovals, Removals, Late
    <3>6. HomeOwned(p)' /\ LaneChosen(p)'
      BY <1>2, <3>1, <3>4 DEF HomeOwned, LaneChosen, Late, Publishes
    <3>7. FrozenLock(p)'
      BY <1>1, <1>2, <3>1, <3>2, <3>4 DEF FrozenLock
    <3> QED
      BY <1>1, <3>1, <3>5, <3>6, <3>7, OthersAgree DEF InstallsTyped, InstallAgrees
  <2> QED
    BY <2>1, <2>2
<1>15. CASE Revalidate(p)
  <2>1. CASE Retry(p) \/ End(p, "failed")
    BY <1>1, <2>1, EndAgrees DEF Outcomes
  <2>2. CASE ~Retry(p) /\ ~End(p, "failed")
    <3>1. /\ pc[p] = "revalidate" /\ pc' = [pc EXCEPT ![p] = "prepare"]
          /\ UNCHANGED <<mode, home>>
          /\ plan' = [plan EXCEPT ![p].data = skillfile[p]]
      BY <1>15, <2>2 DEF Revalidate, Goto
    <3>2. /\ plan'[p].removals = plan[p].removals /\ plan'[p].old = plan[p].old
          /\ plan'[p].members = plan[p].members
      BY <1>2, <3>1 DEF InstallsTyped, PlanType
    <3>3. Planned(p)' = Planned(p) /\ Keys(plan[p].old)' = Keys(plan[p].old)
      BY <3>2 DEF Planned, Keys
    <3>4. pc'[p] = "prepare" /\ mode'[p] = mode[p]
      BY <3>1 DEF InstallsTyped
    <3>5. PlannedRemovals(p)'
      BY <1>2, <3>2, <3>3, <3>4 DEF PlannedRemovals, Late
    <3>6. HomeOwned(p)' /\ LaneChosen(p)'
      <4>1. plan'[p].data = skillfile[p] /\ skillfile[p] # {}
        BY <1>2, <3>1, AliasesAssumption
        DEF InstallsTyped, PlanType, SourcesTyped
      <4> QED
        BY <1>1, <1>2, <3>1, <3>4, <4>1
        DEF HomeOwned, LaneChosen, Late, Publishes
    <3>7. FrozenLock(p)'
      BY <1>1, <1>2, <3>1, <3>2, <3>4 DEF FrozenLock
    <3> QED
      BY <1>1, <3>1, <3>5, <3>6, <3>7, OthersAgree DEF InstallsTyped, InstallAgrees
  <2> QED
    BY <2>1, <2>2
<1> QED
  BY <1>4, <1>5, <1>6, <1>7, <1>8, <1>9, <1>10, <1>11, <1>12, <1>13, <1>14,
     <1>15 DEF Planning

\* Nothing moves; at most the journal turns back.
LEMMA SameHome ==
  ASSUME HomeAgrees, UNCHANGED <<lock, installed, runtime, robbed, replaced>>,
         \/ journal' = journal
         \/ /\ journal.owner \in Projects /\ SameJournal
            /\ journal'.at = journal.at
  PROVE  HomeAgrees'
<1>1. SameJournal /\ journal'.at = journal.at
  BY DEF SameJournal
<1>2. \A l : Keys(l)' = Keys(l')
  BY DEF Keys
<1>3. OldRuntime' = OldRuntime
  BY <1>1 DEF SameJournal, At, OldRuntime
<1>4. InOrder' /\ JournalLocks'
  BY <1>1 DEF HomeAgrees, JournalAgrees, InOrder, JournalLocks, SameJournal, At
<1>5. JournalRuntime'
  <2>1. /\ Keys(journal.new)' = Keys(journal.new)
        /\ Keys(journal.old)' = Keys(journal.old)
        /\ \A q \in Projects : Keys(OldInstalled(q))' = Keys(OldInstalled(q))
    BY <1>1 DEF Keys, OldInstalled, SameJournal
  <2> QED
    BY <1>1, <1>3, <2>1
    DEF HomeAgrees, JournalAgrees, JournalRuntime, SameJournal, At
<1>6. LockIsInstalled' /\ RuntimeKept'
  BY <1>1 DEF HomeAgrees, LockIsInstalled, RuntimeKept, SameJournal, At, Keys
<1>7. journal' = NoJournal \/ journal'.owner \in Projects
  BY <1>1 DEF HomeAgrees, JournalAgrees, SameJournal
<1> QED
  BY <1>4, <1>5, <1>6, <1>7 DEF HomeAgrees, JournalAgrees

\* What the user or the directory does leaves the plans and the home as they are.
LEMMA ElsewhereAgrees ==
  ASSUME SourceAgrees, UNCHANGED vars \/ Elsewhere
  PROVE  SourceAgrees'
<1>1. UNCHANGED <<lock, installed, runtime, robbed, journal, replaced, home,
                  process>>
  BY ElsewhereShape DEF vars, process
<1>2. InstallsAgree'
  BY <1>1
  DEF SourceAgrees, InstallsAgree, InstallAgrees, HomeOwned, FrozenLock, LaneChosen,
      PlannedRemovals, Planned, Keys, process
<1> QED
  BY <1>1, <1>2, SameHome DEF SourceAgrees

LEMMA PullAgrees ==
  ASSUME SourcesKnown, SourceAgrees, NEW p \in Projects, PullLock(p)
  PROVE  SourceAgrees'
<1> USE DEF SourcesKnown, TypeOK
<1>1. /\ journal.owner # p /\ replaced' = replaced \union {p}
      /\ \A q \in Projects \ {p} : lock'[q] = lock[q]
      /\ UNCHANGED <<installed, runtime, robbed, journal, home, process>>
  BY DEF PullLock, HomeTyped
<1>2. InstallAgrees(p)'
  BY <1>1
  DEF SourceAgrees, InstallsAgree, InstallAgrees, HomeOwned, FrozenLock, LaneChosen,
      PlannedRemovals, Planned, Keys, process
<1>3. InstallsAgree'
  BY <1>1, <1>2, OthersAgree DEF SourceAgrees, process
<1>4. HomeAgrees
  BY DEF SourceAgrees
<1>5. JournalLocks'
  <2>1. CASE journal.owner \in Projects
    BY <1>1, <1>4, <2>1
    DEF HomeAgrees, JournalAgrees, JournalLocks, At
  <2>2. CASE journal.owner \notin Projects
    <3>1. journal'.owner = Nobody
      BY <1>1, <2>2 DEF HomeTyped, JournalType
    <3> QED
      BY <3>1 DEF JournalLocks
  <2> QED
    BY <2>1, <2>2
<1>6. InOrder' /\ JournalRuntime'
  BY <1>1, <1>4
  DEF HomeAgrees, JournalAgrees, InOrder, JournalRuntime, At, OldInstalled,
      OldRuntime, Keys
<1>7. LockIsInstalled' /\ RuntimeKept'
  BY <1>1, <1>4 DEF HomeAgrees, LockIsInstalled, RuntimeKept, At, Keys
<1> QED
  BY <1>1, <1>3, <1>4, <1>5, <1>6, <1>7
  DEF SourceAgrees, HomeAgrees, JournalAgrees

\* The journal that is written says what the lock, the contexts and the runtime
\* are and will be.
LEMMA JournalWritten ==
  ASSUME SourcesKnown, SourceAgrees, NEW p \in Projects,
         pc[p] = "prepare", Publishable(p), journal' = JournalOf(p),
         UNCHANGED <<lock, installed, runtime, robbed, replaced>>
  PROVE  HomeAgrees'
<1> USE DEF SourcesKnown, TypeOK
<1>1. p # Nobody /\ journal = NoJournal /\ journal.owner = Nobody
  BY SourceNamesAssumption
  DEF SourceAgrees, InstallsAgree, InstallAgrees, HomeOwned, Late, Publishes,
      NoJournal
<1>2. /\ journal'.owner = p /\ journal'.old = plan[p].old
      /\ journal'.new = Desired(p) /\ journal'.lock = lock[p]
      /\ journal'.installed = installed[p] /\ journal'.robbed = robbed
      /\ journal'.added = Planned(p) \ runtime
      /\ journal'.removed = plan[p].removals \intersect runtime
      /\ \A class \in Classes :
           journal'.at[class] = IF class \in Targets(p) THEN "old" ELSE "none"
  BY DEF JournalOf, NoJournal
<1>0. {"lock", "context", "runtime", "removal"} \subseteq Classes
  BY DEF Classes
<1>3. InOrder'
  BY <1>0, <1>2 DEF InOrder, At
<1>4. JournalLocks'
  <2>1. Desired(p) # NoLock
    <3>1. plan[p].data # {}
      BY DEF SourceAgrees, InstallsAgree, InstallAgrees, LaneChosen
    <3>2. Desired(p).skillfile = plan[p].data /\ NoLock.skillfile = {}
      BY DEF Desired, NoLock
    <3> QED
      BY <3>1, <3>2
  <2>2. p \notin replaced /\ "lock" \notin Targets(p) => lock[p] = Desired(p)
    <3>1. CASE mode[p] = "resolving"
      BY <3>1 DEF Targets, Classes
    <3>2. CASE mode[p] # "resolving"
      <4>1. mode[p] = "frozen"
        BY <3>2 DEF SourceAgrees, InstallsAgree, InstallAgrees, LaneChosen, InstallsTyped
      <4>2. Desired(p) = plan[p].old
        BY <4>1 DEF Publishable
      <4> QED
        BY <4>1, <4>2 DEF SourceAgrees, InstallsAgree, InstallAgrees, FrozenLock
    <3> QED
      BY <3>1, <3>2
  <2>3. "context" \in Targets(p) <=> installed[p] # Desired(p)
    BY DEF Targets, Classes
  <2>4. p \notin replaced /\ installed[p] # NoLock => installed[p] = lock[p]
    BY <1>1 DEF SourceAgrees, HomeAgrees, LockIsInstalled
  <2> QED
    BY <1>0, <1>2, <2>1, <2>2, <2>3, <2>4 DEF JournalLocks, At
<1>5. JournalRuntime'
  <2>1. Keys(journal'.new) = Planned(p) /\ Keys(journal'.old) = Keys(plan[p].old)
    BY <1>2 DEF Planned, Keys, Desired
  <2>2. plan[p].removals \subseteq Keys(plan[p].old) \ Planned(p)
    BY DEF SourceAgrees, InstallsAgree, InstallAgrees, PlannedRemovals
  <2>3. "runtime" \in Targets(p) <=> ~(Planned(p) \subseteq runtime)
    BY DEF Targets, Classes
  <2>4. \A q \in Projects : Keys(installed[q]) \subseteq runtime \union robbed
    BY <1>1, SourceNamesAssumption DEF SourceAgrees, HomeAgrees, RuntimeKept
  <2>5. OldRuntime' = runtime
    BY <1>0, <1>2 DEF OldRuntime, At
  <2>6. \A q \in Projects : Keys(OldInstalled(q))' = Keys(installed[q])
    BY <1>2 DEF OldInstalled, Keys
  <2>7. Keys(journal.old)' = Keys(plan[p].old) /\ Keys(journal.new)' = Planned(p)
    BY <1>2, <2>1 DEF Keys
  <2> QED
    BY <1>0, <1>2, <2>2, <2>3, <2>4, <2>5, <2>6, <2>7 DEF JournalRuntime, At
<1>6. LockIsInstalled'
  BY <1>1, <1>2, SourceNamesAssumption DEF SourceAgrees, HomeAgrees, LockIsInstalled
<1>7. RuntimeKept'
  <2>1. \A q \in Projects : Keys(installed[q]) \subseteq runtime \union robbed
    BY <1>1, SourceNamesAssumption DEF SourceAgrees, HomeAgrees, RuntimeKept
  <2> QED
    BY <2>1 DEF RuntimeKept, Keys
<1> QED
  BY <1>2, <1>3, <1>4, <1>5, <1>6, <1>7 DEF HomeAgrees, JournalAgrees

LEMMA PrepareAgrees ==
  ASSUME SourcesKnown, SourceAgrees, NEW p \in Projects, Prepare(p)
  PROVE  SourceAgrees'
<1> USE DEF SourcesKnown, TypeOK
<1>1. /\ pc[p] = "prepare" /\ home = p /\ journal = NoJournal
      /\ UNCHANGED <<lock, installed, runtime, robbed>>
  BY DEF Prepare, SourceAgrees, InstallsAgree, InstallAgrees, HomeOwned, Late, outputs
<1>2. CASE ~Publishable(p)
  <2>1. End(p, "failed") /\ UNCHANGED <<journal, replaced>>
    BY <1>2 DEF Prepare
  <2> QED
    BY <1>1, <2>1, EndAgrees, SameHome DEF SourceAgrees, Outcomes
<1>3. CASE Publishable(p) /\ Targets(p) = {}
  <2>1. End(p, "ok") /\ Settled(p, Desired(p)) /\ UNCHANGED journal
    BY <1>3 DEF Prepare
  <2>2. \A q \in Projects \ {p} : q \in replaced => q \in replaced'
    BY <2>1 DEF Settled
  <2>3. InstallsAgree'
    BY <1>1, <2>1, <2>2, EndAgrees DEF SourceAgrees, Outcomes
  <2>4. installed[p] = Desired(p)
    BY <1>3 DEF Targets, Classes
  <2>5. LockIsInstalled'
    BY <1>1, <2>1, <2>4 DEF SourceAgrees, HomeAgrees, LockIsInstalled, Settled
  <2>6. JournalAgrees'
    <3>1. journal' = NoJournal
      BY <1>1, <2>1
    <3> QED
      BY <3>1, ClosedAgrees
  <2>7. RuntimeKept'
    BY <1>1, <2>1 DEF SourceAgrees, HomeAgrees, RuntimeKept, At, Keys
  <2> QED
    BY <2>3, <2>5, <2>6, <2>7 DEF SourceAgrees, HomeAgrees
<1>4. CASE Publishable(p) /\ Targets(p) # {}
  <2>1. /\ pc' = [pc EXCEPT ![p] = "apply"] /\ journal' = JournalOf(p)
        /\ UNCHANGED <<home, fetch, mode, attempt, plan, outcome, replaced>>
    BY <1>4 DEF Prepare, Goto
  <2>2. HomeAgrees'
    BY <1>1, <1>4, <2>1, JournalWritten
  <2>3. journal'.owner = p /\ journal'.phase = "forward" /\ pc'[p] = "apply"
    BY <2>1 DEF JournalOf, NoJournal, InstallsTyped
  <2>4. InstallAgrees(p) /\ p # Nobody
    BY SourceNamesAssumption DEF SourceAgrees, InstallsAgree
  <2>5. HomeOwned(p)' /\ LaneChosen(p)' /\ FrozenLock(p)'
    BY <1>1, <2>1, <2>3, <2>4
    DEF InstallAgrees, HomeOwned, FrozenLock, LaneChosen
  <2>6. PlannedRemovals(p)'
    BY <2>1, <2>3, <2>4
    DEF InstallAgrees, PlannedRemovals, Planned, Keys, Late, Publishes
  <2>7. InstallAgrees(p)'
    BY <2>5, <2>6 DEF InstallAgrees
  <2>8. InstallsAgree'
    BY <1>1, <2>1, <2>7, OthersAgree DEF SourceAgrees, InstallsTyped
  <2> QED
    BY <2>2, <2>8 DEF SourceAgrees
<1> QED
  BY <1>2, <1>3, <1>4

\* Recovery takes the journal over, and may turn it back; a commit that fails
\* turns its own back.
LEMMA TurnAgrees ==
  ASSUME SourcesKnown, SourceAgrees, NEW p \in Projects,
         Recover(p) \/ CommitFails(p)
  PROVE  SourceAgrees'
<1> USE DEF SourcesKnown, TypeOK
<1>1. /\ UNCHANGED <<lock, installed, runtime, robbed, replaced, plan, mode>>
      /\ \A q \in Projects \ {p} : pc'[q] = pc[q]
  BY DEF Recover, CommitFails, outputs, Goto, InstallsTyped
<1>2. InstallAgrees(p) /\ HomeAgrees /\ p # Nobody
  BY SourceNamesAssumption DEF SourceAgrees, InstallsAgree
<1>3. /\ SameJournal /\ journal'.at = journal.at
      /\ journal'.phase = journal.phase \/ journal'.phase = "back"
      /\ journal' = journal \/ journal # NoJournal
  <2>1. CASE Recover(p)
    BY <2>1 DEF Recover, SameJournal, HomeTyped, JournalType
  <2>2. CASE CommitFails(p)
    <3>1. journal.owner # Nobody
      BY <1>2, <2>2
      DEF CommitFails, Forwarding, InstallAgrees, HomeOwned, Publishes
    <3>2. journal # NoJournal
      BY <3>1 DEF NoJournal
    <3> QED
      BY <2>2, <3>2 DEF CommitFails, SameJournal, HomeTyped, JournalType
  <2> QED
    BY <2>1, <2>2
<1>4. journal # NoJournal => journal.owner \in Projects
  BY <1>2 DEF HomeAgrees, JournalAgrees
<1>5. HomeAgrees'
  BY <1>1, <1>2, <1>3, <1>4, SameHome
<1>6. HomeOwned(p)' /\ home' = p /\ home \in {p, Nobody}
      /\ pc'[p] \in {"revalidate", "replay", "undo", "restore"}
      /\ pc[p] \in {"lock", "apply", "replay"}
  <2>1. CASE Recover(p)
    <3>1. /\ home = Nobody /\ home' = p /\ pc[p] = "lock"
          /\ \/ journal' = NoJournal /\ pc'[p] = "revalidate"
             \/ /\ journal # NoJournal /\ journal'.phase = "forward"
                /\ pc'[p] = "replay"
             \/ /\ journal # NoJournal /\ journal'.phase = "back"
                /\ pc'[p] = "undo"
             \/ /\ journal.phase = "back" /\ journal'.phase = "back"
                /\ pc'[p] = "restore"
      BY <2>1 DEF Recover, Goto, InstallsTyped, HomeTyped, JournalType
    <3>2. journal.phase = "back" => journal # NoJournal
      BY DEF NoJournal
    <3>3. journal # NoJournal => journal'.owner # Nobody
      BY <1>3, <1>4, SourceNamesAssumption DEF SameJournal
    <3> QED
      BY <3>1, <3>2, <3>3 DEF HomeOwned, Publishes
  <2>2. CASE CommitFails(p)
    <3>1. /\ home' = home /\ pc[p] \in {"apply", "replay"} /\ pc'[p] = "undo"
          /\ journal'.phase = "back"
      BY <2>2
      DEF CommitFails, Forwarding, Goto, InstallsTyped, HomeTyped, JournalType
    <3>2. home = p /\ journal'.owner # Nobody
      BY <1>2, <1>3, <3>1
      DEF InstallAgrees, HomeOwned, Late, Publishes, SameJournal
    <3> QED
      BY <3>1, <3>2 DEF HomeOwned
  <2> QED
    BY <2>1, <2>2
<1>7. LaneChosen(p)' /\ FrozenLock(p)'
  <2>1. pc[p] = "apply" => pc'[p] = "undo"
    BY DEF Recover, CommitFails, Goto, InstallsTyped
  <2> QED
    BY <1>1, <1>2, <1>6, <2>1 DEF InstallAgrees, LaneChosen, FrozenLock
<1>8. PlannedRemovals(p)'
  BY <1>1, <1>2, <1>6
  DEF InstallAgrees, PlannedRemovals, Planned, Keys, Late, Publishes
<1>9. InstallsAgree'
  BY <1>1, <1>6, <1>7, <1>8, OthersAgree DEF SourceAgrees, InstallAgrees
<1> QED
  BY <1>5, <1>9 DEF SourceAgrees

\* A journal that is closed: the plans of its owner and of who closed it.
LEMMA ClosingPlans ==
  ASSUME SourcesKnown, SourceAgrees, NEW p \in Projects,
         pc[p] \in Publishes, lock' = lock, journal' = NoJournal,
         \A q \in Projects \ {p} : q \in replaced => q \in replaced',
         \/ \E how \in Outcomes : End(p, how)
         \/ /\ pc[p] \notin {"apply", "undo"} /\ Goto(p, "revalidate")
            /\ UNCHANGED <<home, plan, mode, replaced>>
  PROVE  InstallsAgree'
<1> USE DEF SourcesKnown, TypeOK
<1>1. InstallAgrees(p) /\ home = p
  BY DEF SourceAgrees, InstallsAgree, InstallAgrees, HomeOwned, Late, Publishes
<1>2. CASE \E how \in Outcomes : End(p, how)
  BY <1>1, <1>2, EndAgrees DEF SourceAgrees
<1>3. CASE /\ pc[p] \notin {"apply", "undo"} /\ Goto(p, "revalidate")
           /\ UNCHANGED <<home, plan, mode, replaced>>
  <2>1. /\ pc'[p] = "revalidate" /\ \A q \in Projects \ {p} : pc'[q] = pc[q]
    BY <1>3 DEF Goto, InstallsTyped
  <2>2. HomeOwned(p)'
    BY <1>1, <1>3, <2>1 DEF HomeOwned, Publishes
  <2>3. LaneChosen(p)' /\ FrozenLock(p)'
    BY <1>1, <1>3, <2>1
    DEF InstallAgrees, LaneChosen, FrozenLock, Publishes
  <2>4. PlannedRemovals(p)'
    BY <1>1, <1>3, <2>1
    DEF InstallAgrees, PlannedRemovals, Planned, Keys, Late
  <2>5. InstallAgrees(p)'
    BY <2>2, <2>3, <2>4 DEF InstallAgrees
  <2> QED
    BY <1>1, <1>3, <2>1, <2>5, OthersAgree DEF SourceAgrees
<1> QED
  BY <1>2, <1>3

\* A commit that is complete, of this install or of the one before.
LEMMA DecideAgrees ==
  ASSUME SourcesKnown, SourceAgrees, NEW p \in Projects, Decide(p)
  PROVE  SourceAgrees'
<1> USE DEF SourcesKnown, TypeOK
<1>1. /\ pc[p] \in {"apply", "replay"} /\ journal' = NoJournal
      /\ UNCHANGED <<lock, installed, runtime, robbed>>
      /\ \/ pc[p] = "apply" /\ End(p, "ok") /\ Settled(p, installed[p])
         \/ /\ pc[p] = "replay" /\ Goto(p, "revalidate")
            /\ UNCHANGED <<home, fetch, mode, attempt, plan, outcome, replaced>>
  BY DEF Decide, Forwarding, outputs
<1>2. /\ At("lock", {"none", "new"}) /\ At("context", {"none", "new"})
      /\ At("runtime", {"none", "new"})
  BY DEF Decide, Classes
<1>3. /\ home = p /\ journal.owner # Nobody /\ journal.owner \in Projects
      /\ pc[p] = "apply" => journal.owner = p
  <2>1. InstallAgrees(p) /\ JournalAgrees
    BY DEF SourceAgrees, InstallsAgree, HomeAgrees
  <2>2. journal.owner # Nobody
    BY <1>1, <2>1 DEF InstallAgrees, HomeOwned, Publishes
  <2> QED
    BY <1>1, <2>1, <2>2
    DEF InstallAgrees, HomeOwned, Late, Publishes, JournalAgrees, NoJournal
<1>4. journal'.owner = Nobody
  BY <1>1 DEF NoJournal
<1>5. InstallsAgree'
  <2>1. \A q \in Projects \ {p} : q \in replaced => q \in replaced'
    BY <1>1 DEF Settled
  <2> QED
    BY <1>1, <2>1, ClosingPlans DEF Publishes, Outcomes
<1>6. JournalAgrees'
  BY <1>1, ClosedAgrees
<1>7. LockIsInstalled'
  <2>1. /\ installed[journal.owner] = journal.new
        /\ journal.owner \notin replaced => lock[journal.owner] = journal.new
    BY <1>2, <1>3 DEF SourceAgrees, HomeAgrees, JournalAgrees, JournalLocks, At
  <2>2. CASE pc[p] = "apply"
    BY <1>1, <1>3, <1>4, <2>1, <2>2
    DEF SourceAgrees, HomeAgrees, LockIsInstalled, Settled
  <2>3. CASE pc[p] = "replay"
    BY <1>1, <1>3, <1>4, <2>1, <2>3
    DEF SourceAgrees, HomeAgrees, LockIsInstalled
  <2> QED
    BY <1>1, <2>2, <2>3
<1>8. RuntimeKept'
  <2>1. \A q \in Projects : Keys(installed[q]) \subseteq runtime \union robbed
    BY <1>2 DEF SourceAgrees, HomeAgrees, RuntimeKept, At
  <2> QED
    BY <1>1, <2>1 DEF RuntimeKept, Keys
<1> QED
  BY <1>5, <1>6, <1>7, <1>8 DEF SourceAgrees, HomeAgrees

\* A rollback that is complete has put back what the journal has found.
LEMMA RolledBackAgrees ==
  ASSUME SourcesKnown, SourceAgrees, NEW p \in Projects, RolledBack(p)
  PROVE  SourceAgrees'
<1> USE DEF SourcesKnown, TypeOK
<1>1. /\ pc[p] \in {"undo", "restore"} /\ journal' = NoJournal
      /\ UNCHANGED <<lock, installed, runtime, robbed, replaced>>
      /\ \/ pc[p] = "undo" /\ End(p, "failed")
         \/ /\ pc[p] = "restore" /\ Goto(p, "revalidate")
            /\ UNCHANGED <<home, fetch, mode, attempt, plan, outcome>>
  BY DEF RolledBack, CloseRollback, Backing, outputs
<1>2. /\ At("lock", {"none", "old"}) /\ At("context", {"none", "old"})
      /\ At("runtime", {"none", "old"}) /\ At("removal", {"none", "old"})
  BY DEF RolledBack, Classes
<1>3. journal.owner # Nobody /\ journal.owner \in Projects
  <2>1. InstallAgrees(p) /\ JournalAgrees
    BY DEF SourceAgrees, InstallsAgree, HomeAgrees
  <2>2. journal.owner # Nobody
    BY <1>1, <2>1 DEF InstallAgrees, HomeOwned, Publishes
  <2> QED
    BY <2>1, <2>2 DEF JournalAgrees, NoJournal
<1>4. journal'.owner = Nobody
  BY <1>1 DEF NoJournal
<1>5. InstallsAgree'
  BY <1>1, ClosingPlans DEF Publishes, Outcomes
<1>6. JournalAgrees'
  BY <1>1, ClosedAgrees
<1>7. JournalLocks /\ JournalRuntime /\ LockIsInstalled
  BY DEF SourceAgrees, HomeAgrees, JournalAgrees
<1>8. /\ lock[journal.owner] = journal.lock
      /\ installed[journal.owner] = journal.installed
  BY <1>2, <1>3, <1>7 DEF JournalLocks
<1>9. LockIsInstalled'
  BY <1>1, <1>3, <1>4, <1>7, <1>8 DEF LockIsInstalled, JournalLocks
<1>10. RuntimeKept'
  <2>1. OldRuntime = runtime
    BY <1>2 DEF OldRuntime, At
  <2>2. journal.robbed \subseteq robbed \union runtime
    BY <1>2, <1>7, <2>1 DEF JournalRuntime, At
  <2>3. \A q \in Projects : OldInstalled(q) = installed[q]
    BY <1>8 DEF OldInstalled
  <2>4. \A q \in Projects : Keys(installed[q]) \subseteq runtime \union robbed
    BY <1>3, <1>7, <2>1, <2>2, <2>3 DEF JournalRuntime
  <2> QED
    BY <1>1, <2>4 DEF RuntimeKept, Keys
<1> QED
  BY <1>5, <1>6, <1>9, <1>10 DEF SourceAgrees, HomeAgrees

-----------------------------------------------------------------------------
(* The moves keep what the journal and the plans say.                      *)

\* Who moves a target holds the home, and a journal that is open.
LEMMA MoverOwns ==
  ASSUME SourceAgrees, NEW p \in Projects, Moving(p)
  PROVE  /\ home = p /\ journal.owner \in Projects /\ journal.owner # Nobody
         /\ pc[p] \in Publishes
<1>1. pc[p] \in Publishes
  BY DEF Moving, DisplaceLock, PlaceLock, DisplaceContext, PlaceContext,
         SaveDisplaced, PlaceRuntime, DisplaceRemovals, RestoreRemovals,
         WithdrawRuntime, WithdrawContext, RestoreContext, WithdrawLock,
         RestoreLock, Forwarding, Backing, Publishes
<1>2. InstallAgrees(p) /\ JournalAgrees
  BY DEF SourceAgrees, InstallsAgree, HomeAgrees
<1>3. journal.owner # Nobody
  BY <1>1, <1>2 DEF InstallAgrees, HomeOwned
<1> QED
  BY <1>1, <1>2, <1>3
  DEF InstallAgrees, HomeOwned, Late, JournalAgrees, NoJournal, Publishes

\* A frozen install of the journal's owner that has read the lock has a lock
\* that was replaced, when a move touches it.
LEMMA MovingPlans ==
  ASSUME SourcesKnown, SourceAgrees, NEW p \in Projects, Moving(p)
  PROVE  InstallsAgree'
<1> USE DEF SourcesKnown, TypeOK
<1>1. /\ UNCHANGED <<home, process>> /\ SameJournal
      /\ journal'.phase = journal.phase /\ LockMoved
  BY MovingKeeps
<1>2. home = p /\ pc[p] \in Publishes /\ p # Nobody
  BY MoverOwns, SourceNamesAssumption
<1>3. ASSUME NEW q \in Projects PROVE InstallAgrees(q)'
  <2>1. InstallAgrees(q)
    BY DEF SourceAgrees, InstallsAgree
  <2>2. pc[q] \notin {"revalidate", "prepare"}
    BY <1>2, <2>1 DEF InstallAgrees, HomeOwned, Late, Publishes
  <2>3. HomeOwned(q)'
    BY <1>1, <2>1, <2>2 DEF process, SameJournal, InstallAgrees, HomeOwned
  <2>4. LaneChosen(q)' /\ PlannedRemovals(q)'
    BY <1>1, <2>1
    DEF process, InstallAgrees, LaneChosen, PlannedRemovals, Planned, Keys
  <2>5. FrozenLock(q)'
    <3>1. CASE lock'[q] = lock[q] /\ (q \in replaced => q \in replaced')
      BY <1>1, <2>1, <3>1 DEF process, InstallAgrees, FrozenLock
    <3>2. CASE ~(lock'[q] = lock[q] /\ (q \in replaced => q \in replaced'))
      <4>1. q = journal.owner /\ replaced' = replaced \union Superseded
        BY <1>1, <3>2 DEF LockMoved, HomeTyped
      <4>2. SUFFICES ASSUME mode[q] = "frozen",
                            pc[q] \notin {"idle", "select", "apply", "undo"}
                     PROVE  q \in replaced' /\ pc[q] \notin {"resolve", "store"}
        BY <1>1, <2>1 DEF process, InstallAgrees, FrozenLock
      <4>3. pc[q] \notin {"resolve", "store"} /\ pc[q] \in Steps
        BY <2>1, <4>2 DEF InstallAgrees, FrozenLock, InstallsTyped
      <4>4. q \in Superseded
        BY <2>2, <4>1, <4>2, <4>3 DEF Superseded, Steps
      <4> QED
        BY <4>1, <4>3, <4>4
    <3> QED
      BY <3>1, <3>2
  <2> QED
    BY <2>3, <2>4, <2>5 DEF InstallAgrees
<1> QED
  BY <1>3 DEF InstallsAgree

\* The classes around one that moves.
LEMMA Neighbours ==
  ASSUME HomeTyped, InOrder, NEW class \in Classes
  PROVE  /\ At(class, {"old", "out", "saved"}) =>
              \A l \in Classes : class \in Earlier(l) => At(l, {"none", "old"})
         /\ At(class, {"out", "saved", "new"}) =>
              \A e \in Earlier(class) : At(e, {"none", "new"})
<1>1. \A l \in Classes :
        ~At(l, {"out", "saved", "new"}) => At(l, {"none", "old"})
  BY DEF HomeTyped, JournalType, At
<1>2. \A l \in Classes :
        At(l, {"out", "saved", "new"}) /\ class \in Earlier(l) =>
          At(class, {"none", "new"})
  BY DEF InOrder
<1>3. At(class, {"old", "out", "saved"}) => ~At(class, {"none", "new"})
  BY DEF At
<1> QED
  BY <1>1, <1>2, <1>3 DEF InOrder

\* A move leaves the classes in their order.
LEMMA OrderMoved ==
  ASSUME HomeTyped, InOrder, NEW class \in Classes,
         NEW to \in {"old", "out", "saved", "new"},
         Move(class, to),
         \/ Turn(class) \/ UndoTurn(class) \/ At(class, {"out"}),
         class = "runtime" => to \in {"old", "new"},
         class = "removal" => to # "saved",
         to = "old" => UndoTurn(class)
  PROVE  InOrder'
<1>1. journal'.at = [journal.at EXCEPT ![class] = to]
  BY MoveKeeps DEF HomeTyped
<1>2. \A c \in Classes : journal'.at[c] = IF c = class THEN to ELSE journal.at[c]
  BY <1>1 DEF HomeTyped, JournalType
<1>3. /\ \A l \in Classes : class \in Earlier(l) => l # class
      /\ {"runtime", "removal"} \subseteq Classes
  BY DEF Classes, Earlier
<1>4. /\ \A e \in Earlier(class) : to # "old" => At(e, {"none", "new"})
      /\ \A l \in Classes : class \in Earlier(l) => At(l, {"none", "old"})
  <2>1. /\ Turn(class) => At(class, {"old", "out", "saved"})
        /\ UndoTurn(class) => At(class, {"out", "saved", "new"})
        /\ At(class, {"out"}) => /\ At(class, {"old", "out", "saved"})
                                 /\ At(class, {"out", "saved", "new"})
    BY DEF Turn, UndoTurn, At
  <2> QED
    BY <2>1, Neighbours DEF Turn, UndoTurn
<1>5. /\ At("runtime", {"none", "old", "new"})'
      /\ At("removal", {"none", "old", "out", "new"})'
  BY <1>2, <1>3 DEF InOrder, At
<1>6. ASSUME NEW l \in Classes, NEW e \in Earlier(l), At(l, {"out", "saved", "new"})'
      PROVE  At(e, {"none", "new"})'
  <2>1. e \in Classes /\ e # l
    BY DEF Earlier, Classes
  <2>2. CASE l = class
    BY <1>2, <1>4, <1>6, <2>1, <2>2 DEF At
  <2>3. CASE l # class
    <3>1. At(l, {"out", "saved", "new"})
      BY <1>2, <1>6, <2>3 DEF At
    <3>2. ~At(l, {"none", "old"})
      BY <3>1 DEF At
    <3>3. e # class
      BY <1>4, <3>2
    <3> QED
      BY <1>2, <2>1, <3>1, <3>3 DEF InOrder, At
  <2> QED
    BY <2>2, <2>3
<1>7. \A l \in Classes : Earlier(l)' = Earlier(l)
  BY DEF Earlier
<1> QED
  BY <1>5, <1>6, <1>7 DEF InOrder

\* Whoever has no journal open keeps the lock and the contexts it has.
LEMMA OthersInstalled ==
  ASSUME HomeAgrees, SameJournal, journal.owner \in Projects, HomeTyped,
         LockMoved, ContextMoved
  PROVE  LockIsInstalled'
<1>1. ASSUME NEW q \in Projects \ {journal.owner}
      PROVE  /\ lock'[q] = lock[q] /\ installed'[q] = installed[q]
             /\ q \in replaced => q \in replaced'
  BY DEF LockMoved, ContextMoved, HomeTyped
<1> QED
  BY <1>1 DEF LockIsInstalled, HomeAgrees, SameJournal

\* The lock goes, or comes.
LEMMA LockMoveAgrees ==
  ASSUME SourcesKnown, SourceAgrees, NEW p \in Projects,
         DisplaceLock(p) \/ PlaceLock(p) \/ WithdrawLock(p) \/ RestoreLock(p)
  PROVE  HomeAgrees'
<1> USE DEF SourcesKnown, TypeOK
<1>0. Moving(p)
  BY DEF Moving
<1>1. /\ journal.owner \in Projects /\ journal.owner # Nobody
      /\ SameJournal /\ LockMoved /\ ContextMoved
      /\ HomeAgrees /\ InOrder /\ JournalLocks /\ JournalRuntime /\ RuntimeKept
      /\ "lock" \in Classes
  BY <1>0, MovingKeeps, MoverOwns
  DEF SourceAgrees, HomeAgrees, JournalAgrees, Classes
<1>2. PICK l \in {NoLock, journal.new, journal.lock},
           to \in {"out", "new", "old"} :
        /\ LockMoves(l) /\ Move("lock", to)
        /\ to = "out" => l = NoLock
        /\ to = "new" => l = journal.new
        /\ to = "old" => l = journal.lock /\ UndoTurn("lock")
        /\ Turn("lock") \/ UndoTurn("lock")
  <2>1. CASE DisplaceLock(p)
    BY <2>1 DEF DisplaceLock
  <2>2. CASE PlaceLock(p)
    BY <2>2 DEF PlaceLock
  <2>3. CASE WithdrawLock(p)
    BY <2>3 DEF WithdrawLock
  <2>4. CASE RestoreLock(p)
    BY <2>4 DEF RestoreLock
  <2> QED
    BY <2>1, <2>2, <2>3, <2>4
<1>3. UNCHANGED <<installed, runtime, robbed>>
  BY DEF DisplaceLock, PlaceLock, WithdrawLock, RestoreLock
<1>4. /\ journal'.at = [journal.at EXCEPT !["lock"] = to]
      /\ journal' # NoJournal
  <2>1. journal'.at = [journal.at EXCEPT !["lock"] = to]
    BY <1>1, <1>2, MoveKeeps DEF HomeTyped
  <2> QED
    BY <1>1, <2>1 DEF SameJournal, NoJournal
<1>5. /\ journal'.at["lock"] = to
      /\ \A c \in {"context", "runtime", "removal"} :
           journal'.at[c] = journal.at[c]
  BY <1>1, <1>4 DEF HomeTyped, JournalType, Classes
<1>6. InOrder'
  BY <1>1, <1>2, OrderMoved
<1>7. lock'[journal.owner] = l /\ (replaced \subseteq replaced')
  BY <1>1, <1>2 DEF LockMoves, HomeTyped
<1>8. JournalLocks'
  BY <1>1, <1>2, <1>3, <1>5, <1>7 DEF JournalLocks, SameJournal, At
<1>9. OldRuntime' = OldRuntime /\ \A q \in Projects : OldInstalled(q)' = OldInstalled(q)
  BY <1>1, <1>3, <1>5 DEF OldRuntime, OldInstalled, SameJournal, At
<1>10. JournalRuntime'
  BY <1>1, <1>3, <1>5, <1>9 DEF JournalRuntime, SameJournal, At, Keys
<1>11. LockIsInstalled'
  BY <1>1, OthersInstalled
<1>12. RuntimeKept'
  BY <1>1, <1>3, <1>5 DEF RuntimeKept, SameJournal, At, Keys
<1> QED
  BY <1>1, <1>6, <1>8, <1>10, <1>11, <1>12
  DEF HomeAgrees, JournalAgrees, SameJournal

\* The contexts go, or come.
LEMMA ContextMoveAgrees ==
  ASSUME SourcesKnown, SourceAgrees, NEW p \in Projects,
         \/ DisplaceContext(p) \/ PlaceContext(p) \/ WithdrawContext(p)
         \/ RestoreContext(p)
  PROVE  HomeAgrees'
<1> USE DEF SourcesKnown, TypeOK
<1>0. Moving(p)
  BY DEF Moving
<1>1. /\ journal.owner \in Projects /\ journal.owner # Nobody
      /\ SameJournal /\ LockMoved /\ ContextMoved
      /\ HomeAgrees /\ InOrder /\ JournalLocks /\ JournalRuntime /\ RuntimeKept
      /\ "context" \in Classes
  BY <1>0, MovingKeeps, MoverOwns
  DEF SourceAgrees, HomeAgrees, JournalAgrees, Classes
<1>2. PICK l \in {NoLock, journal.new, journal.installed},
           to \in {"out", "new", "old"} :
        /\ installed' = [installed EXCEPT ![journal.owner] = l]
        /\ Move("context", to)
        /\ to = "out" => l = NoLock
        /\ to = "new" => l = journal.new
        /\ to = "old" => l = journal.installed /\ UndoTurn("context")
        /\ Turn("context") \/ UndoTurn("context")
        /\ to = "new" => Turn("context")
  <2>1. CASE DisplaceContext(p)
    BY <2>1 DEF DisplaceContext
  <2>2. CASE PlaceContext(p)
    BY <2>2 DEF PlaceContext
  <2>3. CASE WithdrawContext(p)
    BY <2>3 DEF WithdrawContext
  <2>4. CASE RestoreContext(p)
    BY <2>4 DEF RestoreContext
  <2> QED
    BY <2>1, <2>2, <2>3, <2>4
<1>3. UNCHANGED <<lock, runtime, robbed, replaced>>
  BY DEF DisplaceContext, PlaceContext, WithdrawContext, RestoreContext
<1>4. /\ journal'.at = [journal.at EXCEPT !["context"] = to]
      /\ journal' # NoJournal
  <2>1. journal'.at = [journal.at EXCEPT !["context"] = to]
    BY <1>1, <1>2, MoveKeeps DEF HomeTyped
  <2> QED
    BY <1>1, <2>1 DEF SameJournal, NoJournal
<1>5. /\ journal'.at["context"] = to
      /\ \A c \in {"lock", "runtime", "removal"} :
           journal'.at[c] = journal.at[c]
  BY <1>1, <1>4 DEF HomeTyped, JournalType, Classes
<1>6. InOrder'
  BY <1>1, <1>2, OrderMoved
<1>7. /\ installed'[journal.owner] = l
      /\ \A q \in Projects \ {journal.owner} : installed'[q] = installed[q]
  BY <1>1, <1>2 DEF HomeTyped
<1>8. JournalLocks'
  BY <1>1, <1>2, <1>3, <1>5, <1>7 DEF JournalLocks, SameJournal, At
<1>9. OldRuntime' = OldRuntime /\ \A q \in Projects : OldInstalled(q)' = OldInstalled(q)
  BY <1>1, <1>3, <1>5, <1>7 DEF OldRuntime, OldInstalled, SameJournal, At
<1>10. JournalRuntime'
  BY <1>1, <1>3, <1>5, <1>9 DEF JournalRuntime, SameJournal, At, Keys
<1>11. LockIsInstalled'
  BY <1>1, OthersInstalled
<1>12. \/ Keys(l) \subseteq runtime \union robbed
       \/ At("runtime", {"old"})
  <2>1. At("runtime", {"none", "old"}) /\ At("removal", {"none", "old"})
    <3>1. to \in {"new", "old"} \/ l = NoLock
      BY <1>2
    <3>2. /\ "context" \in Earlier("runtime") /\ "context" \in Earlier("removal")
          /\ {"runtime", "removal"} \subseteq Classes
      BY DEF Earlier, Classes
    <3>3. Turn("context") => At("context", {"old", "out", "saved"})
      BY DEF Turn
    <3> QED
      BY <1>1, <1>2, <3>2, <3>3, Neighbours DEF UndoTurn
  <2>2. CASE to = "out"
    BY <1>2, <2>2, NothingStored
  <2>3. CASE to = "new"
    BY <1>1, <1>2, <2>3 DEF JournalRuntime
  <2>4. CASE to = "old" /\ ~At("runtime", {"old"})
    <3>1. OldRuntime = runtime /\ ~At("runtime", {"new"})
      BY <2>1, <2>4 DEF OldRuntime, At
    <3>2. OldInstalled(journal.owner) = journal.installed
      BY DEF OldInstalled
    <3> QED
      BY <1>1, <1>2, <2>4, <3>1, <3>2 DEF JournalRuntime
  <2> QED
    BY <2>2, <2>3, <2>4
<1>13. RuntimeKept'
  <2>1. \A m : Keys(m)' = Keys(m)
    BY DEF Keys
  <2>2. \A q \in Projects \ {journal.owner} :
          Keys(installed[q]) \subseteq runtime \union robbed
    BY <1>1 DEF RuntimeKept
  <2> QED
    BY <1>1, <1>3, <1>5, <1>7, <1>12, <2>2 DEF RuntimeKept, SameJournal, At, Keys
<1> QED
  BY <1>1, <1>6, <1>8, <1>10, <1>11, <1>13
  DEF HomeAgrees, JournalAgrees, SameJournal

\* The journal learns of a displacement.
LEMMA SavedAgrees ==
  ASSUME SourcesKnown, SourceAgrees, NEW p \in Projects, SaveDisplaced(p)
  PROVE  HomeAgrees'
<1> USE DEF SourcesKnown, TypeOK
<1>0. Moving(p)
  BY DEF Moving
<1>1. /\ journal.owner \in Projects /\ journal.owner # Nobody
      /\ SameJournal /\ LockMoved /\ ContextMoved
      /\ HomeAgrees /\ InOrder /\ JournalLocks /\ JournalRuntime /\ RuntimeKept
  BY <1>0, MovingKeeps, MoverOwns
  DEF SourceAgrees, HomeAgrees, JournalAgrees, Classes
<1>2. PICK class \in Classes :
        /\ At(class, {"out"})
        /\ Move(class, IF class = "removal" THEN "new" ELSE "saved")
  BY DEF SaveDisplaced
<1>3. UNCHANGED <<lock, installed, runtime, robbed, replaced>>
  BY DEF SaveDisplaced, outputs
<1>4. class # "runtime"
  BY <1>1, <1>2 DEF InOrder, At
<1> DEFINE to == IF class = "removal" THEN "new" ELSE "saved"
<1>5. /\ journal'.at = [journal.at EXCEPT ![class] = to]
      /\ journal' # NoJournal
  <2>1. journal'.at = [journal.at EXCEPT ![class] = to]
    BY <1>1, <1>2, MoveKeeps DEF HomeTyped
  <2> QED
    BY <1>1, <2>1 DEF SameJournal, NoJournal
<1>6. /\ journal.at[class] = "out" /\ journal'.at[class] = to
      /\ \A c \in Classes \ {class} : journal'.at[c] = journal.at[c]
  BY <1>1, <1>2, <1>5 DEF HomeTyped, JournalType, At
<1>7. InOrder'
  <2>1. Move(class, to) /\ to \in {"saved", "new"} /\ (class = "removal" => to = "new")
    BY <1>2
  <2> HIDE DEF to
  <2> QED
    BY <1>1, <1>2, <1>4, <2>1, OrderMoved
<1>8. JournalLocks'
  BY <1>1, <1>3, <1>4, <1>6 DEF JournalLocks, SameJournal, At, Classes
<1>9. OldRuntime' = OldRuntime /\ \A q \in Projects : OldInstalled(q)' = OldInstalled(q)
  BY <1>1, <1>3, <1>4, <1>6 DEF OldRuntime, OldInstalled, SameJournal, At, Classes
<1>10. JournalRuntime'
  BY <1>1, <1>3, <1>4, <1>6, <1>9 DEF JournalRuntime, SameJournal, At, Keys, Classes
<1>11. LockIsInstalled'
  BY <1>1, OthersInstalled
<1>12. RuntimeKept'
  BY <1>1, <1>3, <1>4, <1>6 DEF RuntimeKept, SameJournal, At, Keys, Classes
<1> QED
  BY <1>1, <1>7, <1>8, <1>10, <1>11, <1>12
  DEF HomeAgrees, JournalAgrees, SameJournal

\* The runtime entries come, or go.
LEMMA RuntimeMoveAgrees ==
  ASSUME SourcesKnown, SourceAgrees, NEW p \in Projects,
         \/ PlaceRuntime(p) \/ DisplaceRemovals(p) \/ RestoreRemovals(p)
         \/ WithdrawRuntime(p)
  PROVE  HomeAgrees'
<1> USE DEF SourcesKnown, TypeOK
<1>0. Moving(p)
  BY DEF Moving
<1>1. /\ journal.owner \in Projects /\ journal.owner # Nobody
      /\ SameJournal /\ LockMoved /\ ContextMoved
      /\ HomeAgrees /\ InOrder /\ JournalLocks /\ JournalRuntime /\ RuntimeKept
  BY <1>0, MovingKeeps, MoverOwns
  DEF SourceAgrees, HomeAgrees, JournalAgrees
<1>2. {"lock", "context", "runtime", "removal"} \subseteq Classes
  BY DEF Classes
<1>3. UNCHANGED <<lock, installed, replaced>>
  BY DEF PlaceRuntime, DisplaceRemovals, RestoreRemovals, WithdrawRuntime
<1>4. PICK class \in {"runtime", "removal"}, to \in {"old", "out", "new"} :
        /\ Move(class, to)
        /\ Turn(class) \/ UndoTurn(class)
        /\ class = "runtime" => to \in {"old", "new"}
        /\ to = "old" => UndoTurn(class)
  BY DEF PlaceRuntime, DisplaceRemovals, RestoreRemovals, WithdrawRuntime
<1>5. InOrder' /\ journal'.at = [journal.at EXCEPT ![class] = to]
  BY <1>1, <1>2, <1>4, OrderMoved, MoveKeeps DEF HomeTyped
<1>6. \A c \in {"lock", "context"} : journal'.at[c] = journal.at[c]
  BY <1>4, <1>5, <1>2 DEF HomeTyped, JournalType
<1>7. JournalLocks'
  BY <1>1, <1>3, <1>6 DEF JournalLocks, SameJournal, At
<1>8. LockIsInstalled'
  BY <1>1, OthersInstalled
<1>9. /\ \A q \in Projects : OldInstalled(q)' = OldInstalled(q)
      /\ \A l : Keys(l)' = Keys(l)
      /\ installed' = installed
  BY <1>1, <1>3 DEF OldInstalled, SameJournal, Keys
<1>10. /\ \A q \in Projects \ {journal.owner} :
            Keys(installed[q]) \subseteq runtime \union robbed
       /\ \/ Keys(installed[journal.owner]) \subseteq runtime \union robbed
          \/ At("runtime", {"old"})
  BY <1>1 DEF RuntimeKept
<1>11. /\ At("context", {"none", "new"}) =>
            installed[journal.owner] = journal.new
       /\ journal.at["runtime"] \in {"none", "old", "new"}
       /\ journal.at["removal"] \in {"none", "old", "out", "new"}
  BY <1>1 DEF JournalLocks, InOrder, At
<1>12. ASSUME PlaceRuntime(p) PROVE JournalRuntime' /\ RuntimeKept'
  <2>1. /\ runtime' = runtime \union journal.added
        /\ robbed' = robbed \ journal.added
        /\ Turn("runtime") /\ Move("runtime", "new")
    BY <1>12 DEF PlaceRuntime
  <2>2. /\ journal.at["runtime"] = "old" /\ journal.at["removal"] \in {"none", "old"}
        /\ At("context", {"none", "new"})
    BY <1>1, <1>2, <1>11, <2>1, Neighbours DEF Turn, Earlier, At
  <2>3. journal'.at["runtime"] = "new" /\ journal'.at["removal"] = journal.at["removal"]
    BY <1>2, <2>1 DEF Move, HomeTyped, JournalType
  <2>4. OldRuntime' = OldRuntime
    BY <1>1, <2>1, <2>2, <2>3 DEF OldRuntime, JournalRuntime, SameJournal, At
  <2>5. JournalRuntime'
    BY <1>1, <1>9, <2>1, <2>2, <2>3, <2>4 DEF JournalRuntime, SameJournal, At
  <2>6. RuntimeKept'
    BY <1>1, <1>9, <1>10, <1>11, <2>1, <2>2
    DEF RuntimeKept, JournalRuntime, SameJournal, At
  <2> QED
    BY <2>5, <2>6
<1>13. ASSUME DisplaceRemovals(p) PROVE JournalRuntime' /\ RuntimeKept'
  <2>1. /\ runtime' = runtime \ journal.removed
        /\ robbed' = robbed \union Robbed
        /\ Turn("removal") /\ Move("removal", "out") /\ At("removal", {"old"})
    BY <1>13 DEF DisplaceRemovals
  <2>2. /\ journal.at["runtime"] \in {"none", "new"}
        /\ journal.at["removal"] = "old" /\ At("context", {"none", "new"})
    BY <2>1 DEF Turn, Earlier, At
  <2>3. journal'.at["removal"] = "out" /\ journal'.at["runtime"] = journal.at["runtime"]
    BY <1>2, <2>1 DEF Move, HomeTyped, JournalType
  <2>4. OldRuntime' = OldRuntime
    <3>1. PICK came \in {{}, journal.added} :
            came = IF At("runtime", {"new"}) THEN journal.added ELSE {}
      OBVIOUS
    <3>2. OldRuntime = runtime \ came
      BY <2>2, <3>1 DEF OldRuntime, At
    <3>3. OldRuntime' = (runtime' \ came) \union journal.removed
      BY <1>1, <2>2, <2>3, <3>1 DEF OldRuntime, SameJournal, At
    <3>4. journal.removed \subseteq runtime /\ journal.removed \intersect came = {}
      BY <1>1, <2>2, <3>1 DEF JournalRuntime, At
    <3> QED
      BY <2>1, <3>2, <3>3, <3>4
  <2>5. JournalRuntime'
    BY <1>1, <1>9, <2>1, <2>2, <2>3, <2>4 DEF JournalRuntime, SameJournal, At
  <2>6. RuntimeKept'
    <3>1. Keys(installed[journal.owner]) \subseteq runtime'
      BY <1>1, <1>11, <2>1, <2>2 DEF JournalRuntime, At
    <3>2. ASSUME NEW q \in Projects \ {journal.owner},
                 NEW key \in Keys(installed[q])
          PROVE  key \in runtime' \union robbed'
      BY <1>1, <1>10, <2>1 DEF Robbed, JournalRuntime
    <3> QED
      BY <1>9, <3>1, <3>2 DEF RuntimeKept
  <2> QED
    BY <2>5, <2>6
<1>14. ASSUME RestoreRemovals(p) PROVE JournalRuntime' /\ RuntimeKept'
  <2>1. /\ runtime' = runtime \union journal.removed
        /\ robbed' = robbed \ journal.removed
        /\ UndoTurn("removal") /\ Move("removal", "old")
    BY <1>14 DEF RestoreRemovals
  <2>2. /\ journal.at["runtime"] \in {"none", "new"}
        /\ journal.at["removal"] \in {"out", "new"}
    BY <1>1, <1>2, <1>11, <2>1, Neighbours DEF UndoTurn, Earlier, At
  <2>3. journal'.at["removal"] = "old" /\ journal'.at["runtime"] = journal.at["runtime"]
    BY <1>2, <2>1 DEF Move, HomeTyped, JournalType
  <2>4. OldRuntime' = OldRuntime /\ journal.removed \subseteq OldRuntime
    <3>1. PICK came \in {{}, journal.added} :
            came = IF At("runtime", {"new"}) THEN journal.added ELSE {}
      OBVIOUS
    <3>2. OldRuntime = (runtime \ came) \union journal.removed
      BY <2>2, <3>1 DEF OldRuntime, At
    <3>3. OldRuntime' = runtime' \ came
      BY <1>1, <2>2, <2>3, <3>1 DEF OldRuntime, SameJournal, At
    <3>4. journal.removed \intersect came = {}
      BY <1>1, <3>1 DEF JournalRuntime
    <3> QED
      BY <2>1, <3>2, <3>3, <3>4
  <2>5. JournalRuntime'
    BY <1>1, <1>9, <2>1, <2>2, <2>3, <2>4 DEF JournalRuntime, SameJournal, At
  <2>6. RuntimeKept'
    BY <1>1, <1>9, <1>10, <2>1, <2>2, <2>3 DEF RuntimeKept, SameJournal, At
  <2> QED
    BY <2>5, <2>6
<1>15. ASSUME WithdrawRuntime(p) PROVE JournalRuntime' /\ RuntimeKept'
  <2>1. /\ runtime' = runtime \ journal.added
        /\ robbed' = robbed \union (journal.robbed \intersect journal.added)
        /\ UndoTurn("runtime") /\ Move("runtime", "old")
    BY <1>15 DEF WithdrawRuntime
  <2>2. journal.at["runtime"] = "new" /\ journal.at["removal"] \in {"none", "old"}
    BY <1>1, <1>2, <1>11, <2>1, Neighbours DEF UndoTurn, Earlier, At
  <2>3. journal'.at["runtime"] = "old" /\ journal'.at["removal"] = journal.at["removal"]
    BY <1>2, <2>1 DEF Move, HomeTyped, JournalType
  <2>4. OldRuntime = runtime' /\ OldRuntime' = runtime'
    BY <1>1, <2>1, <2>2, <2>3 DEF OldRuntime, SameJournal, At
  <2>5. JournalRuntime'
    BY <1>1, <1>9, <2>1, <2>2, <2>3, <2>4 DEF JournalRuntime, SameJournal, At
  <2>6. RuntimeKept'
    <3>1. journal.robbed \subseteq robbed' \union runtime'
      BY <1>1, <2>1, <2>2, <2>4 DEF JournalRuntime, At
    <3>2. \A q \in Projects \ {journal.owner} :
            Keys(installed[q]) \subseteq runtime' \union journal.robbed
      BY <1>1, <2>4 DEF JournalRuntime, OldInstalled
    <3> QED
      BY <1>1, <1>9, <2>3, <3>1, <3>2 DEF RuntimeKept, SameJournal, At
  <2> QED
    BY <2>5, <2>6
<1>16. journal' # NoJournal /\ journal'.owner \in Projects
  BY <1>1 DEF SameJournal, NoJournal
<1> QED
  BY <1>5, <1>7, <1>8, <1>12, <1>13, <1>14, <1>15, <1>16
  DEF HomeAgrees, JournalAgrees

LEMMA MovingAgrees ==
  ASSUME SourcesKnown, SourceAgrees, NEW p \in Projects, Moving(p)
  PROVE  SourceAgrees'
<1>1. HomeAgrees'
  BY LockMoveAgrees, ContextMoveAgrees, SavedAgrees, RuntimeMoveAgrees
  DEF Moving
<1> QED
  BY <1>1, MovingPlans DEF SourceAgrees

LEMMA AgreesStep ==
  ASSUME SourcesKnown, Resolution, SourceAgrees, [Next]_vars
  PROVE  SourceAgrees'
<1>1. ASSUME NEW p \in Projects, Planning(p) PROVE SourceAgrees'
  <2>1. InstallsAgree'
    BY <1>1, PlanningAgrees DEF SourceAgrees
  <2>2. HomeAgrees'
    BY <1>1, PlanningShape, SameHome DEF SourceAgrees
  <2> QED
    BY <2>1, <2>2 DEF SourceAgrees
<1>2. ASSUME NEW p \in Projects, Publishing(p) PROVE SourceAgrees'
  BY <1>2, TurnAgrees, PrepareAgrees, MovingAgrees, DecideAgrees,
     RolledBackAgrees
  DEF Publishing
<1> QED
  BY <1>1, <1>2, PullAgrees, ElsewhereAgrees, StepShape

\* Whatever is installed at first comes from its lock, and can run.
LEMMA AgreesFirst == Init => SourceAgrees
<1> SUFFICES ASSUME Init PROVE SourceAgrees
  OBVIOUS
<1>1. journal = NoJournal
  BY DEF Init
<1>2. InstallsAgree
  BY DEF Init, InstallsAgree, InstallAgrees, HomeOwned, FrozenLock, LaneChosen,
         PlannedRemovals, NoPlan, Late, Publishes
<1>3. PICK locked, served \in SUBSET Projects :
        installed = [p \in Projects |-> IF p \in served THEN lock[p] ELSE NoLock]
  BY DEF Init
<1>4. LockIsInstalled
  BY <1>3 DEF LockIsInstalled
<1>5. RuntimeKept
  BY DEF Init, RuntimeKept
<1> QED
  BY <1>1, <1>2, <1>4, <1>5, NothingAgrees DEF SourceAgrees, HomeAgrees

-----------------------------------------------------------------------------
\* The whole inductive invariant: the typing, the resolution and the store, what
\* a capture has seen, and what the open journal, in either direction and with
\* its classes in their order, and the plans say of the home.
THEOREM SourceInvHolds == Spec => []SourceInv
<1>1. Init => SourceInv
  BY InvariantHoldsFirst, CapturesFirst, AgreesFirst DEF SourceInv
<1>2. SourceInv /\ [Next]_vars => SourceInv'
  <2>1. SourceInvariant /\ [Next]_vars => SourceInvariant'
    BY TypeStep, ResolutionStep, StoreStep DEF SourceInvariant
  <2> QED
    BY <2>1, CapturesStep, AgreesStep DEF SourceInv, SourceInvariant
<1> QED
  BY <1>1, <1>2, PTL DEF Spec

\* A directory that is edited while csk reads it: what capture_tree reads and
\* revalidate_capture finds again, file by file, is a state the directory was
\* in, so no mixture of two reaches the store or a lock.
THEOREM CapturesOneState == Spec => []CaptureIsOneState
BY SourceInvHolds, PTL DEF SourceInv, CapturesSeen

\* Whatever fails, dies and is finished or put back by another project's
\* install, what a project has installed has its runtime entries, but for those
\* that another project's removals took.
THEOREM InstalledCanRun == Spec => []RuntimeKept
BY SourceInvHolds, PTL DEF SourceInv, SourceAgrees, HomeAgrees

\* Outside a transaction of its own a project's contexts come from the lock that
\* lies beside them, unless the user replaced the lock, or a recovery did while
\* a frozen install went on with the one before: one that finishes the older
\* install, or one whose replay the hook refuses and that takes its lock back.
THEOREM InstalledFromLock == Spec => []LockIsInstalled
BY SourceInvHolds, PTL DEF SourceInv, SourceAgrees, HomeAgrees
=============================================================================
