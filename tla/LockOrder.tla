------------------------------ MODULE LockOrder ------------------------------
(***************************************************************************)
(* The order of csk's locks (src/csk/locking.py: ProjectLock, BuildLock,    *)
(* ManagerHomeLock) over one manager home.                                  *)
(*                                                                          *)
(* The lock files are shared by every process; each thread knows what it    *)
(* holds, and each process keeps, per class, the acquisitions pending and   *)
(* held by any of its threads.  The lock file itself (record, path,         *)
(* breakers) is the module StableLock; here it is one owner.                *)
(***************************************************************************)
EXTENDS Integers

CONSTANTS
  Threads, Procs,
  ProcOf,       \* the process of each thread
  LastProject,  \* project identities are numbered in their byte order
  Keys,         \* cache keys with a build lock
  MaxCrashes    \* bound on process deaths

ASSUME ProcOfAssumption == ProcOf \in [Threads -> Procs]
ASSUME ThreadsAssumption == "none" \notin Threads
ASSUME LastProjectAssumption == LastProject \in Nat
ASSUME MaxCrashesAssumption == MaxCrashes \in Nat

Project(i) == [class |-> "project", id |-> i]
Build(k)   == [class |-> "build", id |-> k]
Home       == [class |-> "home", id |-> 0]
NoLock     == [class |-> "none", id |-> 0]

Projects     == 1..LastProject
ProjectLocks == {Project(i) : i \in Projects}
BuildLocks   == {Build(k) : k \in Keys}
Locks == ProjectLocks \union BuildLocks \union {Home}

VARIABLES
  owner,     \* the thread that has each lock file locked, or "none"
  held,      \* _STATE: the locks each thread holds
  pending,   \* per process: acquisitions reserved but not decided
  recorded,  \* per process: acquisitions recorded as held
  goal,      \* the lock each thread acquires or releases
  pc, crashes

vars == <<owner, held, pending, recorded, goal, pc, crashes>>

Of(t) == ProcOf[t]

\* The classes with an acquisition in a process's reservation sets.
Classes(reserved, p) == {a.lock.class : a \in reserved[p]}

Entry(t) == [thread |-> t, lock |-> goal[t]]

Run(t) == pc' = [pc EXCEPT ![t] = "run"] /\ goal' = [goal EXCEPT ![t] = NoLock]

-----------------------------------------------------------------------------
(* _check_order_before_acquire: what the thread and what the process allow. *)

\* Fault: project locks are taken in any order.
AllowsUnordered(t, l) ==
  /\ Home \notin held[t] /\ l \notin held[t]
  /\ l.class = "build" => held[t] \cap ProjectLocks # {}
  /\ held[t] \cap BuildLocks = {}

ThreadAllows(t, l) ==
  /\ Home \notin held[t]
  /\ held[t] \cap BuildLocks = {}
  /\ l.class = "project" => \A m \in held[t] : m.id < l.id
  /\ l.class = "build" => held[t] \cap ProjectLocks # {}

\* Fault: only what is held counts, not what is pending.
AllowsPending(t, l) ==
  IF l.class = "home" THEN "build" \notin Classes(recorded, Of(t))
  ELSE "home" \notin Classes(recorded, Of(t))

ProcessAllows(t, l) ==
  IF l.class = "home"
  THEN /\ "build" \notin Classes(pending, Of(t)) \union Classes(recorded, Of(t))
       /\ "project" \notin Classes(pending, Of(t))
  ELSE "home" \notin Classes(pending, Of(t)) \union Classes(recorded, Of(t))

\* A refusal raises before anything is reserved.
Reserve(t, l) ==
  /\ pc[t] = "run"
  /\ ThreadAllows(t, l) /\ ProcessAllows(t, l)
  /\ pending' = [pending EXCEPT ![Of(t)] = @ \union {[thread |-> t, lock |-> l]}]
  /\ goal' = [goal EXCEPT ![t] = l]
  /\ pc' = [pc EXCEPT ![t] = "try"]
  /\ UNCHANGED <<owner, held, recorded, crashes>>

\* The lock file is polled until it is free.
TryLock(t) ==
  /\ pc[t] = "try" /\ owner[goal[t]] = "none"
  /\ owner' = [owner EXCEPT ![goal[t]] = t]
  /\ pc' = [pc EXCEPT ![t] = "record"]
  /\ UNCHANGED <<held, pending, recorded, goal, crashes>>

\* Fault: the entry is recorded after the attempt has been forgotten.
RecordForgotten(t) ==
  /\ pc[t] = "record"
  /\ pending' = [pending EXCEPT ![Of(t)] = @ \ {Entry(t)}]
  /\ recorded' = [recorded EXCEPT ![Of(t)] = @ \union {[Entry(t) EXCEPT !.lock = NoLock]}]
  /\ held' = [held EXCEPT ![t] = @ \union {goal[t]}]
  /\ Run(t)
  /\ UNCHANGED <<owner, crashes>>

\* _record_acquired looks at the process once more; a refusal unlocks the file.
RecordAcquired(t) ==
  /\ pc[t] = "record" /\ UNCHANGED crashes
  /\ IF ProcessAllows(t, goal[t]) /\ Entry(t) \in pending[Of(t)]
     THEN /\ pending' = [pending EXCEPT ![Of(t)] = @ \ {Entry(t)}]
          /\ recorded' = [recorded EXCEPT ![Of(t)] = @ \union {Entry(t)}]
          /\ held' = [held EXCEPT ![t] = @ \union {goal[t]}]
          /\ Run(t) /\ UNCHANGED owner
     ELSE /\ owner' = [owner EXCEPT ![goal[t]] = "none"]
          /\ pc' = [pc EXCEPT ![t] = "unreserve"]
          /\ UNCHANGED <<held, pending, recorded, goal>>

\* The deadline passes, or the file is refused: unlock, then unreserve.
AcquireFails(t) ==
  /\ pc[t] \in {"try", "record"}
  /\ owner' = [l \in Locks |->
       IF pc[t] = "record" /\ l = goal[t] THEN "none" ELSE owner[l]]
  /\ pc' = [pc EXCEPT ![t] = "unreserve"]
  /\ UNCHANGED <<held, pending, recorded, goal, crashes>>

\* Fault: a failed acquisition leaves its reservation behind.
LeaveReserved(t) ==
  /\ pc[t] = "unreserve"
  /\ Run(t)
  /\ UNCHANGED <<owner, held, pending, recorded, crashes>>

\* _record_acquire_failed.
Unreserve(t) ==
  /\ pc[t] = "unreserve"
  /\ pending' = [pending EXCEPT ![Of(t)] = @ \ {Entry(t)}]
  /\ Run(t)
  /\ UNCHANGED <<owner, held, recorded, crashes>>

\* The lock a thread may release: the last it took.
Innermost(t, l) ==
  /\ l \in held[t]
  /\ l.class = "project" => held[t] \subseteq ProjectLocks
                            /\ \A m \in held[t] : m.id <= l.id

\* __exit__ unlocks the file before it clears the process record.
Release(t, l) ==
  /\ pc[t] = "run" /\ Innermost(t, l)
  /\ owner' = [owner EXCEPT ![l] = "none"]
  /\ goal' = [goal EXCEPT ![t] = l]
  /\ pc' = [pc EXCEPT ![t] = "released"]
  /\ UNCHANGED <<held, pending, recorded, crashes>>

RecordReleased(t) ==
  /\ pc[t] = "released"
  /\ recorded' = [recorded EXCEPT ![Of(t)] = @ \ {Entry(t)}]
  /\ held' = [held EXCEPT ![t] = @ \ {goal[t]}]
  /\ Run(t)
  /\ UNCHANGED <<owner, pending, crashes>>

\* A process dies: the system unlocks its files, and a new one may start.
Crash(p) ==
  /\ crashes < MaxCrashes /\ crashes' = crashes + 1
  /\ \E t \in Threads : Of(t) = p /\ (pc[t] # "run" \/ held[t] # {})
  /\ owner' = [l \in Locks |->
       IF owner[l] # "none" /\ Of(owner[l]) = p THEN "none" ELSE owner[l]]
  /\ held' = [t \in Threads |-> IF Of(t) = p THEN {} ELSE held[t]]
  /\ pending' = [pending EXCEPT ![p] = {}]
  /\ recorded' = [recorded EXCEPT ![p] = {}]
  /\ goal' = [t \in Threads |-> IF Of(t) = p THEN NoLock ELSE goal[t]]
  /\ pc' = [t \in Threads |-> IF Of(t) = p THEN "run" ELSE pc[t]]

-----------------------------------------------------------------------------
Init ==
  /\ owner = [l \in Locks |-> "none"]
  /\ held = [t \in Threads |-> {}]
  /\ pending = [p \in Procs |-> {}] /\ recorded = [p \in Procs |-> {}]
  /\ goal = [t \in Threads |-> NoLock] /\ pc = [t \in Threads |-> "run"]
  /\ crashes = 0

Next ==
  \/ \E t \in Threads :
       \/ \E l \in Locks : Reserve(t, l) \/ Release(t, l)
       \/ TryLock(t) \/ RecordAcquired(t) \/ AcquireFails(t) \/ Unreserve(t)
       \/ RecordReleased(t)
  \/ \E p \in Procs : Crash(p)

Spec == Init /\ [][Next]_vars
-----------------------------------------------------------------------------
Entries == [thread : Threads, lock : Locks]

TypeOK ==
  /\ owner \in [Locks -> Threads \union {"none"}]
  /\ held \in [Threads -> SUBSET Locks]
  /\ pending \in [Procs -> SUBSET Entries]
  /\ recorded \in [Procs -> SUBSET Entries]
  /\ goal \in [Threads -> Locks \union {NoLock}]
  /\ pc \in [Threads -> {"run", "try", "record", "unreserve", "released"}]
  /\ crashes \in Nat

\* While one thread of a process waits for or holds the manager home, no thread
\* of it holds a build lock or waits for a project or build lock, whichever two
\* of them checked the order at the same time (_ManagerHomeProcessState).
HomeExcludesOuter ==
  \A p \in Procs :
    "home" \in Classes(pending, p) \union Classes(recorded, p) =>
      /\ Classes(pending, p) \subseteq {"home"}
      /\ "build" \notin Classes(recorded, p)

\* The reservation already decides: a thread that has the file locked is never
\* turned away by the second look at the process, so locking a file that other
\* processes wait for is never in vain.
ReservationHolds ==
  \A t \in Threads : pc[t] = "record" => ProcessAllows(t, goal[t]) /\ Entry(t) \in pending[Of(t)]

\* Reservations match the threads: each pending or held entry belongs to a thread
\* that is acquiring or holding that lock, so none outlives a failure, a release
\* or a refused re-entry and shuts its class out of the process for good.
Accounted ==
  \A p \in Procs :
    /\ pending[p] = {Entry(t) : t \in {u \in Threads :
                       Of(u) = p /\ pc[u] \in {"try", "record", "unreserve"}}}
    /\ recorded[p] = {e \in Entries : Of(e.thread) = p /\ e.lock \in held[e.thread]}

Waits(t, u) == pc[t] = "try" /\ owner[goal[t]] = u

\* No set of threads, of any processes, waits in a circle until its timeouts.
NoWaitCycle ==
  \A S \in (SUBSET Threads) \ {{}} : \E t \in S : \A u \in S : ~Waits(t, u)
=============================================================================
