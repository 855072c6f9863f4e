--------------------------- MODULE LockOrderProofs ---------------------------
(***************************************************************************)
(* The order of csk's locks, for every set of threads, processes, cache     *)
(* keys and any number of projects.                                         *)
(***************************************************************************)
EXTENDS LockOrder, WellFoundedInduction, TLAPS

\* The place of a lock in the one order every thread follows.
Place(l) ==
  IF l.class = "project" THEN l.id
  ELSE IF l.class = "build" THEN LastProject + 1 ELSE LastProject + 2

\* A thread that acquires or releases a lock names it.
Named ==
  \A t \in Threads :
    /\ pc[t] # "run" => goal[t] \in Locks
    /\ pc[t] = "released" => goal[t] \in held[t] /\ owner[goal[t]] # t

\* A lock file is locked by a thread that holds it or is about to record it.
Owned ==
  \A t \in Threads, l \in Locks :
    owner[l] = t => l \in held[t] \/ (pc[t] = "record" /\ goal[t] = l)

\* A thread only waits for what comes after all it holds.
Ascending ==
  \A t \in Threads : pc[t] \in {"try", "record"} =>
    \A l \in held[t] : Place(l) < Place(goal[t])

\* A process has booked what its threads acquire and hold, and nothing else.
Booking(p, t, l) ==
  /\ [thread |-> t, lock |-> l] \in pending[p] <=>
       Of(t) = p /\ pc[t] \in {"try", "record", "unreserve"} /\ goal[t] = l
  /\ [thread |-> t, lock |-> l] \in recorded[p] <=> Of(t) = p /\ l \in held[t]

Booked == \A p \in Procs, t \in Threads, l \in Locks : Booking(p, t, l)

Orders == Owned /\ Ascending
Books  == Booked /\ HomeExcludesOuter
Inv    == TypeOK /\ Named /\ Books /\ Orders

-----------------------------------------------------------------------------
\* Each lock is of one class, and its place is a natural number.
LEMMA LockFacts ==
  /\ \A l \in Locks : Place(l) \in Nat /\ Place(l) <= LastProject + 2
                      /\ l.class \in {"project", "build", "home"}
  /\ \A l \in Locks : l.class = "project" => l \in ProjectLocks /\ l.id \in Nat
  /\ \A l \in Locks : l.class = "build" <=> l \in BuildLocks
  /\ \A l \in Locks : l.class = "home" <=> l = Home
  /\ Home.class = "home" /\ Home \in Locks /\ NoLock \notin Locks
<1>1. \A l \in ProjectLocks : l.class = "project" /\ l.id \in Nat /\ l.id <= LastProject
  BY LastProjectAssumption DEF ProjectLocks, Projects, Project
<1>2. \A l \in BuildLocks : l.class = "build"
  BY DEF BuildLocks, Build
<1>3. Home.class = "home" /\ NoLock.class = "none"
  BY DEF Home, NoLock
<1>4. Locks = ProjectLocks \union BuildLocks \union {Home}
  BY DEF Locks
<1>5. \A l \in Locks : Place(l) \in Nat /\ Place(l) <= LastProject + 2
  BY <1>1, <1>2, <1>3, <1>4, LastProjectAssumption DEF Place
<1> QED
  BY <1>1, <1>2, <1>3, <1>4, <1>5

\* What the order checks allow comes after everything the thread holds.
LEMMA AllowedAscends ==
  ASSUME held \in [Threads -> SUBSET Locks], NEW t \in Threads, NEW l \in Locks,
         ThreadAllows(t, l)
  PROVE  \A m \in held[t] : Place(m) < Place(l)
<1> SUFFICES ASSUME NEW m \in held[t] PROVE Place(m) < Place(l)
  OBVIOUS
<1>1. m \in Locks /\ m # Home /\ m \notin BuildLocks
  BY DEF ThreadAllows
<1>2. m.class = "project" /\ m \in ProjectLocks /\ m.id \in Projects
  BY <1>1, LockFacts DEF ProjectLocks, Project
<1>3. CASE l.class = "project"
  BY <1>2, <1>3 DEF ThreadAllows, Place
<1>4. CASE l.class # "project"
  BY <1>2, <1>4, LastProjectAssumption DEF Place, Projects
<1> QED
  BY <1>3, <1>4

LEMMA InitInv == Init => Inv
<1> SUFFICES ASSUME Init PROVE Inv
  OBVIOUS
<1>1. TypeOK
  BY DEF Init, TypeOK
<1>2. Named /\ Orders
  BY ThreadsAssumption DEF Init, Named, Orders, Owned, Ascending
<1>3. Booked
  BY DEF Init, Booked, Booking
<1>4. HomeExcludesOuter
  BY DEF Init, HomeExcludesOuter, Classes
<1> QED
  BY <1>1, <1>2, <1>3, <1>4 DEF Inv, Books

\* A reservation is booked, and only one the order allows.
LEMMA ReserveInv ==
  ASSUME Inv, NEW t \in Threads, NEW l \in Locks, Reserve(t, l)
  PROVE  Inv'
<1>1. Of(t) \in Procs /\ [thread |-> t, lock |-> l] \in Entries
  BY ProcOfAssumption DEF Of, Entries
<1>2. TypeOK'
  BY <1>1
  DEF Inv, TypeOK, Reserve
<1>3. Named'
  BY <1>1, ThreadsAssumption
  DEF Inv, TypeOK, Named, Reserve
<1>4. Owned'
  BY <1>1, ThreadsAssumption
  DEF Inv, TypeOK, Named, Orders, Owned, Reserve
<1>5. Ascending'
  BY <1>1, AllowedAscends
  DEF Inv, TypeOK, Orders, Ascending, Reserve
<1>6. Booked'
  <2> SUFFICES ASSUME NEW q \in Procs, NEW u \in Threads, NEW m \in Locks
               PROVE  Booking(q, u, m)'
    BY DEF Booked
  <2>1. Booking(q, u, m)
    BY DEF Inv, Books, Booked
  <2>2. [thread |-> u, lock |-> m] = [thread |-> t, lock |-> l] <=> u = t /\ m = l
    BY DEF Entry
  <2> QED
    BY <1>1, <2>1, <2>2 DEF Inv, TypeOK, Booking, Of, Reserve
<1>7. HomeExcludesOuter'
  <2> SUFFICES ASSUME NEW q \in Procs
               PROVE  ("home" \in Classes(pending, q) \union Classes(recorded, q) =>
                         /\ Classes(pending, q) \subseteq {"home"}
                         /\ "build" \notin Classes(recorded, q))'
    BY DEF HomeExcludesOuter
  <2>1. Classes(recorded, q)' = Classes(recorded, q)
    BY DEF Classes, Reserve
  <2>2. Classes(pending, q)' =
          Classes(pending, q) \union (IF q = Of(t) THEN {l.class} ELSE {})
    <3>1. PICK e : e = [thread |-> t, lock |-> l]
      OBVIOUS
    <3>2. pending'[q] = pending[q] \union (IF q = Of(t) THEN {e} ELSE {})
      BY <3>1 DEF Inv, TypeOK, Reserve
    <3>3. Classes(pending, q)' = {a.lock.class : a \in pending'[q]}
      BY DEF Classes
    <3>4. e.lock = l
      BY <3>1
    <3> QED
      BY <3>2, <3>3, <3>4 DEF Classes
  <2>3. Classes(pending, q) \subseteq {"project", "build", "home"}
    BY LockFacts DEF Inv, TypeOK, Classes, Entries
  <2> QED
    BY <2>1, <2>2, <2>3, LockFacts DEF Inv, Books, HomeExcludesOuter, ProcessAllows, Reserve
<1> QED
  BY <1>2, <1>3, <1>4, <1>5, <1>6, <1>7 DEF Inv, Books, Orders

\* The file is locked by the thread that waited for it.
LEMMA TryLockInv ==
  ASSUME Inv, NEW t \in Threads, TryLock(t)
  PROVE  Inv'
<1>1. goal[t] \in Locks /\ Of(t) \in Procs /\ Entry(t) \in Entries
  BY ProcOfAssumption DEF Inv, Named, Of, Entry, Entries, TryLock
<1>2. TypeOK'
  BY <1>1
  DEF Inv, TypeOK, TryLock
<1>3. Named'
  BY <1>1, ThreadsAssumption
  DEF Inv, TypeOK, Named, TryLock
<1>4. Owned'
  BY <1>1, ThreadsAssumption
  DEF Inv, TypeOK, Named, Orders, Owned, TryLock
<1>5. Ascending'
  BY <1>1
  DEF Inv, TypeOK, Orders, Ascending, TryLock
<1>6. Booked'
  <2> SUFFICES ASSUME NEW q \in Procs, NEW u \in Threads, NEW m \in Locks
               PROVE  Booking(q, u, m)'
    BY DEF Booked
  <2>1. Booking(q, u, m)
    BY DEF Inv, Books, Booked
  <2> QED
    BY <1>1, <2>1 DEF Inv, TypeOK, Booking, Of, TryLock
<1>7. HomeExcludesOuter'
  BY <1>1, LockFacts
  DEF Inv, TypeOK, Books, HomeExcludesOuter, Classes, Entry, TryLock
<1> QED
  BY <1>2, <1>3, <1>4, <1>5, <1>6, <1>7 DEF Inv, Books, Orders

\* An entry moves from pending to held, or the file is unlocked again.
LEMMA RecordAcquiredInv ==
  ASSUME Inv, NEW t \in Threads, RecordAcquired(t)
  PROVE  Inv'
<1>1. goal[t] \in Locks /\ Of(t) \in Procs /\ Entry(t) \in Entries
  BY ProcOfAssumption DEF Inv, Named, Of, Entry, Entries, RecordAcquired
<1>2. TypeOK'
  BY <1>1
  DEF Inv, TypeOK, RecordAcquired, Run
<1>3. Named'
  BY <1>1, ThreadsAssumption
  DEF Inv, TypeOK, Named, RecordAcquired, Run
<1>4. Owned'
  BY <1>1, ThreadsAssumption
  DEF Inv, TypeOK, Named, Orders, Owned, RecordAcquired, Run
<1>5. Ascending'
  BY <1>1
  DEF Inv, TypeOK, Orders, Ascending, RecordAcquired, Run
<1>6. Booked'
  <2> SUFFICES ASSUME NEW q \in Procs, NEW u \in Threads, NEW m \in Locks
               PROVE  Booking(q, u, m)'
    BY DEF Booked
  <2>1. Booking(q, u, m)
    BY DEF Inv, Books, Booked
  <2>2. [thread |-> u, lock |-> m] = Entry(t) <=> u = t /\ m = goal[t]
    BY DEF Entry
  <2> QED
    BY <1>1, <2>1, <2>2 DEF Inv, TypeOK, Booking, Of, RecordAcquired, Run
<1>7. HomeExcludesOuter'
  <2> SUFFICES ASSUME NEW q \in Procs
               PROVE  ("home" \in Classes(pending, q) \union Classes(recorded, q) =>
                         /\ Classes(pending, q) \subseteq {"home"}
                         /\ "build" \notin Classes(recorded, q))'
    BY DEF HomeExcludesOuter
  <2>1. CASE UNCHANGED <<pending, recorded>>
    BY <2>1 DEF Inv, Books, HomeExcludesOuter, Classes
  <2>2. CASE ~UNCHANGED <<pending, recorded>>
    <3>1. ProcessAllows(t, goal[t]) /\ Entry(t) \in pending[Of(t)]
      BY <2>2 DEF RecordAcquired
    <3>2. /\ pending' = [pending EXCEPT ![Of(t)] = @ \ {Entry(t)}]
          /\ recorded' = [recorded EXCEPT ![Of(t)] = @ \union {Entry(t)}]
      BY <2>2 DEF RecordAcquired
    <3>3. Classes(pending, q)' \subseteq Classes(pending, q)
      BY <3>2 DEF Inv, TypeOK, Classes
    <3>4. Classes(recorded, q)' =
            Classes(recorded, q) \union (IF q = Of(t) THEN {goal[t].class} ELSE {})
      <4>1. recorded'[q] =
              recorded[q] \union (IF q = Of(t) THEN {Entry(t)} ELSE {})
        BY <3>2 DEF Inv, TypeOK
      <4>2. Classes(recorded, q)' = {a.lock.class : a \in recorded'[q]}
        BY DEF Classes
      <4>3. Entry(t).lock = goal[t]
        BY DEF Entry
      <4> QED
        BY <4>1, <4>2, <4>3 DEF Classes
    <3>5. goal[t].class \in Classes(pending, Of(t))
      BY <3>1 DEF Classes, Entry
    <3> QED
      BY <3>1, <3>3, <3>4, <3>5 DEF Inv, Books, HomeExcludesOuter, ProcessAllows
  <2> QED
    BY <2>1, <2>2
<1> QED
  BY <1>2, <1>3, <1>4, <1>5, <1>6, <1>7 DEF Inv, Books, Orders

\* A failed acquisition keeps its reservation and no file.
LEMMA AcquireFailsInv ==
  ASSUME Inv, NEW t \in Threads, AcquireFails(t)
  PROVE  Inv'
<1>1. goal[t] \in Locks /\ Of(t) \in Procs /\ Entry(t) \in Entries
  BY ProcOfAssumption DEF Inv, Named, Of, Entry, Entries, AcquireFails
<1>2. TypeOK'
  BY <1>1
  DEF Inv, TypeOK, AcquireFails
<1>3. Named'
  BY <1>1, ThreadsAssumption
  DEF Inv, TypeOK, Named, AcquireFails
<1>4. Owned'
  BY <1>1, ThreadsAssumption
  DEF Inv, TypeOK, Named, Orders, Owned, AcquireFails
<1>5. Ascending'
  BY <1>1
  DEF Inv, TypeOK, Orders, Ascending, AcquireFails
<1>6. Booked'
  <2> SUFFICES ASSUME NEW q \in Procs, NEW u \in Threads, NEW m \in Locks
               PROVE  Booking(q, u, m)'
    BY DEF Booked
  <2>1. Booking(q, u, m)
    BY DEF Inv, Books, Booked
  <2> QED
    BY <1>1, <2>1 DEF Inv, TypeOK, Booking, Of, AcquireFails
<1>7. HomeExcludesOuter'
  BY <1>1, LockFacts
  DEF Inv, TypeOK, Books, HomeExcludesOuter, Classes, Entry, AcquireFails
<1> QED
  BY <1>2, <1>3, <1>4, <1>5, <1>6, <1>7 DEF Inv, Books, Orders

\* The reservation goes with the failed acquisition.
LEMMA UnreserveInv ==
  ASSUME Inv, NEW t \in Threads, Unreserve(t)
  PROVE  Inv'
<1>1. goal[t] \in Locks /\ Of(t) \in Procs /\ Entry(t) \in Entries
  BY ProcOfAssumption DEF Inv, Named, Of, Entry, Entries, Unreserve
<1>2. TypeOK'
  BY <1>1
  DEF Inv, TypeOK, Unreserve, Run
<1>3. Named'
  BY <1>1, ThreadsAssumption
  DEF Inv, TypeOK, Named, Unreserve, Run
<1>4. Owned'
  BY <1>1, ThreadsAssumption
  DEF Inv, TypeOK, Named, Orders, Owned, Unreserve, Run
<1>5. Ascending'
  BY <1>1
  DEF Inv, TypeOK, Orders, Ascending, Unreserve, Run
<1>6. Booked'
  <2> SUFFICES ASSUME NEW q \in Procs, NEW u \in Threads, NEW m \in Locks
               PROVE  Booking(q, u, m)'
    BY DEF Booked
  <2>1. Booking(q, u, m)
    BY DEF Inv, Books, Booked
  <2>2. [thread |-> u, lock |-> m] = Entry(t) <=> u = t /\ m = goal[t]
    BY DEF Entry
  <2> QED
    BY <1>1, <2>1, <2>2 DEF Inv, TypeOK, Booking, Of, Unreserve, Run
<1>7. HomeExcludesOuter'
  BY <1>1, LockFacts
  DEF Inv, TypeOK, Books, HomeExcludesOuter, Classes, Entry, Unreserve, Run
<1> QED
  BY <1>2, <1>3, <1>4, <1>5, <1>6, <1>7 DEF Inv, Books, Orders

\* The file is unlocked first; the books do not change.
LEMMA ReleaseInv ==
  ASSUME Inv, NEW t \in Threads, NEW l \in Locks, Release(t, l)
  PROVE  Inv'
<1>1. Of(t) \in Procs
  BY ProcOfAssumption DEF Of
<1>2. TypeOK'
  BY <1>1
  DEF Inv, TypeOK, Release, Innermost
<1>3. Named'
  BY <1>1, ThreadsAssumption
  DEF Inv, TypeOK, Named, Release, Innermost
<1>4. Owned'
  BY <1>1, ThreadsAssumption
  DEF Inv, TypeOK, Named, Orders, Owned, Release, Innermost
<1>5. Ascending'
  BY <1>1
  DEF Inv, TypeOK, Orders, Ascending, Release, Innermost
<1>6. Booked'
  <2> SUFFICES ASSUME NEW q \in Procs, NEW u \in Threads, NEW m \in Locks
               PROVE  Booking(q, u, m)'
    BY DEF Booked
  <2>1. Booking(q, u, m)
    BY DEF Inv, Books, Booked
  <2> QED
    BY <1>1, <2>1 DEF Inv, TypeOK, Booking, Of, Release
<1>7. HomeExcludesOuter'
  BY <1>1, LockFacts
  DEF Inv, TypeOK, Books, HomeExcludesOuter, Classes, Entry, Release, Innermost
<1> QED
  BY <1>2, <1>3, <1>4, <1>5, <1>6, <1>7 DEF Inv, Books, Orders

\* Then the entry and the held lock go together.
LEMMA RecordReleasedInv ==
  ASSUME Inv, NEW t \in Threads, RecordReleased(t)
  PROVE  Inv'
<1>1. goal[t] \in Locks /\ Of(t) \in Procs /\ Entry(t) \in Entries
  BY ProcOfAssumption DEF Inv, Named, Of, Entry, Entries, RecordReleased
<1>2. TypeOK'
  BY <1>1
  DEF Inv, TypeOK, RecordReleased, Run
<1>3. Named'
  BY <1>1, ThreadsAssumption
  DEF Inv, TypeOK, Named, RecordReleased, Run
<1>4. Owned'
  BY <1>1, ThreadsAssumption
  DEF Inv, TypeOK, Named, Orders, Owned, RecordReleased, Run
<1>5. Ascending'
  BY <1>1
  DEF Inv, TypeOK, Orders, Ascending, RecordReleased, Run
<1>6. Booked'
  <2> SUFFICES ASSUME NEW q \in Procs, NEW u \in Threads, NEW m \in Locks
               PROVE  Booking(q, u, m)'
    BY DEF Booked
  <2>1. Booking(q, u, m)
    BY DEF Inv, Books, Booked
  <2>2. [thread |-> u, lock |-> m] = Entry(t) <=> u = t /\ m = goal[t]
    BY DEF Entry
  <2> QED
    BY <1>1, <2>1, <2>2 DEF Inv, TypeOK, Booking, Of, RecordReleased, Run
<1>7. HomeExcludesOuter'
  BY <1>1, LockFacts
  DEF Inv, TypeOK, Books, HomeExcludesOuter, Classes, Entry, RecordReleased, Run
<1> QED
  BY <1>2, <1>3, <1>4, <1>5, <1>6, <1>7 DEF Inv, Books, Orders

\* A dead process holds nothing and has nothing booked.
LEMMA CrashInv ==
  ASSUME Inv, NEW p \in Procs, Crash(p)
  PROVE  Inv'
<1>1. NoLock \notin Locks
  BY LockFacts
<1>2. TypeOK'
  BY <1>1
  DEF Inv, TypeOK, Crash
<1>3. Named'
  BY <1>1, ThreadsAssumption
  DEF Inv, TypeOK, Named, Crash
<1>4. Owned'
  BY <1>1, ThreadsAssumption
  DEF Inv, TypeOK, Named, Orders, Owned, Crash
<1>5. Ascending'
  BY <1>1
  DEF Inv, TypeOK, Orders, Ascending, Crash
<1>6. Booked'
  <2> SUFFICES ASSUME NEW q \in Procs, NEW u \in Threads, NEW m \in Locks
               PROVE  Booking(q, u, m)'
    BY DEF Booked
  <2>1. Booking(q, u, m)
    BY DEF Inv, Books, Booked
  <2> QED
    BY <1>1, <2>1 DEF Inv, TypeOK, Booking, Of, Crash
<1>7. HomeExcludesOuter'
  BY <1>1, LockFacts
  DEF Inv, TypeOK, Books, HomeExcludesOuter, Classes, Entry, Crash
<1> QED
  BY <1>2, <1>3, <1>4, <1>5, <1>6, <1>7 DEF Inv, Books, Orders

LEMMA NextInv == Inv /\ [Next]_vars => Inv'
<1> SUFFICES ASSUME Inv, [Next]_vars PROVE Inv'
  OBVIOUS
<1>1. ASSUME NEW t \in Threads, NEW l \in Locks, Reserve(t, l) PROVE Inv'
  BY <1>1, ReserveInv
<1>2. ASSUME NEW t \in Threads, NEW l \in Locks, Release(t, l) PROVE Inv'
  BY <1>2, ReleaseInv
<1>3. ASSUME NEW t \in Threads, TryLock(t) PROVE Inv'
  BY <1>3, TryLockInv
<1>4. ASSUME NEW t \in Threads, RecordAcquired(t) PROVE Inv'
  BY <1>4, RecordAcquiredInv
<1>5. ASSUME NEW t \in Threads, AcquireFails(t) PROVE Inv'
  BY <1>5, AcquireFailsInv
<1>6. ASSUME NEW t \in Threads, Unreserve(t) PROVE Inv'
  BY <1>6, UnreserveInv
<1>7. ASSUME NEW t \in Threads, RecordReleased(t) PROVE Inv'
  BY <1>7, RecordReleasedInv
<1>8. ASSUME NEW p \in Procs, Crash(p) PROVE Inv'
  BY <1>8, CrashInv
<1>9. CASE UNCHANGED vars
  <2>1. TypeOK' /\ Named'
    BY <1>9 DEF vars, Inv, TypeOK, Named
  <2>2. Booked'
    BY <1>9 DEF vars, Inv, Books, Booked, Booking
  <2>3. HomeExcludesOuter'
    BY <1>9 DEF vars, Inv, Books, HomeExcludesOuter, Classes
  <2>4. Owned' /\ Ascending'
    BY <1>9 DEF vars, Inv, Orders, Owned, Ascending
  <2> QED
    BY <2>1, <2>2, <2>3, <2>4 DEF Inv, Books, Orders
<1> QED
  BY <1>1, <1>2, <1>3, <1>4, <1>5, <1>6, <1>7, <1>8, <1>9 DEF Next

LEMMA SpecInv == Spec => []Inv
  BY InitInv, NextInv, PTL DEF Spec

-----------------------------------------------------------------------------
\* Every variable keeps its type.
THEOREM TypeOKTheorem == Spec => []TypeOK
<1>1. Inv => TypeOK
  BY DEF Inv
<1> QED
  BY <1>1, SpecInv, PTL

\* While a thread of a process waits for or holds the manager home, no thread of
\* it holds a build lock or waits for an outer lock, however many threads of the
\* process checked the order at once (_check_order_before_acquire).
THEOREM HomeExcludesOuterTheorem == Spec => []HomeExcludesOuter
<1>1. Inv => HomeExcludesOuter
  BY DEF Inv, Books
<1> QED
  BY <1>1, SpecInv, PTL

\* The reservation decides: _record_acquired never turns away a thread that has
\* the file locked.
THEOREM ReservationHoldsTheorem == Spec => []ReservationHolds
<1>1. Inv => ReservationHolds
  <2> SUFFICES ASSUME Inv, NEW t \in Threads, pc[t] = "record"
               PROVE  ProcessAllows(t, goal[t]) /\ Entry(t) \in pending[Of(t)]
    BY DEF ReservationHolds
  <2>1. goal[t] \in Locks /\ Of(t) \in Procs
    BY ProcOfAssumption DEF Inv, Named, Of
  <2>2. Entry(t) \in pending[Of(t)]
    BY <2>1 DEF Inv, Books, Booked, Booking, Entry
  <2>3. goal[t].class \in Classes(pending, Of(t))
    BY <2>2 DEF Classes, Entry
  <2>4. goal[t].class \in {"project", "build", "home"}
    BY <2>1, LockFacts
  <2>5. HomeExcludesOuter
    BY DEF Inv, Books
  <2>6. ProcessAllows(t, goal[t])
    BY <2>1, <2>3, <2>4, <2>5 DEF ProcessAllows, HomeExcludesOuter
  <2> QED
    BY <2>2, <2>6
<1> QED
  BY <1>1, SpecInv, PTL

\* The books of a process are exactly what its threads acquire and hold: no
\* failure, release or refusal leaves a reservation behind.
THEOREM AccountedTheorem == Spec => []Accounted
<1>1. Inv => Accounted
  <2> SUFFICES ASSUME Inv, NEW p \in Procs
               PROVE /\ pending[p] = {Entry(t) : t \in {u \in Threads :
                                     Of(u) = p /\ pc[u] \in {"try", "record", "unreserve"}}}
                     /\ recorded[p] = {e \in Entries :
                                     Of(e.thread) = p /\ e.lock \in held[e.thread]}
    BY DEF Accounted
  <2>1. \A e \in Entries : /\ e = [thread |-> e.thread, lock |-> e.lock]
                           /\ e.thread \in Threads /\ e.lock \in Locks
    BY DEF Entries
  <2>2. pending[p] \subseteq Entries /\ recorded[p] \subseteq Entries
    BY DEF Inv, TypeOK
  <2>3. \A t \in Threads, l \in Locks : Booking(p, t, l)
    BY DEF Inv, Books, Booked
  <2>4. \A t \in Threads : pc[t] # "run" => goal[t] \in Locks
    BY DEF Inv, Named
  <2>5. \A e \in pending[p] : /\ e.thread \in Threads /\ Of(e.thread) = p
                              /\ pc[e.thread] \in {"try", "record", "unreserve"}
                              /\ e = Entry(e.thread)
    BY <2>1, <2>2, <2>3 DEF Booking, Entry
  <2>6. \A t \in Threads : Of(t) = p /\ pc[t] \in {"try", "record", "unreserve"}
                            => Entry(t) \in pending[p]
    BY <2>3, <2>4 DEF Booking, Entry
  <2>7. \A e \in Entries : e \in recorded[p] <=>
                            Of(e.thread) = p /\ e.lock \in held[e.thread]
    BY <2>1, <2>3 DEF Booking
  <2> QED
    BY <2>2, <2>5, <2>6, <2>7
<1> QED
  BY <1>1, SpecInv, PTL

\* A thread that is waited for and waits itself waits for a later lock.
LEMMA WaitAscends ==
  ASSUME Inv, NEW t \in Threads, NEW u \in Threads, Waits(t, u), pc[u] = "try"
  PROVE  Place(goal[t]) < Place(goal[u])
<1>1. goal[t] \in Locks
  BY DEF Inv, Named, Waits
<1>2. goal[t] \in held[u]
  BY <1>1 DEF Inv, Orders, Owned, Waits
<1> QED
  BY <1>2 DEF Inv, Orders, Ascending

\* No set of threads, of any number of processes, waits in a circle.
THEOREM NoWaitCycleTheorem == Spec => []NoWaitCycle
<1>1. Inv => NoWaitCycle
  <2> SUFFICES ASSUME Inv, NEW S \in SUBSET Threads, S # {},
                      \A t \in S : \E u \in S : Waits(t, u)
               PROVE  FALSE
    BY DEF NoWaitCycle
  <2> DEFINE Left(t) == LastProject + 2 - Place(goal[t])
             Lefts   == {Left(t) : t \in S}
  <2>1. \A t \in S : pc[t] = "try" /\ goal[t] \in Locks
    BY DEF Waits, Inv, Named
  <2>2. Lefts \subseteq Nat /\ Lefts # {}
    BY <2>1, LockFacts, LastProjectAssumption
  <2>3. PICK n \in Lefts : \A m \in Lefts : ~(m < n)
    <3>1. \A m, n \in Nat : <<m, n>> \in OpToRel(<, Nat) <=> m < n
      BY DEF OpToRel
    <3>2. PICK n \in Lefts : \A m \in Lefts : <<m, n>> \notin OpToRel(<, Nat)
      BY <2>2, NatLessThanWellFounded, WFMin
    <3> QED
      BY <2>2, <3>1, <3>2
  <2>4. PICK t \in S : n = Left(t)
    OBVIOUS
  <2>5. PICK u \in S : Waits(t, u)
    OBVIOUS
  <2>6. Place(goal[t]) < Place(goal[u])
    BY <2>1, <2>5, WaitAscends
  <2>7. Place(goal[t]) \in Nat /\ Place(goal[u]) \in Nat
    BY <2>1, LockFacts
  <2>8. Left(u) \in Lefts /\ Left(u) < Left(t)
    BY <2>6, <2>7, LastProjectAssumption
  <2> QED
    BY <2>3, <2>4, <2>8
<1> QED
  BY <1>1, SpecInv, PTL
=============================================================================
