-------------------------- MODULE StableLockProofs --------------------------
(***************************************************************************)
(* Theorems about StableLock for any processes, any number of legacy       *)
(* breakers and of files they rename, and any number of crashes.           *)
(***************************************************************************)
EXTENDS StableLock, TLAPS

\* The steps of a process that has the file it opened locked, and those after
\* it has written its record.
Locking == Checks \union {"held"}
Written == {"match2", "clear2", "readback", "match3", "clear3", "held"}

\* The lock path names the file, or a breaker can still put it back.
Linked(f) == path = f \/ \E b \in Breakers : aside[b] = f

\* The file carries the record of a process, or one is about to write it.
Signed(f) ==
  \/ record[f] \in Procs
  \/ \E p \in Procs : pc[p] \in {"claim", "write"} /\ fd[p] = f

\* Files are numbered as they are made; one that is not made is nowhere.
Fresh ==
  \A f \in Files : f > made =>
    /\ record[f] = "empty" /\ path # f
    /\ \A p \in Procs : fd[p] # f
    /\ \A b \in Breakers : aside[b] # f

\* What a process knows of the file it has open.
FileHeld ==
  \A p \in Procs :
    /\ pc[p] \in Locking \union {"try"} => fd[p] \in Files
    /\ pc[p] \in Locking => flock[fd[p]] = p
    /\ pc[p] = "write" => record[fd[p]] = "empty"
    /\ pc[p] \in Written => record[fd[p]] = p

\* A breaker moves one file in its life.
OneMove ==
  \A b \in Breakers :
    /\ bpc[b] \in {"watching", "ready"} => aside[b] = 0
    /\ bpc[b] = "moved" => aside[b] # 0

\* Of the files that are named or can be put back, at most one is signed.
OneSigned ==
  \A f, g \in Files :
    Linked(f) /\ Linked(g) /\ Signed(f) /\ Signed(g) => f = g

\* An owner's file is never lost: no breaker puts another one over it.
OwnerLinked ==
  \A p \in Procs : pc[p] \in {"clear3", "held"} => Linked(fd[p])

LockInvariant ==
  TypeOK /\ Fresh /\ FileHeld /\ OneMove /\ OneSigned /\ OwnerLinked

LEMMA StepNames ==
  /\ Steps = {"match1", "clear1", "claim", "write", "match2", "clear2",
              "readback", "match3", "clear3", "idle", "open", "try", "held"}
  /\ Locking = Steps \ {"idle", "open", "try"}
  /\ \A s \in Checks : Then[s] \in Locking
  /\ Then["match1"] = "clear1" /\ Then["clear1"] = "claim"
  /\ Then["claim"] = "write" /\ Then["write"] = "match2"
  /\ Then["match2"] = "clear2" /\ Then["clear2"] = "readback"
  /\ Then["readback"] = "match3" /\ Then["match3"] = "clear3"
  /\ Then["clear3"] = "held"
BY DEF Steps, Checks, Locking, Then

LEMMA FileNumbers ==
  /\ 0 \notin Files /\ Files \subseteq Nat
  /\ \A n \in {0} \union Files : n < MaxFiles => n + 1 \in Files
BY MaxFilesAssumption DEF Files

LEMMA InitLock == Init => LockInvariant
<1> SUFFICES ASSUME Init PROVE LockInvariant
  OBVIOUS
<1> USE DEF Init
<1>1. path \in {0} \union Files
  BY MaxFilesAssumption DEF Files
<1>2. TypeOK
  BY <1>1 DEF TypeOK, Steps
<1>3. Fresh
  BY FileNumbers DEF Fresh, Files
<1>4. FileHeld /\ OneMove /\ OwnerLinked
  BY StepNames DEF FileHeld, OneMove, OwnerLinked, Written
<1>5. \A f \in Files : ~Signed(f)
  BY ProcsAssumption DEF Signed
<1> QED
  BY <1>2, <1>3, <1>4, <1>5 DEF LockInvariant, OneSigned

-----------------------------------------------------------------------------
\* What leaving an attempt does to a process, and to the locks.
LEMMA LeaveFacts ==
  ASSUME TypeOK, NEW p \in Procs, NEW step \in {"idle", "open"}, Leave(p, step)
  PROVE  /\ pc' \in [Procs -> Steps] /\ fd' \in [Procs -> {0} \union Files]
         /\ flock' \in [Files -> Procs \union {"none"}]
         /\ pc'[p] = step
         /\ \A q \in Procs \ {p} : pc'[q] = pc[q] /\ fd'[q] = fd[q]
         /\ \A f \in Files : flock[f] # p => flock'[f] = flock[f]
         /\ fd'[p] = 0
BY StepNames, ProcsAssumption DEF TypeOK, Leave

\* What going on with an attempt does.
LEMMA AdvanceFacts ==
  ASSUME TypeOK, NEW p \in Procs, pc[p] \in Checks, Advance(p)
  PROVE  /\ pc' \in [Procs -> Steps] /\ fd' = fd /\ flock' = flock
         /\ pc'[p] = Then[pc[p]] /\ pc'[p] \in Locking
         /\ \A q \in Procs \ {p} : pc'[q] = pc[q]
BY StepNames DEF TypeOK, Advance

LEMMA TypeStep == LockInvariant /\ [Next]_vars => TypeOK'
<1> SUFFICES ASSUME LockInvariant, [Next]_vars PROVE TypeOK'
  OBVIOUS
<1> USE StepNames, FileNumbers DEF LockInvariant, procVars, breakerVars
<1>1. ASSUME NEW p \in Procs, Begin(p) PROVE TypeOK'
  BY <1>1 DEF Begin, TypeOK
<1>2. ASSUME NEW p \in Procs, Open(p) PROVE TypeOK'
  BY <1>2 DEF Open, TypeOK
<1>3. ASSUME NEW p \in Procs, TryLock(p) PROVE TypeOK'
  <2>1. CASE flock[fd[p]] = "none"
    BY <1>3, <2>1 DEF TryLock, TypeOK
  <2>2. CASE flock[fd[p]] # "none"
    BY <1>3, <2>2, LeaveFacts DEF TryLock, TypeOK
  <2> QED BY <2>1, <2>2
<1>4. ASSUME NEW p \in Procs, MatchPath(p) \/ NoBreaker(p) \/ ReadBack(p)
      PROVE  TypeOK'
  <2>1. pc[p] \in Checks
    BY <1>4 DEF MatchPath, NoBreaker, ReadBack, Checks
  <2>2. Advance(p) \/ Leave(p, "idle")
    BY <1>4 DEF MatchPath, NoBreaker, ReadBack
  <2>3. UNCHANGED <<path, record, made, breakerVars, crashes>>
    BY <1>4 DEF MatchPath, NoBreaker, ReadBack
  <2> QED BY <2>1, <2>2, <2>3, LeaveFacts, AdvanceFacts DEF TypeOK
<1>5. ASSUME NEW p \in Procs, ClaimRecord(p) \/ WriteRecord(p) PROVE TypeOK'
  <2>1. pc[p] \in Checks
    BY <1>5 DEF ClaimRecord, WriteRecord, Checks
  <2>2. Advance(p) \/ Leave(p, "idle")
    BY <1>5 DEF ClaimRecord, WriteRecord
  <2>3. record' \in [Files -> Procs \union {"empty", "torn", "legacy"}]
    BY <1>5 DEF ClaimRecord, WriteRecord, TypeOK
  <2>4. UNCHANGED <<path, made, breakerVars, crashes>>
    BY <1>5 DEF ClaimRecord, WriteRecord
  <2> QED BY <2>1, <2>2, <2>3, <2>4, LeaveFacts, AdvanceFacts DEF TypeOK
<1>6. ASSUME NEW p \in Procs, GiveUp(p) \/ Release(p) PROVE TypeOK'
  BY <1>6, LeaveFacts DEF GiveUp, Release, TypeOK
<1>7. ASSUME NEW p \in Procs, Crash(p) PROVE TypeOK'
  <2>1. record' \in [Files -> Procs \union {"empty", "torn", "legacy"}]
    BY <1>7 DEF Crash, TypeOK
  <2>2. crashes' \in Nat
    BY <1>7 DEF Crash, TypeOK
  <2> QED BY <1>7, <2>1, <2>2, LeaveFacts DEF Crash, TypeOK
<1>8. ASSUME NEW b \in Breakers, ReadStale(b) \/ MoveAside(b) \/ Settle(b)
      PROVE  TypeOK'
  BY <1>8 DEF ReadStale, MoveAside, Settle, TypeOK
<1>9. CASE UNCHANGED vars
  BY <1>9 DEF vars, TypeOK
<1> QED
  BY <1>1, <1>2, <1>3, <1>4, <1>5, <1>6, <1>7, <1>8, <1>9 DEF Next, Acquire

\* Only an owner of the file's lock writes into it, so what a process has read
\* or written of its file stands while it has the lock.
LEMMA LeaveKeeps ==
  ASSUME LockInvariant, NEW p \in Procs, NEW step \in {"idle", "open"},
         Leave(p, step), UNCHANGED <<path, made, aside, bpc>>,
         \A f \in Files : f # fd[p] => record'[f] = record[f],
         record' = record \/ pc[p] \in Locking
  PROVE  FileHeld' /\ OneMove' /\ Fresh'
<1> USE StepNames, FileNumbers
<1>1. TypeOK /\ FileHeld /\ OneMove /\ Fresh
  BY DEF LockInvariant
<1>2. /\ pc'[p] = step /\ fd'[p] = 0
      /\ \A q \in Procs \ {p} : pc'[q] = pc[q] /\ fd'[q] = fd[q]
      /\ \A f \in Files : flock[f] # p => flock'[f] = flock[f]
  BY <1>1, LeaveFacts
<1>3. FileHeld'
  <2> SUFFICES ASSUME NEW q \in Procs
               PROVE  /\ pc'[q] \in Locking \union {"try"} => fd'[q] \in Files
                      /\ pc'[q] \in Locking => flock'[fd'[q]] = q
                      /\ pc'[q] = "write" => record'[fd'[q]] = "empty"
                      /\ pc'[q] \in Written => record'[fd'[q]] = q
    BY DEF FileHeld
  <2>1. CASE q = p
    BY <1>2, <2>1 DEF Written
  <2>2. CASE q # p
    <3>1. /\ pc'[q] = pc[q] /\ fd'[q] = fd[q]
          /\ pc[q] \in Locking \union {"try"} => fd[q] \in Files
          /\ pc[q] \in Locking => flock[fd[q]] = q
      BY <1>1, <1>2, <2>2 DEF FileHeld
    <3>2. pc[q] \in Locking => flock'[fd[q]] = q
      BY <1>2, <2>2, <3>1
    <3>3. pc[q] \in Locking => record'[fd[q]] = record[fd[q]]
      <4>1. CASE pc[p] \in Locking
        <5>1. flock[fd[p]] = p
          BY <1>1, <4>1 DEF FileHeld
        <5>2. pc[q] \in Locking => fd[q] \in Files /\ fd[q] # fd[p]
          BY <2>2, <3>1, <5>1
        <5> QED BY <5>2
      <4>2. CASE record' = record
        BY <4>2
      <4> QED BY <4>1, <4>2
    <3>4. (pc[q] = "write" \/ pc[q] \in Written) => pc[q] \in Locking
      BY DEF Written, Locking, Checks
    <3> QED BY <1>1, <3>1, <3>2, <3>3, <3>4 DEF FileHeld
  <2> QED BY <2>1, <2>2
<1>4. Fresh'
  <2>1. \A f \in Files : f > made => record'[f] = record[f]
    BY <1>1 DEF Fresh
  <2> QED BY <1>1, <1>2, <2>1 DEF Fresh
<1> QED BY <1>1, <1>3, <1>4 DEF OneMove

LEMMA AdvanceKeeps ==
  ASSUME LockInvariant, NEW p \in Procs, pc[p] \in Checks, Advance(p),
         UNCHANGED <<path, made, aside, bpc>>,
         \A f \in Files : f # fd[p] => record'[f] = record[f],
         pc'[p] = "write" => record'[fd[p]] = "empty",
         pc'[p] \in Written => record'[fd[p]] = p
  PROVE  FileHeld' /\ OneMove' /\ Fresh'
<1> USE StepNames, FileNumbers
<1>1. TypeOK /\ FileHeld /\ OneMove /\ Fresh
  BY DEF LockInvariant
<1>2. /\ fd' = fd /\ flock' = flock /\ pc'[p] \in Locking
      /\ \A q \in Procs \ {p} : pc'[q] = pc[q]
  BY <1>1, AdvanceFacts
<1>3. fd[p] \in Files /\ flock[fd[p]] = p
  BY <1>1 DEF FileHeld, Locking
<1>4. FileHeld'
  <2> SUFFICES ASSUME NEW q \in Procs
               PROVE  /\ pc'[q] \in Locking \union {"try"} => fd'[q] \in Files
                      /\ pc'[q] \in Locking => flock'[fd'[q]] = q
                      /\ pc'[q] = "write" => record'[fd'[q]] = "empty"
                      /\ pc'[q] \in Written => record'[fd'[q]] = q
    BY DEF FileHeld
  <2>1. CASE q = p
    BY <1>2, <1>3, <2>1
  <2>2. CASE q # p
    <3>1. /\ pc'[q] = pc[q] /\ fd'[q] = fd[q] /\ flock' = flock
          /\ pc[q] \in Locking \union {"try"} => fd[q] \in Files
          /\ pc[q] \in Locking => flock[fd[q]] = q
      BY <1>1, <1>2, <2>2 DEF FileHeld
    <3>2. pc[q] \in Locking => record'[fd[q]] = record[fd[q]]
      BY <1>3, <2>2, <3>1
    <3>3. (pc[q] = "write" \/ pc[q] \in Written) => pc[q] \in Locking
      BY DEF Written, Locking, Checks
    <3> QED BY <1>1, <3>1, <3>2, <3>3 DEF FileHeld
  <2> QED BY <2>1, <2>2
<1>5. Fresh'
  <2>1. \A f \in Files : f > made => record'[f] = record[f]
    BY <1>1 DEF Fresh
  <2> QED BY <1>1, <1>2, <2>1 DEF Fresh
<1> QED BY <1>1, <1>4, <1>5 DEF OneMove

LEMMA FileStep ==
  LockInvariant /\ [Next]_vars => FileHeld' /\ OneMove' /\ Fresh'
<1> SUFFICES ASSUME LockInvariant, [Next]_vars
             PROVE  FileHeld' /\ OneMove' /\ Fresh'
  OBVIOUS
<1> DEFINE Goal == FileHeld' /\ OneMove' /\ Fresh'
<1>0. TypeOK /\ FileHeld /\ OneMove /\ Fresh
  BY DEF LockInvariant
<1> USE StepNames, FileNumbers DEF procVars, breakerVars
<1>1. ASSUME NEW p \in Procs, Begin(p) PROVE Goal
  BY <1>0, <1>1 DEF Begin, TypeOK, FileHeld, OneMove, Fresh, Written
<1>2. ASSUME NEW p \in Procs, Open(p) PROVE Goal
  <2>1. fd'[p] = path' /\ path' \in Files
        /\ \A q \in Procs \ {p} : fd'[q] = fd[q] /\ pc'[q] = pc[q]
    BY <1>0, <1>2 DEF Open, TypeOK
  <2>2. pc'[p] = "try"
    BY <1>0, <1>2 DEF Open, TypeOK
  <2>3. FileHeld' /\ OneMove'
    BY <1>0, <1>2, <2>1, <2>2 DEF Open, TypeOK, FileHeld, OneMove, Written
  <2>4. ASSUME NEW f \in Files, f > made'
        PROVE  /\ f > made /\ path' # f
    BY <1>0, <1>2, <2>4 DEF Open, TypeOK, Files, Fresh
  <2>5. Fresh'
    BY <1>0, <1>2, <2>1, <2>4 DEF Open, Fresh
  <2> QED BY <2>3, <2>5
<1>3. ASSUME NEW p \in Procs, TryLock(p) PROVE Goal
  <2>0. UNCHANGED <<path, record, made, aside, bpc>>
    BY <1>3 DEF TryLock
  <2>1. CASE flock[fd[p]] = "none"
    <3>1. /\ fd' = fd /\ pc'[p] = "match1" /\ fd[p] \in Files
          /\ flock'[fd[p]] = p
          /\ \A f \in Files \ {fd[p]} : flock'[f] = flock[f]
          /\ \A q \in Procs \ {p} : pc'[q] = pc[q]
      BY <1>0, <1>3, <2>1 DEF TryLock, TypeOK, FileHeld
    <3>2. \A q \in Procs : pc[q] \in Locking => fd[q] # fd[p]
      BY <1>0, <2>1, ProcsAssumption DEF FileHeld
    <3>3. FileHeld'
      <4> SUFFICES ASSUME NEW q \in Procs
                   PROVE  /\ pc'[q] \in Locking \union {"try"} => fd'[q] \in Files
                          /\ pc'[q] \in Locking => flock'[fd'[q]] = q
                          /\ pc'[q] = "write" => record'[fd'[q]] = "empty"
                          /\ pc'[q] \in Written => record'[fd'[q]] = q
        BY DEF FileHeld
      <4>1. CASE q = p
        BY <3>1, <4>1 DEF Written
      <4>2. CASE q # p
        <5>1. pc'[q] = pc[q] /\ fd'[q] = fd[q] /\ record' = record
          BY <2>0, <3>1, <4>2
        <5>2. pc[q] \in Locking => fd[q] \in Files /\ fd[q] # fd[p]
          BY <1>0, <3>2 DEF FileHeld
        <5>3. pc[q] \in Locking => flock'[fd[q]] = flock[fd[q]]
          BY <3>1, <5>2
        <5> QED BY <1>0, <5>1, <5>3 DEF FileHeld
      <4> QED BY <4>1, <4>2
    <3> QED BY <1>0, <2>0, <3>1, <3>3 DEF OneMove, Fresh
  <2>2. CASE flock[fd[p]] # "none"
    BY <1>3, <2>0, <2>2, LeaveKeeps DEF TryLock
  <2> QED BY <2>1, <2>2
<1>4. ASSUME NEW p \in Procs, MatchPath(p) \/ NoBreaker(p) \/ ReadBack(p)
      PROVE  Goal
  <2>1. pc[p] \in Checks
    BY <1>4 DEF MatchPath, NoBreaker, ReadBack, Checks
  <2>2. UNCHANGED <<path, record, made, aside, bpc>>
    BY <1>4 DEF MatchPath, NoBreaker, ReadBack
  <2>3. CASE Leave(p, "idle")
    BY <2>2, <2>3, LeaveKeeps
  <2>4. CASE Advance(p)
    <3>1. pc'[p] \in Written => pc[p] \in Written
      BY <1>0, <1>4, <2>4, AdvanceFacts, <2>1
      DEF MatchPath, NoBreaker, ReadBack, Written
    <3>2. pc'[p] # "write"
      BY <1>0, <1>4, <2>4, AdvanceFacts, <2>1 DEF MatchPath, NoBreaker, ReadBack
    <3>3. pc'[p] \in Written => record[fd[p]] = p
      BY <1>0, <3>1 DEF FileHeld
    <3> QED BY <2>1, <2>2, <2>4, <3>2, <3>3, AdvanceKeeps
  <2> QED BY <1>4, <2>3, <2>4 DEF MatchPath, NoBreaker, ReadBack
<1>5. ASSUME NEW p \in Procs, ClaimRecord(p) \/ WriteRecord(p) PROVE Goal
  <2>1. pc[p] \in {"claim", "write"} /\ pc[p] \in Checks
    BY <1>5 DEF ClaimRecord, WriteRecord, Checks
  <2>2. UNCHANGED <<path, made, aside, bpc>>
    BY <1>5 DEF ClaimRecord, WriteRecord
  <2>3. fd[p] \in Files
    BY <1>0, <2>1 DEF FileHeld
  <2>4. \A f \in Files : f # fd[p] => record'[f] = record[f]
    BY <1>0, <1>5 DEF ClaimRecord, WriteRecord, TypeOK
  <2>6. CASE Leave(p, "idle")
    BY <2>1, <2>2, <2>3, <2>4, <2>6, LeaveKeeps DEF Locking
  <2>7. CASE Advance(p)
    <3>1. pc'[p] \in Written => record'[fd[p]] = p
      BY <1>0, <1>5, <2>1, <2>3, <2>7, AdvanceFacts
      DEF ClaimRecord, WriteRecord, TypeOK, Written
    <3>2. pc'[p] = "write" => record'[fd[p]] = "empty"
      <4>1. CASE ClaimRecord(p)
        <5>1. record[fd[p]] \in Procs \union {"empty"} => record'[fd[p]] = "empty"
          BY <1>0, <4>1, <2>3 DEF ClaimRecord, TypeOK
        <5>2. Leave(p, "idle") => pc'[p] = "idle"
          BY <1>0, LeaveFacts
        <5> QED BY <4>1, <5>1, <5>2 DEF ClaimRecord
      <4>2. CASE WriteRecord(p)
        BY <1>0, <4>2, <2>1, <2>7, AdvanceFacts DEF WriteRecord
      <4> QED BY <1>5, <4>1, <4>2
    <3> QED BY <2>1, <2>2, <2>4, <2>7, <3>1, <3>2, AdvanceKeeps
  <2> QED BY <1>5, <2>6, <2>7 DEF ClaimRecord, WriteRecord
<1>6. ASSUME NEW p \in Procs, GiveUp(p) \/ Release(p) PROVE Goal
  BY <1>6, LeaveKeeps DEF GiveUp, Release
<1>7. ASSUME NEW p \in Procs, Crash(p) PROVE Goal
  <2>1. Leave(p, "idle") /\ UNCHANGED <<path, made, aside, bpc>>
    BY <1>7 DEF Crash
  <2>2. record' = record \/ pc[p] = "write"
    BY <1>7 DEF Crash
  <2>3. \A f \in Files : f # fd[p] => record'[f] = record[f]
    BY <1>0, <1>7 DEF Crash, TypeOK
  <2>4. pc[p] = "write" => pc[p] \in Locking /\ fd[p] # 0
    BY <1>0 DEF FileHeld, Locking, Checks
  <2> QED BY <2>1, <2>2, <2>3, <2>4, LeaveKeeps
<1>8. ASSUME NEW b \in Breakers, ReadStale(b) \/ MoveAside(b) \/ Settle(b)
      PROVE  Goal
  <2>1. UNCHANGED <<record, flock, made, pc, fd>>
    BY <1>8 DEF ReadStale, MoveAside, Settle
  <2>2. FileHeld'
    BY <1>0, <2>1 DEF FileHeld
  <2>3. OneMove'
    BY <1>0, <1>8 DEF ReadStale, MoveAside, Settle, TypeOK, OneMove
  <2>4. Fresh'
    BY <1>0, <1>8, <2>1 DEF ReadStale, MoveAside, Settle, TypeOK, Fresh
  <2> QED BY <2>2, <2>3, <2>4
<1>9. CASE UNCHANGED vars
  <2>1. UNCHANGED <<path, record, flock, made, pc, fd, aside, bpc>>
    BY <1>9 DEF vars
  <2>2. FileHeld'
    BY <1>0, <2>1 DEF FileHeld
  <2>3. OneMove' /\ Fresh'
    BY <1>0, <2>1 DEF OneMove, Fresh
  <2> QED BY <2>2, <2>3
<1> QED
  BY <1>1, <1>2, <1>3, <1>4, <1>5, <1>6, <1>7, <1>8, <1>9 DEF Next, Acquire

\* A file can become signed only when no breaker has a file aside, and then only
\* the path is linked.
LEMMA SignedStep == LockInvariant /\ [Next]_vars => OneSigned'
<1> SUFFICES ASSUME LockInvariant, [Next]_vars PROVE OneSigned'
  OBVIOUS
<1> DEFINE Fewer(f) == Linked(f)' /\ Signed(f)' => Linked(f) /\ Signed(f)
<1>0. ASSUME \A f \in Files : Fewer(f) PROVE OneSigned'
  BY <1>0 DEF LockInvariant, OneSigned
<1> USE StepNames, FileNumbers DEF LockInvariant, procVars, breakerVars
<1>1. ASSUME NEW p \in Procs, Begin(p) PROVE OneSigned'
  BY <1>0, <1>1 DEF Begin, TypeOK, Linked, Signed
<1>2. ASSUME NEW p \in Procs, Open(p) PROVE OneSigned'
  <2>1. CASE UNCHANGED path
    BY <1>0, <1>2, <2>1 DEF Open, TypeOK, Linked, Signed
  <2>2. CASE path = 0 /\ made < MaxFiles /\ made' = made + 1 /\ path' = made'
    <3>1. made + 1 \in Files /\ record[made + 1] = "empty"
          /\ \A q \in Procs : fd[q] # made + 1
      BY <2>2 DEF TypeOK, Fresh, Files
    <3>2. /\ record' = record /\ aside' = aside /\ pc'[p] = "try"
          /\ \A q \in Procs \ {p} : fd'[q] = fd[q] /\ pc'[q] = pc[q]
      BY <1>2 DEF Open, TypeOK
    <3>3. \A f \in Files : Signed(f)' => Signed(f)
      BY <3>2 DEF Signed
    <3>4. ~Signed(made + 1)
      BY <3>1, ProcsAssumption DEF Signed
    <3>5. \A f \in Files : Linked(f)' => f = made + 1 \/ Linked(f)
      BY <2>2, <3>2 DEF Linked
    <3> QED BY <1>0, <3>1, <3>3, <3>4, <3>5
  <2> QED BY <1>2, <2>1, <2>2 DEF Open
<1>3. ASSUME NEW p \in Procs, TryLock(p) PROVE OneSigned'
  <2>1. CASE flock[fd[p]] = "none"
    BY <1>0, <1>3, <2>1 DEF TryLock, TypeOK, Linked, Signed
  <2>2. CASE flock[fd[p]] # "none"
    BY <1>0, <1>3, <2>2, LeaveFacts DEF TryLock, Linked, Signed
  <2> QED BY <2>1, <2>2
<1>4. ASSUME NEW p \in Procs, MatchPath(p) \/ ReadBack(p)
      PROVE  OneSigned'
  <2>1. pc[p] \in Checks \ {"clear1", "claim", "write"}
    BY <1>4 DEF MatchPath, ReadBack, Checks
  <2>2. UNCHANGED <<path, record, aside>>
    BY <1>4 DEF MatchPath, ReadBack
  <2>3. CASE Leave(p, "idle")
    BY <1>0, <2>2, <2>3, LeaveFacts DEF Linked, Signed
  <2>4. CASE Advance(p)
    <3>1. pc'[p] \notin {"claim", "write"}
      BY <1>4, <2>4, AdvanceFacts, <2>1 DEF MatchPath, ReadBack
    <3> QED BY <1>0, <2>1, <2>2, <2>4, <3>1, AdvanceFacts DEF Linked, Signed
  <2> QED BY <1>4, <2>3, <2>4 DEF MatchPath, ReadBack
<1>5. ASSUME NEW p \in Procs, NoBreaker(p) PROVE OneSigned'
  <2>1. UNCHANGED <<path, record, aside>>
    BY <1>5 DEF NoBreaker
  <2>2. CASE \A b \in Breakers : aside[b] = 0
    BY <2>1, <2>2 DEF OneSigned, Linked
  <2>3. CASE ~(\A b \in Breakers : aside[b] = 0)
    BY <1>0, <1>5, <2>1, <2>3, LeaveFacts DEF NoBreaker, Linked, Signed
  <2> QED BY <2>2, <2>3
<1>6. ASSUME NEW p \in Procs, ClaimRecord(p) \/ WriteRecord(p) PROVE OneSigned'
  <2>1. pc[p] \in {"claim", "write"} /\ pc[p] \in Checks
    BY <1>6 DEF ClaimRecord, WriteRecord, Checks
  <2>2. UNCHANGED <<path, aside>>
    BY <1>6 DEF ClaimRecord, WriteRecord
  <2>3. Signed(fd[p])
    BY <2>1 DEF Signed
  <2>4. \A f \in Files \ {fd[p]} : record'[f] = record[f]
    BY <1>6 DEF ClaimRecord, WriteRecord, TypeOK
  <2>5. fd'[p] \in {fd[p], 0} /\ \A q \in Procs \ {p} : pc'[q] = pc[q] /\ fd'[q] = fd[q]
    BY <1>6, <2>1, LeaveFacts, AdvanceFacts DEF ClaimRecord, WriteRecord
  <2>6. ASSUME NEW f \in Files PROVE Fewer(f)
    BY <2>2, <2>3, <2>4, <2>5 DEF Linked, Signed
  <2> QED BY <1>0, <2>6
<1>7. ASSUME NEW p \in Procs, GiveUp(p) \/ Release(p) PROVE OneSigned'
  BY <1>0, <1>7, LeaveFacts DEF GiveUp, Release, Linked, Signed
<1>8. ASSUME NEW p \in Procs, Crash(p) PROVE OneSigned'
  <2>1. \A f \in Files : record'[f] = record[f] \/ record'[f] = "torn"
    BY <1>8 DEF Crash, TypeOK
  <2> QED BY <1>0, <1>8, <2>1, LeaveFacts, ProcsAssumption DEF Crash, Linked, Signed
<1>9. ASSUME NEW b \in Breakers, ReadStale(b) \/ MoveAside(b) \/ Settle(b)
      PROVE  OneSigned'
  <2>1. UNCHANGED <<record, pc, fd>>
    BY <1>9 DEF ReadStale, MoveAside, Settle
  <2>2. ASSUME NEW f \in Files, Linked(f)' PROVE Linked(f)
    BY <1>9, <2>2 DEF ReadStale, MoveAside, Settle, Linked, TypeOK
  <2> QED BY <1>0, <2>1, <2>2 DEF Signed
<1>10. CASE UNCHANGED vars
  BY <1>10 DEF vars, TypeOK, OneSigned, Linked, Signed
<1> QED
  BY <1>1, <1>2, <1>3, <1>4, <1>5, <1>6, <1>7, <1>8, <1>9, <1>10
  DEF Next, Acquire

\* A process comes to the last check with the path naming its file, and keeps
\* the file from there on.
LEMMA OwnerSource ==
  ASSUME LockInvariant, [Next]_vars, NEW p \in Procs, pc'[p] \in {"clear3", "held"}
  PROVE  /\ fd'[p] = fd[p]
         /\ \/ pc[p] \in {"clear3", "held"}
            \/ path = fd[p] /\ UNCHANGED <<path, aside>>
<1> USE StepNames
<1>0. TypeOK
  BY DEF LockInvariant
<1> DEFINE Kept(q) == pc'[q] = pc[q] /\ fd'[q] = fd[q]
<1>1. ASSUME NEW q \in Procs, Leave(q, "idle") \/ Leave(q, "open") PROVE Kept(p)
  BY <1>0, <1>1, LeaveFacts
<1>2. ASSUME NEW q \in Procs, Advance(q), pc[q] \in Checks, q # p PROVE Kept(p)
  BY <1>0, <1>2, AdvanceFacts
<1>3. ASSUME NEW q \in Procs, Begin(q) \/ Open(q) PROVE Kept(p)
  <2>1. q # p
    BY <1>0, <1>3 DEF Begin, Open, TypeOK
  <2> QED BY <1>0, <1>3, <2>1 DEF Begin, Open, TypeOK
<1>4. ASSUME NEW q \in Procs, TryLock(q) PROVE Kept(p)
  <2>1. CASE flock[fd[q]] = "none"
    BY <1>0, <1>4, <2>1 DEF TryLock, TypeOK
  <2>2. CASE flock[fd[q]] # "none"
    BY <1>1, <1>4, <2>2 DEF TryLock
  <2> QED BY <2>1, <2>2
<1>5. ASSUME NEW q \in Procs,
             ClaimRecord(q) \/ WriteRecord(q) \/ ReadBack(q)
      PROVE  Kept(p)
  <2>1. pc[q] \in {"claim", "write", "readback"} /\ pc[q] \in Checks
    BY <1>5 DEF ClaimRecord, WriteRecord, ReadBack, Checks
  <2>2. Advance(q) \/ Leave(q, "idle")
    BY <1>5 DEF ClaimRecord, WriteRecord, ReadBack
  <2>3. Advance(q) => q # p
    BY <1>0, <2>1, AdvanceFacts
  <2> QED BY <1>1, <1>2, <2>1, <2>2, <2>3
<1>6. ASSUME NEW q \in Procs, GiveUp(q) \/ Release(q) \/ Crash(q) PROVE Kept(p)
  BY <1>1, <1>6 DEF GiveUp, Release, Crash
<1>7. ASSUME NEW q \in Procs, NoBreaker(q)
      PROVE  Kept(p) \/ (pc[p] = "clear3" /\ fd'[p] = fd[p])
  <2>1. pc[q] \in {"clear1", "clear2", "clear3"} /\ pc[q] \in Checks
    BY <1>7 DEF NoBreaker, Checks
  <2>2. Advance(q) => q # p \/ pc[p] = "clear3"
    BY <1>0, <2>1, AdvanceFacts
  <2>3. Advance(q) => fd' = fd
    BY DEF Advance
  <2> QED BY <1>1, <1>2, <1>7, <2>1, <2>2, <2>3 DEF NoBreaker
<1>8. ASSUME NEW q \in Procs, MatchPath(q)
      PROVE  Kept(p) \/ (path = fd[p] /\ fd'[p] = fd[p] /\ UNCHANGED <<path, aside>>)
  <2>1. pc[q] \in Checks /\ UNCHANGED <<path, aside>>
    BY <1>8 DEF MatchPath, Checks, breakerVars
  <2>2. CASE path = fd[q]
    <3>1. Advance(q) /\ fd' = fd
      BY <1>8, <2>2 DEF MatchPath, Advance
    <3> QED BY <1>2, <2>1, <2>2, <3>1
  <2>3. CASE path # fd[q]
    BY <1>1, <1>8, <2>3 DEF MatchPath
  <2> QED BY <2>2, <2>3
<1>9. ASSUME NEW b \in Breakers, ReadStale(b) \/ MoveAside(b) \/ Settle(b)
      PROVE  Kept(p)
  BY <1>9 DEF ReadStale, MoveAside, Settle, procVars
<1>10. CASE UNCHANGED vars
  BY <1>10 DEF vars
<1> QED
  BY <1>3, <1>4, <1>5, <1>6, <1>7, <1>8, <1>9, <1>10 DEF Next, Acquire

\* The only step that takes a link away from a signed file is a breaker that puts
\* another signed one back, and there is none.
LEMMA OwnerStep == LockInvariant /\ [Next]_vars => OwnerLinked'
<1> SUFFICES ASSUME LockInvariant, [Next]_vars, NEW p \in Procs,
                    pc'[p] \in {"clear3", "held"}, NEW f, f = fd'[p]
             PROVE  Linked(f)'
  BY DEF OwnerLinked, Linked
<1> USE StepNames, FileNumbers
<1>0. TypeOK /\ FileHeld /\ OneMove /\ OneSigned /\ OwnerLinked
  BY DEF LockInvariant
<1>1. CASE path = fd[p] /\ UNCHANGED <<path, aside>>
  BY <1>1, OwnerSource DEF Linked
<1>2. CASE pc[p] \in {"clear3", "held"}
  <2>1. f \in Files /\ record[f] = p /\ Linked(f) /\ Signed(f)
    BY <1>0, <1>2, OwnerSource DEF OwnerLinked, FileHeld, Written, Signed
  <2>2. CASE UNCHANGED <<path, aside>>
    BY <2>1, <2>2 DEF Linked
  <2>3. ASSUME NEW q \in Procs, Open(q) PROVE Linked(f)'
    BY <2>1, <2>3 DEF Open, Linked, breakerVars
  <2>4. ASSUME NEW b \in Breakers, MoveAside(b) PROVE Linked(f)'
    <3>1. CASE path = 0
      BY <2>1, <2>4, <3>1 DEF MoveAside, Linked
    <3>2. CASE path # 0
      <4>1. aside[b] = 0 /\ aside'[b] = path
            /\ \A c \in Breakers \ {b} : aside'[c] = aside[c]
        BY <1>0, <2>4, <3>2 DEF MoveAside, OneMove, TypeOK
      <4>2. CASE path = f
        BY <4>1, <4>2 DEF Linked
      <4>3. CASE path # f
        <5>1. PICK c \in Breakers : aside[c] = f
          BY <2>1, <4>3 DEF Linked
        <5> QED BY <2>1, <4>1, <5>1 DEF Linked
      <4> QED BY <4>2, <4>3
    <3> QED BY <3>1, <3>2
  <2>5. ASSUME NEW b \in Breakers, Settle(b) PROVE Linked(f)'
    <3>1. CASE record[aside[b]] = "legacy"
      <4>1. path' = path /\ aside[b] # f
            /\ \A c \in Breakers \ {b} : aside'[c] = aside[c]
        BY <1>0, <2>1, <2>5, <3>1, ProcsAssumption DEF Settle, TypeOK
      <4> QED BY <2>1, <4>1 DEF Linked
    <3>2. CASE record[aside[b]] \in Procs /\ aside[b] \in Files
      <4>1. Linked(aside[b]) /\ Signed(aside[b])
        BY <3>2 DEF Linked, Signed
      <4>2. aside[b] = f
        BY <1>0, <2>1, <3>2, <4>1 DEF OneSigned
      <4>3. path' = aside[b]
        BY <2>5, <3>2, ProcsAssumption DEF Settle
      <4> QED BY <4>2, <4>3 DEF Linked
    <3>3. CASE record[aside[b]] \in {"empty", "torn"}
      BY <2>1, <2>5, <3>3, ProcsAssumption DEF Settle, Linked
    <3>4. aside[b] \in Files
      BY <1>0, <2>5 DEF Settle, OneMove, TypeOK
    <3> QED BY <2>5, <3>1, <3>2, <3>3, <3>4 DEF Settle
  <2>6. (\E q \in Procs : Open(q)) \/ (\E b \in Breakers : MoveAside(b) \/ Settle(b))
        \/ UNCHANGED <<path, aside>>
    BY DEF Next, Acquire, vars, Begin, TryLock, MatchPath, NoBreaker, ClaimRecord,
           WriteRecord, ReadBack, GiveUp, Release, Crash, ReadStale, breakerVars
  <2> QED BY <2>2, <2>3, <2>4, <2>5, <2>6
<1> QED BY <1>1, <1>2, OwnerSource

-----------------------------------------------------------------------------
\* The lock's state is invariant: files, links and records fit together.
THEOREM LockInvariance == Spec => []LockInvariant
<1>1. LockInvariant /\ [Next]_vars => LockInvariant'
  BY TypeStep, FileStep, SignedStep, OwnerStep DEF LockInvariant
<1> QED
  BY InitLock, <1>1, PTL DEF Spec

\* Type correctness of _ExclusiveFileLock's state and of its breakers'.
THEOREM LockTypes == Spec => []TypeOK
<1>1. LockInvariant => TypeOK
  BY DEF LockInvariant
<1> QED
  BY LockInvariance, <1>1, PTL

\* Mutual exclusion of __enter__ and __exit__ under the renames of any number of
\* stale-lock breakers.  Two owners have the files they opened signed and linked,
\* so it is one file, and one file is locked by one process.
THEOREM OwnersExclude == Spec => []SingleOwner
<1>1. LockInvariant => SingleOwner
  <2> SUFFICES ASSUME LockInvariant, NEW p \in Procs, NEW q \in Procs,
                      pc[p] = "held", pc[q] = "held"
               PROVE  p = q
    BY DEF SingleOwner
  <2>1. /\ fd[p] \in Files /\ record[fd[p]] = p /\ flock[fd[p]] = p
        /\ fd[q] \in Files /\ record[fd[q]] = q /\ flock[fd[q]] = q
    BY DEF LockInvariant, FileHeld, Locking, Written
  <2>2. Linked(fd[p]) /\ Linked(fd[q])
    BY DEF LockInvariant, OwnerLinked
  <2>3. fd[p] = fd[q]
    BY <2>1, <2>2 DEF LockInvariant, OneSigned, Signed
  <2> QED
    BY <2>1, <2>3
<1> QED
  BY LockInvariance, <1>1, PTL

\* What assert_held compares holds throughout an ownership: the file is locked
\* and carries the owner's record.
THEOREM OwnersRecorded == Spec => []OwnerRecorded
<1>1. LockInvariant => OwnerRecorded
  BY DEF LockInvariant, FileHeld, OwnerRecorded, Locking, Written
<1> QED
  BY LockInvariance, <1>1, PTL

\* _validate_stable_lock_record: no acquisition, failed or cut short, writes over
\* the record of another protocol or a damaged one.
THEOREM ForeignRecordsKept == Spec => ForeignRecordKept
<1> DEFINE Kept == \A f \in Files : record[f] \in {"legacy", "torn"} => record'[f] = record[f]
<1>1. LockInvariant /\ [Next]_vars => Kept
  <2> SUFFICES ASSUME LockInvariant, [Next]_vars, NEW f \in Files,
                      record[f] \in {"legacy", "torn"}
               PROVE  record'[f] = record[f]
    OBVIOUS
  <2>0. TypeOK /\ FileHeld
    BY DEF LockInvariant
  <2>1. ASSUME NEW p \in Procs, ClaimRecord(p) PROVE record'[f] = record[f]
    BY <2>0, <2>1, ProcsAssumption DEF ClaimRecord, TypeOK
  <2>2. ASSUME NEW p \in Procs, pc[p] = "write" PROVE fd[p] # f
    BY <2>0, <2>2 DEF FileHeld
  <2>3. ASSUME NEW p \in Procs, WriteRecord(p) PROVE record'[f] = record[f]
    BY <2>0, <2>2, <2>3 DEF WriteRecord, TypeOK
  <2>4. ASSUME NEW p \in Procs, Crash(p) PROVE record'[f] = record[f]
    BY <2>0, <2>2, <2>4 DEF Crash, TypeOK
  <2>5. \/ \E p \in Procs : ClaimRecord(p) \/ WriteRecord(p) \/ Crash(p)
        \/ UNCHANGED record
    BY DEF Next, Acquire, vars, Begin, Open, TryLock, MatchPath, NoBreaker,
           ReadBack, GiveUp, Release, ReadStale, MoveAside, Settle
  <2> QED
    BY <2>1, <2>3, <2>4, <2>5
<1>2. LockInvariant /\ [Next]_vars => [Kept]_vars
  BY <1>1
<1> QED
  BY LockInvariance, <1>2, PTL DEF Spec, ForeignRecordKept

=============================================================================
