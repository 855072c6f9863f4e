----------------------------- MODULE StableLock -----------------------------
(***************************************************************************)
(* One stable lock file (src/csk/locking.py, class _ExclusiveFileLock).    *)
(*                                                                         *)
(* An owner holds an advisory lock on an open file, and the file must be   *)
(* the one the lock path names.  Older csk versions broke stale locks by   *)
(* renaming the path aside, so the path may change under an acquisition:   *)
(* an acquirer checks three times that the path still names its file and   *)
(* that no breaker has a side witness.  Breakers are external; they do     *)
(* what tests/test_locking.py runs in a subprocess.                        *)
(***************************************************************************)
EXTENDS Integers

CONSTANTS
  Procs,        \* processes of this csk version
  Breakers,     \* processes of a version that breaks stale locks
  MaxFiles,     \* bound on the files the lock path ever names
  MaxCrashes    \* bound on processes that die or fail on the way

ASSUME MaxFilesAssumption == MaxFiles \in Nat \ {0}
ASSUME MaxCrashesAssumption == MaxCrashes \in Nat
ASSUME ProcsAssumption ==
  Procs \cap {"none", "empty", "torn", "legacy"} = {}

Files == 1..MaxFiles

VARIABLES
  path,     \* the file the lock path names, 0 when there is none
  record,   \* content of each file; a process stands for its own v1 record
  flock,    \* the process that has each file locked, or "none"
  made,     \* how many files exist
  pc, fd,   \* where each process is, and its open file
  aside,    \* the file each breaker has renamed away
  bpc,      \* where each breaker is
  crashes

procVars == <<pc, fd>>
breakerVars == <<aside, bpc>>
vars == <<path, record, flock, made, pc, fd, aside, bpc, crashes>>

\* The checks of one acquisition, in the order of the code.
Checks == {"match1", "clear1", "claim", "write", "match2", "clear2", "readback",
           "match3", "clear3"}
Steps == Checks \union {"idle", "open", "try", "held"}

Then == [match1 |-> "clear1", clear1 |-> "claim", claim |-> "write",
         write |-> "match2", match2 |-> "clear2", clear2 |-> "readback",
         readback |-> "match3", match3 |-> "clear3", clear3 |-> "held"]

Advance(p) == pc' = [pc EXCEPT ![p] = Then[@]] /\ UNCHANGED <<fd, flock>>

\* Unlock if locked, close, and leave the attempt.
Leave(p, step) ==
  /\ pc' = [pc EXCEPT ![p] = step]
  /\ fd' = [fd EXCEPT ![p] = 0]
  /\ flock' = [f \in Files |-> IF flock[f] = p THEN "none" ELSE flock[f]]

-----------------------------------------------------------------------------
(* __enter__, check by check. *)

Begin(p) ==
  /\ pc[p] = "idle"
  /\ pc' = [pc EXCEPT ![p] = "open"]
  /\ UNCHANGED <<path, record, flock, made, fd, breakerVars, crashes>>

\* Fault: every attempt makes a file of its own.
OpenNew(p) ==
  /\ pc[p] = "open"
  /\ made' = made + 1 /\ path' = made' /\ fd' = [fd EXCEPT ![p] = path']
  /\ pc' = [pc EXCEPT ![p] = "try"]
  /\ UNCHANGED <<record, flock, breakerVars, crashes>>

\* os.open with O_CREAT: the path is created when it is missing.
Open(p) ==
  /\ pc[p] = "open"
  /\ \/ path # 0 /\ UNCHANGED <<path, made>>
     \/ path = 0 /\ made < MaxFiles /\ made' = made + 1 /\ path' = made'
  /\ fd' = [fd EXCEPT ![p] = path']
  /\ pc' = [pc EXCEPT ![p] = "try"]
  /\ UNCHANGED <<record, flock, breakerVars, crashes>>

\* Fault: the lock is taken whoever has it.
TakeLock(p) ==
  /\ pc[p] = "try"
  /\ flock' = [flock EXCEPT ![fd[p]] = p]
  /\ pc' = [pc EXCEPT ![p] = "match1"]
  /\ UNCHANGED <<path, record, made, fd, breakerVars, crashes>>

\* The lock attempt never blocks; a failed one closes and polls again.
TryLock(p) ==
  /\ pc[p] = "try"
  /\ IF flock[fd[p]] = "none"
     THEN /\ flock' = [flock EXCEPT ![fd[p]] = p]
          /\ pc' = [pc EXCEPT ![p] = "match1"] /\ UNCHANGED fd
     ELSE Leave(p, "open")
  /\ UNCHANGED <<path, record, made, breakerVars, crashes>>

\* _path_matches_fd.
MatchPath(p) ==
  /\ pc[p] \in {"match1", "match2", "match3"}
  /\ IF path = fd[p] THEN Advance(p) ELSE Leave(p, "idle")
  /\ UNCHANGED <<path, record, made, breakerVars, crashes>>

\* Fault: the side witness of a breaker is not looked for.
IgnoreBreaker(p) ==
  /\ pc[p] \in {"clear1", "clear2", "clear3"}
  /\ Advance(p)
  /\ UNCHANGED <<path, record, made, breakerVars, crashes>>

\* _assert_no_legacy_stale_breaker.
NoBreaker(p) ==
  /\ pc[p] \in {"clear1", "clear2", "clear3"}
  /\ IF \A b \in Breakers : aside[b] = 0 THEN Advance(p) ELSE Leave(p, "idle")
  /\ UNCHANGED <<path, record, made, breakerVars, crashes>>

\* Fault: a record of a dead legacy owner is taken over.
ClaimLegacy(p) ==
  /\ pc[p] = "claim"
  /\ record' = [record EXCEPT ![fd[p]] = "empty"] /\ Advance(p)
  /\ UNCHANGED <<path, made, breakerVars, crashes>>

\* _validate_stable_lock_record, then the ftruncate of _write_lock_fd.
ClaimRecord(p) ==
  /\ pc[p] = "claim"
  /\ IF record[fd[p]] \in Procs \union {"empty"}
     THEN record' = [record EXCEPT ![fd[p]] = "empty"] /\ Advance(p)
     ELSE UNCHANGED record /\ Leave(p, "idle")
  /\ UNCHANGED <<path, made, breakerVars, crashes>>

WriteRecord(p) ==
  /\ pc[p] = "write"
  /\ record' = [record EXCEPT ![fd[p]] = p] /\ Advance(p)
  /\ UNCHANGED <<path, made, breakerVars, crashes>>

ReadBack(p) ==
  /\ pc[p] = "readback"
  /\ IF record[fd[p]] = p THEN Advance(p) ELSE Leave(p, "idle")
  /\ UNCHANGED <<path, record, made, breakerVars, crashes>>

\* The deadline has passed after a failed attempt.
GiveUp(p) ==
  /\ pc[p] = "open" /\ Leave(p, "idle")
  /\ UNCHANGED <<path, record, made, breakerVars, crashes>>

Release(p) ==
  /\ pc[p] = "held" /\ Leave(p, "idle")
  /\ UNCHANGED <<path, record, made, breakerVars, crashes>>

\* The process dies or a call raises; the system drops its lock.  A write that
\* was cut short leaves the file truncated or a part of the record in it.
Crash(p) ==
  /\ pc[p] # "idle" /\ crashes < MaxCrashes
  /\ crashes' = crashes + 1
  /\ Leave(p, "idle")
  /\ \/ UNCHANGED record
     \/ pc[p] = "write" /\ record' = [record EXCEPT ![fd[p]] = "torn"]
  /\ UNCHANGED <<path, made, breakerVars>>

-----------------------------------------------------------------------------
(* A legacy breaker: it reads the record of a dead owner, renames the path  *)
(* aside and puts it back when the renamed file is not what it had read.    *)

ReadStale(b) ==
  /\ bpc[b] = "watching" /\ path # 0 /\ record[path] = "legacy"
  /\ bpc' = [bpc EXCEPT ![b] = "ready"]
  /\ UNCHANGED <<path, record, flock, made, procVars, aside, crashes>>

MoveAside(b) ==
  /\ bpc[b] = "ready"
  /\ IF path = 0 THEN UNCHANGED <<path, aside>> /\ bpc' = [bpc EXCEPT ![b] = "done"]
     ELSE /\ aside' = [aside EXCEPT ![b] = path] /\ path' = 0
          /\ bpc' = [bpc EXCEPT ![b] = "moved"]
  /\ UNCHANGED <<record, flock, made, procVars, crashes>>

\* An unreadable record makes it fail and leave the renamed file behind.
Settle(b) ==
  /\ bpc[b] = "moved"
  /\ bpc' = [bpc EXCEPT ![b] = "done"]
  /\ \/ /\ record[aside[b]] = "legacy"
        /\ aside' = [aside EXCEPT ![b] = 0] /\ UNCHANGED path
     \/ /\ record[aside[b]] \in Procs
        /\ path' = aside[b] /\ aside' = [aside EXCEPT ![b] = 0]
     \/ record[aside[b]] \in {"empty", "torn"} /\ UNCHANGED <<path, aside>>
  /\ UNCHANGED <<record, flock, made, procVars, crashes>>

-----------------------------------------------------------------------------
Init ==
  /\ path \in {0, 1}
  /\ record \in [Files -> {"empty", "torn", "legacy"}]
  /\ \A f \in Files : f > path => record[f] = "empty"
  /\ made = path
  /\ flock = [f \in Files |-> "none"]
  /\ pc = [p \in Procs |-> "idle"] /\ fd = [p \in Procs |-> 0]
  /\ aside = [b \in Breakers |-> 0] /\ bpc = [b \in Breakers |-> "watching"]
  /\ crashes = 0

Acquire(p) ==
  \/ Begin(p) \/ Open(p) \/ TryLock(p) \/ MatchPath(p) \/ NoBreaker(p)
  \/ ClaimRecord(p) \/ WriteRecord(p) \/ ReadBack(p) \/ GiveUp(p)

Next ==
  \/ \E p \in Procs : Acquire(p) \/ Release(p) \/ Crash(p)
  \/ \E b \in Breakers : ReadStale(b) \/ MoveAside(b) \/ Settle(b)

Spec == Init /\ [][Next]_vars
-----------------------------------------------------------------------------
TypeOK ==
  /\ path \in {0} \union Files
  /\ record \in [Files -> Procs \union {"empty", "torn", "legacy"}]
  /\ flock \in [Files -> Procs \union {"none"}]
  /\ made \in {0} \union Files
  /\ pc \in [Procs -> Steps] /\ fd \in [Procs -> {0} \union Files]
  /\ aside \in [Breakers -> {0} \union Files]
  /\ bpc \in [Breakers -> {"watching", "ready", "moved", "done"}]
  /\ crashes \in Nat

\* Two processes never hold the lock at the same time, however many breakers
\* rename the path back and forth while they acquire it
\* (test_legacy_stale_breaker_cannot_split_current_stable_owners).
SingleOwner == \A p, q \in Procs : pc[p] = "held" /\ pc[q] = "held" => p = q

\* While a process holds the lock its file stays locked and carries its record,
\* whatever contenders and breakers do meanwhile: what assert_held compares.
OwnerRecorded ==
  \A p \in Procs : pc[p] = "held" => flock[fd[p]] = p /\ record[fd[p]] = p

\* A record of another lock protocol, or a damaged one, is refused with its bytes
\* unchanged (_validate_stable_lock_record); it takes an offline migration.
ForeignRecordKept ==
  [][\A f \in Files : record[f] \in {"legacy", "torn"} => record'[f] = record[f]]_vars
=============================================================================
