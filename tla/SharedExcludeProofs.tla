------------------------ MODULE SharedExcludeProofs ------------------------
(***************************************************************************)
(* For any number of projects, homes and bounds, and any first contents of *)
(* the file: who writes info/exclude holds the exclude lock; what a commit,*)
(* a replay or a rollback puts back is the file as it still is with its    *)
(* own block replaced, unless a user's edit fell between its read and its  *)
(* write; the file never holds a block twice; nothing that is foreign to a *)
(* project is changed for it; and each block is what its last operation    *)
(* left.  The second part is about the operators: a file is a sequence, a  *)
(* block a position in it, and replacing it leaves the rest as it was.     *)
(***************************************************************************)
EXTENDS SharedExclude, TLAPS

Unlocked == {"idle", "home"}
Rewriting == {"install", "restore"}

\* Every process has a place, and every holder may have read the file.
Placed ==
  /\ pc = [p \in Projects |-> pc[p]]
  /\ read = [h \in Projects \cup {Initializer} |-> read[h]]

\* Past its lock, a process holds it.
LockHeld ==
  /\ \A p \in Projects : pc[p] \notin Unlocked => elock = p
  /\ init.pc # "idle" => elock = Initializer

\* What a process is about to write back was read from the file as it is.
ReadIsCurrent ==
  \A p \in Projects : pc[p] \in Rewriting => overrun \/ read[p] = file

ExcludeInvariant == Placed /\ LockHeld /\ ReadIsCurrent

\* No process and no reading is under way at first.
LEMMA ExcludeInit == Init => ExcludeInvariant
  <1> SUFFICES ASSUME Init PROVE ExcludeInvariant
    OBVIOUS
  <1>1. pc = [p \in Projects |-> "idle"]
    BY DEF Init
  <1>2. init.pc = "idle"
    BY DEF Init, NotRunning
  <1>3. Placed
    BY <1>1 DEF Init, Placed
  <1> QED BY <1>1, <1>2, <1>3 DEF ExcludeInvariant, LockHeld, ReadIsCurrent, Unlocked, Rewriting

\* A step of p's process that changes neither the file nor csk init.
KeepsFile == file' = file /\ init' = init /\ overrun' = overrun

\* It goes on to a place where it holds the lock; or comes there to rewrite
\* the file it has just read; or ends.
Works(p, step) ==
  /\ KeepsFile /\ Goto(p, step) /\ step \notin Rewriting
  /\ elock \in {p, Nobody} /\ elock' = p
  /\ read' = read
Reads(p, step) ==
  /\ KeepsFile /\ Goto(p, step)
  /\ elock = p /\ elock' = p
  /\ read' = [read EXCEPT ![p] = file]

LEMMA OwnStep ==
  ASSUME ExcludeInvariant, NEW p \in Projects, NEW step,
         Works(p, step) \/ Reads(p, step)
  PROVE  ExcludeInvariant'
  <1> USE DEF ExcludeInvariant, Works, Reads, KeepsFile, Goto
  <1>1. /\ pc'[p] = step
        /\ \A q \in Projects : q # p => pc'[q] = pc[q] /\ read'[q] = read[q]
    BY DEF Placed
  <1>2. Placed'
    BY DEF Placed
  <1>3. LockHeld'
    BY <1>1, HoldersAssumption DEF LockHeld
  <1>4. ReadIsCurrent'
    <2>1. ASSUME NEW q \in Projects, q # p, pc'[q] \in Rewriting
          PROVE  overrun' \/ read'[q] = file'
      BY <1>1, <2>1 DEF ReadIsCurrent
    <2>2. ASSUME pc'[p] \in Rewriting
          PROVE  overrun' \/ read'[p] = file'
      BY <1>1, <2>2 DEF Placed
    <2> QED BY <2>1, <2>2 DEF ReadIsCurrent
  <1> QED BY <1>2, <1>3, <1>4

\* The end of p's process, by itself or by its death.
LEMMA EndStep ==
  ASSUME ExcludeInvariant, NEW p \in Projects, End(p), KeepsFile
  PROVE  ExcludeInvariant'
  <1> USE DEF ExcludeInvariant, KeepsFile, End, Goto
  <1>1. /\ pc'[p] = "idle"
        /\ \A q \in Projects : q # p => pc'[q] = pc[q] /\ read'[q] = read[q]
    BY DEF Placed
  <1>2. Placed'
    BY DEF Placed
  <1>3. elock # p => elock' = elock
    OBVIOUS
  <1>4. LockHeld'
    BY <1>1, <1>3, HoldersAssumption DEF LockHeld, Unlocked
  <1>5. ReadIsCurrent'
    BY <1>1 DEF ReadIsCurrent, Rewriting
  <1> QED BY <1>2, <1>4, <1>5

\* p writes the file: it holds the lock, so nobody else rewrites it.
LEMMA WriteStep ==
  ASSUME ExcludeInvariant, NEW p \in Projects, NEW step, step \notin Rewriting,
         pc[p] \in Rewriting, pc' = [pc EXCEPT ![p] = step],
         read' = [read EXCEPT ![p] = NoFile],
         elock' = elock, init' = init, overrun' = overrun
  PROVE  ExcludeInvariant'
  <1> USE DEF ExcludeInvariant
  <1>1. elock = p
    BY DEF LockHeld, Unlocked, Rewriting
  <1>2. \A q \in Projects : q # p => pc[q] \in Unlocked /\ pc'[q] = pc[q]
    BY <1>1 DEF LockHeld, Placed
  <1>3. pc'[p] = step
    BY DEF Placed
  <1>4. Placed' /\ LockHeld'
    BY <1>1, <1>2, HoldersAssumption DEF Placed, LockHeld
  <1>5. ReadIsCurrent'
    BY <1>2, <1>3 DEF ReadIsCurrent, Unlocked, Rewriting
  <1> QED BY <1>4, <1>5

\* csk init works under the lock; what it does to the file no journal's
\* process has read.
LEMMA InitStep ==
  ASSUME ExcludeInvariant, Ensure \/ InitDies, pc' = pc, overrun' = overrun
  PROVE  ExcludeInvariant'
  <1> USE DEF ExcludeInvariant
  <1>1. \A q \in Projects : q # Initializer
    BY HoldersAssumption
  <1>2. /\ read' = [h \in Projects \cup {Initializer} |-> read'[h]]
        /\ \A q \in Projects : read'[q] = read[q]
    BY <1>1 DEF Placed, Ensure, EnsureLock, EnsurePlan, EnsureCheck, EnsureWrite,
                InitDies, InitEnds
  <1>3. elock \in {Nobody, Initializer}
    BY DEF Ensure, EnsureLock, EnsurePlan, EnsureCheck, EnsureWrite, InitDies, LockHeld
  <1>4. \A q \in Projects : pc'[q] \in Unlocked
    BY <1>1, <1>3, HoldersAssumption DEF LockHeld
  <1>5. init'.pc # "idle" => elock' = Initializer
    BY DEF LockHeld, Ensure, EnsureLock, EnsurePlan, EnsureCheck, EnsureWrite,
           InitDies, InitEnds, NotRunning
  <1> QED
    BY <1>2, <1>4, <1>5 DEF Placed, LockHeld, ReadIsCurrent, Unlocked, Rewriting

\* A user's edit under a read marks it.
LEMMA EditStep == ExcludeInvariant /\ Edit => ExcludeInvariant'
  <1> SUFFICES ASSUME ExcludeInvariant, Edit PROVE ExcludeInvariant'
    OBVIOUS
  <1>1. pc' = pc /\ read' = read /\ elock' = elock /\ init' = init
    BY DEF Edit
  <1>2. overrun' \/ \A p \in Projects : pc[p] \notin Rewriting
    BY DEF Edit, Rewriting
  <1> QED BY <1>1, <1>2 DEF ExcludeInvariant, Placed, LockHeld, ReadIsCurrent

\* A step that changes none of the variables the invariant is about.
LEMMA Idling ==
  ASSUME ExcludeInvariant, UNCHANGED <<file, elock, pc, read, init, overrun>>
  PROVE  ExcludeInvariant'
  BY DEF ExcludeInvariant, Placed, LockHeld, ReadIsCurrent

\* No step of a home's process breaks the invariant.
LEMMA RunStep ==
  ASSUME ExcludeInvariant, NEW p \in Projects, Run(p)
  PROVE  ExcludeInvariant'
  <1>0. pc[p] \notin Unlocked => elock = p
    BY DEF ExcludeInvariant, LockHeld
  <1>1. CASE LockTimeout(p)
    BY <1>1, EndStep DEF LockTimeout, KeepsFile, ghosts
  <1>2. CASE LockToRecover(p)
    <2>1. Works(p, "recover")
      BY <1>2 DEF LockToRecover, Works, KeepsFile, ghosts, Goto, Rewriting, Unlocked
    <2> QED BY <2>1, OwnStep
  <1>3. CASE RecoverRefused(p)
    BY <1>3, EndStep DEF RecoverRefused, KeepsFile, ghosts
  <1>4. CASE Recover(p)
    <2>1. \E step \in {"finish", "apply", "undo"} : Works(p, step)
      BY <1>4, <1>0 DEF Recover, GiveUp, Works, KeepsFile, ghosts, Goto, Rewriting, Unlocked
    <2> QED BY <2>1, OwnStep
  <1>5. CASE LockToPlan(p)
    <2>1. Works(p, "plan")
      BY <1>5 DEF LockToPlan, Works, KeepsFile, ghosts, Goto, Rewriting, Unlocked
    <2> QED BY <2>1, OwnStep
  <1>6. CASE Plan(p)
    <2>1. End(p) \/ Works(p, "prepare")
      BY <1>6, <1>0 DEF Plan, Works, KeepsFile, ghosts, Goto, Rewriting, Unlocked
    <2> QED BY <2>1, <1>6, OwnStep, EndStep DEF Plan, KeepsFile, ghosts
  <1>7. CASE Prepare(p)
    <2>1. End(p) \/ Works(p, "prepared")
      BY <1>7, <1>0 DEF Prepare, Works, KeepsFile, ghosts, Goto, Rewriting, Unlocked
    <2> QED BY <2>1, <1>7, OwnStep, EndStep DEF Prepare, KeepsFile, ghosts
  <1>8. CASE Prepared(p)
    <2>1. Works(p, "apply")
      BY <1>8, <1>0 DEF Prepared, Works, KeepsFile, ghosts, Goto, Rewriting, Unlocked
    <2> QED BY <2>1, OwnStep
  <1>9. CASE BackUp(p)
    <2>1. UNCHANGED <<file, elock, pc, read, init, overrun>> \/ Works(p, "undo")
      BY <1>9, <1>0 DEF BackUp, GiveUp, Works, KeepsFile, ghosts, Goto, Rewriting, Unlocked
    <2> QED BY <2>1, Idling, OwnStep
  <1>10. CASE ReadToInstall(p)
    <2>1. Reads(p, "install") \/ \E step \in {"installed", "undo"} : Works(p, step)
      <3> DEFINE block == Block(file, p)
                 same == block = journal[p].new
                 old == block # journal[p].new /\ block = journal[p].old
      <3>1. CASE same
        BY <3>1, <1>10, <1>0
        DEF ReadToInstall, Works, KeepsFile, ghosts, Goto, Rewriting, Unlocked
      <3>2. CASE old
        BY <3>2, <1>10, <1>0 DEF ReadToInstall, Reads, KeepsFile, ghosts, Unlocked
      <3>3. CASE ~same /\ ~old
        BY <3>3, <1>10, <1>0
        DEF ReadToInstall, GiveUp, Works, KeepsFile, ghosts, Goto, Rewriting, Unlocked
      <3> QED BY <3>1, <3>2, <3>3
    <2> QED BY <2>1, OwnStep
  <1>11. CASE WriteInstalled(p)
    BY <1>11, WriteStep DEF WriteInstalled, Goto, ghosts, Rewriting
  <1>12. CASE SaveInstalled(p)
    <2>1. \E step \in {"others", "undo"} : Works(p, step)
      BY <1>12, <1>0 DEF SaveInstalled, Works, KeepsFile, ghosts, Goto, Rewriting, Unlocked
    <2> QED BY <2>1, OwnStep
  <1>13. CASE CommitOthers(p)
    <2>1. Works(p, "finish")
      BY <1>13, <1>0 DEF CommitOthers, Works, KeepsFile, ghosts, Goto, Rewriting, Unlocked
    <2> QED BY <2>1, OwnStep
  <1>14. CASE OthersFail(p)
    <2>1. Works(p, "undo")
      BY <1>14, <1>0 DEF OthersFail, GiveUp, Works, KeepsFile, ghosts, Goto, Rewriting, Unlocked
    <2> QED BY <2>1, OwnStep
  <1>15. CASE RestoreRefused(p)
    BY <1>15, EndStep DEF RestoreRefused, KeepsFile, ghosts
  <1>16. CASE ReadToRestore(p)
    <2>1. \/ UNCHANGED <<file, elock, pc, read, init, overrun>>
          \/ Works(p, "finish") \/ Reads(p, "restore")
      BY <1>16, <1>0
      DEF ReadToRestore, Works, Reads, KeepsFile, ghosts, Goto, Rewriting, Unlocked
    <2> QED BY <2>1, Idling, OwnStep
  <1>17. CASE WriteRestored(p)
    BY <1>17, WriteStep DEF WriteRestored, Goto, ghosts, Rewriting
  <1>18. CASE SaveRestored(p)
    <2>1. Works(p, "undo")
      BY <1>18, <1>0 DEF SaveRestored, Works, KeepsFile, ghosts, Goto, Rewriting, Unlocked
    <2> QED BY <2>1, OwnStep
  <1>19. CASE Finish(p)
    BY <1>19, EndStep DEF Finish, KeepsFile, ghosts
  <1> QED
    BY <1>1, <1>2, <1>3, <1>4, <1>5, <1>6, <1>7, <1>8, <1>9, <1>10, <1>11,
       <1>12, <1>13, <1>14, <1>15, <1>16, <1>17, <1>18, <1>19 DEF Run

\* No step breaks the invariant.
LEMMA ExcludeStep == ExcludeInvariant /\ [Next]_vars => ExcludeInvariant'
  <1> SUFFICES ASSUME ExcludeInvariant, [Next]_vars PROVE ExcludeInvariant'
    OBVIOUS
  <1>1. ASSUME NEW p \in Projects, Begin(p) PROVE ExcludeInvariant'
    <2>1. KeepsFile /\ elock' = elock /\ read' = read /\ pc' = [pc EXCEPT ![p] = "home"]
      BY <1>1 DEF Begin, Goto, KeepsFile, ghosts
    <2>2. Placed'
      BY <2>1 DEF ExcludeInvariant, Placed
    <2> QED
      BY <2>1, <2>2 DEF ExcludeInvariant, KeepsFile, Placed, LockHeld, ReadIsCurrent,
                        Unlocked, Rewriting
  <1>2. ASSUME NEW p \in Projects, Run(p) PROVE ExcludeInvariant'
    BY <1>2, RunStep
  <1>3. ASSUME NEW p \in Projects, Crash(p) PROVE ExcludeInvariant'
    BY <1>3, EndStep DEF Crash, KeepsFile, ghosts
  <1>4. ASSUME Ensure \/ InitDies PROVE ExcludeInvariant'
    <2>1. pc' = pc /\ overrun' = overrun
      BY <1>4 DEF Ensure, EnsureLock, EnsurePlan, EnsureCheck, EnsureWrite, InitDies, ghosts
    <2> QED BY <2>1, <1>4, InitStep
  <1>5. ASSUME UNCHANGED vars PROVE ExcludeInvariant'
    BY <1>5, Idling DEF vars
  <1> QED BY <1>1, <1>2, <1>3, <1>4, <1>5, EditStep DEF Next

\* The invariant holds of every run.
LEMMA ExcludeInvariantHolds == Spec => []ExcludeInvariant
  BY ExcludeInit, ExcludeStep, PTL DEF Spec

\* Whoever reads, writes, commits, replays or rolls back a block in the shared
\* file holds its lock - csk init and the processes of any number of homes.
THEOREM OneWriter == Spec => []LockHeld
  <1>1. ExcludeInvariant => LockHeld
    BY DEF ExcludeInvariant
  <1> QED BY <1>1, ExcludeInvariantHolds, PTL

\* A write by a journal, of a commit or a rollback.
WritesCurrentFile ==
  \A p \in Projects :
    /\ WriteInstalled(p) => overrun \/ file' = Replace(file, p, journal[p].new)
    /\ WriteRestored(p) => overrun \/ file' = Restore(file, p, journal[p])

\* No update is lost: what a commit or a rollback writes is made from the file
\* as it is at that moment, whatever the other homes and csk init wrote since
\* the journal was prepared; only an edit of the user in between is not seen.
THEOREM NoUpdateLost == Spec => [][WritesCurrentFile]_vars
  <1>1. ExcludeInvariant /\ [Next]_vars => [WritesCurrentFile]_vars
    BY DEF ExcludeInvariant, ReadIsCurrent, Rewriting, WritesCurrentFile,
           WriteInstalled, WriteRestored
  <1> QED BY <1>1, ExcludeInvariantHolds, PTL DEF Spec

-----------------------------------------------------------------------------
(* Segments and blocks: which block a project has depends on no order.     *)

LEMMA BlockShape ==
  ASSUME NEW p \in Projects, NEW c
  PROVE  /\ BlockOf(p, c) \notin Lines /\ Owns(p, BlockOf(p, c))
         /\ BlockOf(p, c).text = c
         /\ \A q : Owns(q, BlockOf(p, c)) => q = p
  <1>1. BlockOf(p, c) \notin Lines
    <2>1. ASSUME NEW l, NEW e PROVE LineOf(l, e) # BlockOf(p, c)
      <3>1. DOMAIN LineOf(l, e) = {"line", "ended"}
        BY DEF LineOf
      <3>2. DOMAIN BlockOf(p, c) = {"owner", "text"}
        BY DEF BlockOf
      <3> QED BY <3>1, <3>2
    <2> QED BY <2>1 DEF Lines
  <1>2. BlockOf(p, c).owner = p /\ BlockOf(p, c).text = c
    BY DEF BlockOf
  <1> QED BY <1>1, <1>2 DEF Owns

LEMMA LineShape ==
  ASSUME NEW s \in Lines, NEW e \in BOOLEAN
  PROVE  /\ [s EXCEPT !.ended = e] \in Lines /\ [s EXCEPT !.ended = e].line = s.line
         /\ [s EXCEPT !.ended = e].ended = e
         /\ \A q : ~Owns(q, s)
  BY DEF Lines, LineOf, Owns

\* A segment that p owns is a block of p.
LEMMA OwnedShape ==
  ASSUME NEW s \in Segments, NEW p \in Projects, Owns(p, s)
  PROVE  s.text \in Contents /\ s = BlockOf(p, s.text)
  <1>1. PICK q \in Projects, c \in Contents : s = BlockOf(q, c)
    BY DEF Owns, Segments
  <1>2. q = p /\ s.text = c
    BY <1>1, BlockShape
  <1> QED BY <1>1, <1>2

Holds(f, p, c) == \E i \in DOMAIN Data(f) : Data(f)[i] = BlockOf(p, c)

LEMMA DataTyped ==
  ASSUME NEW f \in Files
  PROVE  /\ Data(f) \in Seq(Segments) /\ Data(Data(f)) = Data(f)
         /\ \A p : Span(f, p) \subseteq 1..Len(Data(f))
         /\ \A i \in DOMAIN Data(f) : Data(f)[i] \in Segments
  BY FilesAssumption DEF Data, Files, Span

\* The block of a project is the one the file holds somewhere.
LEMMA BlockIsHeld ==
  ASSUME NEW f \in Files, OneBlockEach(f), NEW p \in Projects
  PROVE  /\ Block(f, p) \in Blocks
         /\ Span(f, p) = {} <=> Block(f, p) = NoBlock
         /\ \A c \in Contents : Holds(f, p, c) <=> Block(f, p) = c
  <1>1. ASSUME NEW c \in Contents, NEW i \in DOMAIN Data(f), Data(f)[i] = BlockOf(p, c)
        PROVE  i \in Span(f, p)
    BY <1>1, BlockShape DEF Span
  <1>2. CASE Span(f, p) = {}
    <2>1. Block(f, p) = NoBlock
      BY <1>2 DEF Block
    <2> QED BY <1>1, <1>2, <2>1, BlocksAssumption DEF Holds, Blocks
  <1>3. CASE Span(f, p) # {}
    <2>1. PICK i \in Span(f, p) : TRUE
      BY <1>3
    <2>2. Span(f, p) = {i}
      BY <2>1 DEF OneBlockEach
    <2>3. Block(f, p) = Data(f)[i].text
      BY <2>2 DEF Block
    <2>4. /\ Data(f)[i] \in Segments /\ Owns(p, Data(f)[i]) /\ i \in DOMAIN Data(f)
      BY <2>1, DataTyped DEF Span
    <2>5. Data(f)[i].text \in Contents /\ Data(f)[i] = BlockOf(p, Data(f)[i].text)
      BY <2>4, OwnedShape
    <2>6. ASSUME NEW c \in Contents, Holds(f, p, c) PROVE c = Data(f)[i].text
      <3>1. PICK k \in DOMAIN Data(f) : Data(f)[k] = BlockOf(p, c)
        BY <2>6 DEF Holds
      <3>2. k = i
        BY <1>1, <2>2, <2>6, <3>1
      <3> QED BY <3>1, <3>2, BlockShape
    <2>7. Holds(f, p, Data(f)[i].text)
      BY <2>4, <2>5 DEF Holds
    <2> QED BY <1>3, <2>3, <2>5, <2>6, <2>7, BlocksAssumption DEF Blocks
  <1> QED BY <1>2, <1>3

\* Two files that hold the same blocks of p have the same block of p.
LEMMA SameBlock ==
  ASSUME NEW f \in Files, NEW g \in Files, OneBlockEach(f), OneBlockEach(g),
         NEW p \in Projects, \A c \in Contents : Holds(f, p, c) <=> Holds(g, p, c)
  PROVE  Block(g, p) = Block(f, p) /\ (Span(g, p) = {} <=> Span(f, p) = {})
  <1>1. /\ Block(f, p) \in Contents \cup {NoBlock} /\ Block(g, p) \in Contents \cup {NoBlock}
        /\ \A c \in Contents : Block(f, p) = c <=> Block(g, p) = c
    BY BlockIsHeld DEF Blocks
  <1>2. Block(f, p) = Block(g, p)
    BY <1>1, BlocksAssumption
  <1> QED BY <1>2, BlockIsHeld

\* g is f but for the block of p, which is c in g.
Replaced(f, g, p, c) ==
  /\ g \in Seq(Segments) /\ g \in Files /\ Data(g) = g /\ OneBlockEach(g)
  /\ Block(g, p) = c /\ Without(g, p) = Without(f, p)
  /\ \A q \in Projects \ {p} : Block(g, q) = Block(f, q)

\* Cutting and joining sequences.
LEMMA Joined ==
  ASSUME NEW S, NEW a \in Seq(S), NEW b \in Seq(S)
  PROVE  a \o b \in Seq(S) /\ Len(a \o b) = Len(a) + Len(b)
  OBVIOUS

LEMMA JoinedToNothing ==
  ASSUME NEW S, NEW a \in Seq(S)
  PROVE  <<>> \o a = a /\ a \o <<>> = a
  OBVIOUS

\* Without its block the file is shorter by one segment, the others in order.
LEMMA WithoutShape ==
  ASSUME NEW f \in Files, OneBlockEach(f), NEW p \in Projects,
         NEW i \in Span(f, p)
  PROVE  LET d == Data(f)
             r == Without(f, p)
         IN  /\ i \in 1..Len(d) /\ r \in Seq(Segments) /\ Len(r) = Len(d) - 1
             /\ \A k \in 1..Len(r) : r[k] = IF k < i THEN d[k] ELSE d[k + 1]
  <1> DEFINE d == Data(f)
  <1>1. d \in Seq(Segments) /\ i \in 1..Len(d)
    BY DataTyped
  <1>2. Span(f, p) = {i}
    BY DEF OneBlockEach
  <1>3. Without(f, p) = SubSeq(d, 1, i - 1) \o SubSeq(d, i + 1, Len(d))
    BY <1>2 DEF Without, RemoveAt
  <1> HIDE DEF d
  <1> DEFINE a == SubSeq(d, 1, i - 1)
             b == SubSeq(d, i + 1, Len(d))
  <1>4. /\ a \in Seq(Segments) /\ Len(a) = i - 1
        /\ \A k \in 1..(i - 1) : a[k] = d[k]
    BY <1>1
  <1>5. /\ b \in Seq(Segments) /\ Len(b) = Len(d) - i
        /\ \A k \in 1..(Len(d) - i) : b[k] = d[i + k]
    BY <1>1
  <1> HIDE DEF a, b
  <1>6. a \o b \in Seq(Segments) /\ Len(a \o b) = Len(d) - 1
    <2>1. a \o b \in Seq(Segments) /\ Len(a \o b) = Len(a) + Len(b)
      BY <1>4, <1>5, Joined
    <2>2. Len(d) \in Nat
      BY <1>1
    <2> QED BY <1>1, <1>4, <1>5, <2>1, <2>2
  <1>7. ASSUME NEW k \in 1..(Len(d) - 1)
        PROVE  (a \o b)[k] = IF k < i THEN d[k] ELSE d[k + 1]
    <2>1. CASE k < i
      BY <1>1, <1>4, <1>5, <2>1
    <2>2. CASE ~(k < i)
      <3>1. k - (i - 1) \in 1..(Len(d) - i) /\ i + (k - (i - 1)) = k + 1
        BY <1>1, <2>2
      <3>2. (a \o b)[k] = b[k - (i - 1)]
        BY <1>1, <1>4, <1>5, <2>2, <3>1
      <3> QED BY <1>5, <2>2, <3>1, <3>2
    <2> QED BY <2>1, <2>2
  <1> QED BY <1>1, <1>3, <1>6, <1>7 DEF a, b, d

LEMMA DataOfSeq ==
  ASSUME NEW g \in Seq(Segments)
  PROVE  g \in Files /\ Data(g) = g
  BY FilesAssumption DEF Files, Data

LEMMA Removed ==
  ASSUME NEW f \in Files, OneBlockEach(f), NEW p \in Projects
  PROVE  Replaced(f, Without(f, p), p, NoBlock)
  <1>1. CASE Span(f, p) = {}
    <2>1. Without(f, p) = Data(f) /\ Data(f) \in Seq(Segments)
      BY <1>1, DataTyped DEF Without
    <2>2. \A q \in Projects :
            Span(Data(f), q) = Span(f, q) /\ Block(Data(f), q) = Block(f, q)
      <3>1. \A q : Span(Data(f), q) = Span(f, q)
        BY DataTyped DEF Span
      <3>2. ASSUME NEW q \in Projects PROVE Block(Data(f), q) = Block(f, q)
        <4>1. Data(Data(f)) = Data(f) /\ Span(Data(f), q) = Span(f, q)
          BY <3>1, DataTyped
        <4>2. CASE Span(f, q) = {}
          BY <4>1, <4>2 DEF Block
        <4>3. CASE Span(f, q) # {}
          <5>1. PICK i : Span(f, q) = {i}
            BY <4>3 DEF OneBlockEach
          <5> QED BY <4>1, <5>1 DEF Block
        <4> QED BY <4>2, <4>3
      <3> QED BY <3>1, <3>2
    <2>3. Without(Data(f), p) = Without(f, p)
      BY <2>1, <2>2, DataTyped, <1>1 DEF Without
    <2>4. Block(f, p) = NoBlock
      BY <1>1 DEF Block
    <2> QED BY <2>1, <2>2, <2>3, <2>4, DataOfSeq DEF Replaced, OneBlockEach
  <1>2. CASE Span(f, p) # {}
    <2>1. PICK i \in Span(f, p) : TRUE
      BY <1>2
    <2> DEFINE d == Data(f)
               r == Without(f, p)
    <2>2. Span(f, p) = {i}
      BY <2>1 DEF OneBlockEach
    <2>3. /\ i \in 1..Len(d) /\ r \in Seq(Segments) /\ Len(r) = Len(d) - 1
          /\ \A k \in 1..Len(r) : r[k] = IF k < i THEN d[k] ELSE d[k + 1]
      BY <2>1, WithoutShape
    <2>4. r \in Files /\ Data(r) = r /\ d \in Seq(Segments)
      BY <2>3, DataOfSeq, DataTyped
    <2> HIDE DEF r
    <2>5. ASSUME NEW q \in Projects, NEW k \in Span(r, q)
          PROVE  /\ k \in 1..Len(r)
                 /\ k < i => k \in Span(f, q)
                 /\ k >= i => k + 1 \in Span(f, q)
      <3>1. k \in 1..Len(r) /\ Owns(q, r[k])
        BY <2>4, <2>5 DEF Span
      <3>2. DOMAIN d = 1..Len(d)
        BY <2>4
      <3>3. k < i => k \in DOMAIN d /\ r[k] = d[k]
        BY <2>3, <2>4, <3>1, <3>2
      <3>4. k >= i => k + 1 \in DOMAIN d /\ r[k] = d[k + 1]
        BY <2>3, <2>4, <3>1, <3>2
      <3> QED BY <3>1, <3>3, <3>4 DEF Span
    <2>6. Span(r, p) = {}
      <3>1. ASSUME NEW k \in Span(r, p) PROVE FALSE
        <4>1. k \in Int /\ i \in Int
          BY <2>3, <2>4, <2>5, <3>1
        <4>2. k < i \/ k >= i
          BY <4>1
        <4> QED BY <2>2, <2>5, <3>1, <4>1, <4>2
      <3> QED BY <3>1
    <2>7. OneBlockEach(r)
      <3>1. ASSUME NEW q \in Projects, NEW k \in Span(r, q), NEW l \in Span(r, q)
            PROVE  k = l
        <4>1. k \in Int /\ l \in Int /\ i \in Int
          BY <2>3, <2>4, <2>5, <3>1
        <4>2. \A a, b \in Span(f, q) : a = b
          BY DEF OneBlockEach
        <4>3. /\ k < i => k \in Span(f, q)
              /\ k >= i => k + 1 \in Span(f, q)
              /\ l < i => l \in Span(f, q)
              /\ l >= i => l + 1 \in Span(f, q)
          BY <2>5, <3>1
        <4> QED BY <4>1, <4>2, <4>3
      <3> QED BY <3>1 DEF OneBlockEach
    <2>8. ASSUME NEW q \in Projects \ {p}, NEW c \in Contents
          PROVE  Holds(r, q, c) <=> Holds(f, q, c)
      <3>1. ASSUME NEW k \in DOMAIN Data(r), Data(r)[k] = BlockOf(q, c)
            PROVE  Holds(f, q, c)
        <4>1. k \in 1..Len(r) /\ r[k] = BlockOf(q, c)
          BY <2>4, <3>1
        <4>2. \/ k \in DOMAIN d /\ d[k] = BlockOf(q, c)
              \/ k + 1 \in DOMAIN d /\ d[k + 1] = BlockOf(q, c)
          BY <2>3, <2>4, <4>1
        <4> QED BY <4>2 DEF Holds
      <3>2. ASSUME NEW k \in DOMAIN d, d[k] = BlockOf(q, c)
            PROVE  Holds(r, q, c)
        <4>1. k # i
          <5>1. Owns(p, d[i])
            BY <2>1 DEF Span
          <5> QED BY <3>2, <5>1, BlockShape
        <4>2. CASE k < i
          <5>1. k \in 1..Len(r) /\ r[k] = d[k]
            BY <2>3, <2>4, <4>2
          <5> QED BY <2>4, <3>2, <5>1 DEF Holds
        <4>3. CASE k > i
          <5>1. k - 1 \in 1..Len(r) /\ ~(k - 1 < i) /\ (k - 1) + 1 = k
            BY <2>3, <2>4, <4>3
          <5>2. r[k - 1] = d[k]
            BY <2>3, <5>1
          <5> QED BY <2>4, <3>2, <5>1, <5>2 DEF Holds
        <4>4. k \in Int /\ i \in Int
          BY <2>3, <2>4
        <4> QED BY <4>1, <4>2, <4>3, <4>4
      <3> QED BY <3>1, <3>2 DEF Holds
    <2>9. \A q \in Projects \ {p} : Block(r, q) = Block(f, q)
      BY <2>4, <2>7, <2>8, SameBlock
    <2>10. Block(r, p) = NoBlock /\ Without(r, p) = r
      BY <2>4, <2>6 DEF Block, Without
    <2> QED BY <2>3, <2>4, <2>7, <2>9, <2>10 DEF Replaced, r
  <1> QED BY <1>1, <1>2

\* A block that is put in is the only one of its project, and taking it out
\* again leaves what the file was without a block.
LEMMA PutIn ==
  ASSUME NEW f \in Files, OneBlockEach(f), NEW p \in Projects, NEW c \in Contents,
         Span(f, p) = {}, NEW g,
         \/ g = <<BlockOf(p, c)>> \o Data(f)
         \/ g = Data(f) \o <<BlockOf(p, c)>>
  PROVE  Replaced(f, g, p, c)
  <1> DEFINE d == Data(f)
             new == BlockOf(p, c)
  <1>1. /\ d \in Seq(Segments) /\ new \in Segments /\ Owns(p, new)
        /\ \A q : Owns(q, new) => q = p
    BY DataTyped, BlockShape DEF Segments
  <1>2. Without(f, p) = d
    BY DEF Without
  <1> HIDE DEF new, d
  <1>3. PICK at \in {1, Len(d) + 1} :
          /\ g \in Seq(Segments) /\ Len(g) = Len(d) + 1 /\ g[at] = new
          /\ RemoveAt(g, at) = d
          /\ \A k \in 1..Len(d) : g[IF at = 1 THEN k + 1 ELSE k] = d[k]
          /\ \A k \in 1..Len(g) :
               k # at => /\ (IF at = 1 THEN k - 1 ELSE k) \in 1..Len(d)
                         /\ g[k] = d[IF at = 1 THEN k - 1 ELSE k]
    <2>1. CASE g = <<new>> \o d
      <3>1. /\ g \in Seq(Segments) /\ Len(g) = Len(d) + 1 /\ g[1] = new
            /\ \A k \in 1..Len(d) : g[k + 1] = d[k]
        BY <1>1, <2>1
      <3>2. \A k \in 1..Len(g) : k # 1 => k - 1 \in 1..Len(d) /\ g[k] = d[k - 1]
        BY <1>1, <3>1
      <3>3. RemoveAt(g, 1) = d
        <4>1. RemoveAt(g, 1) = SubSeq(g, 1, 0) \o SubSeq(g, 2, Len(g))
          BY DEF RemoveAt
        <4>2. SubSeq(g, 1, 0) = <<>>
          BY <3>1
        <4>3. SubSeq(g, 2, Len(g)) = d
          <5> DEFINE t == SubSeq(g, 2, Len(g))
          <5>1. t \in Seq(Segments) /\ Len(t) = Len(d)
            BY <1>1, <3>1
          <5>2. \A k \in 1..Len(d) : t[k] = g[k + 1]
            BY <1>1, <3>1
          <5> HIDE DEF t
          <5>3. t = d
            BY <1>1, <3>1, <5>1, <5>2
          <5> QED BY <5>3 DEF t
        <4> QED BY <1>1, <4>1, <4>2, <4>3, JoinedToNothing
      <3> QED BY <1>1, <3>1, <3>2, <3>3
    <2>2. CASE g = d \o <<new>>
      <3>1. /\ g \in Seq(Segments) /\ Len(g) = Len(d) + 1 /\ g[Len(d) + 1] = new
            /\ \A k \in 1..Len(d) : g[k] = d[k]
        BY <1>1, <2>2
      <3>2. \A k \in 1..Len(g) : k # Len(d) + 1 => k \in 1..Len(d) /\ g[k] = d[k]
        BY <1>1, <3>1
      <3>3. RemoveAt(g, Len(d) + 1) = d
        <4>1. RemoveAt(g, Len(d) + 1)
                = SubSeq(g, 1, Len(d)) \o SubSeq(g, Len(d) + 2, Len(d) + 1)
          BY <1>1, <3>1 DEF RemoveAt
        <4>2. SubSeq(g, Len(d) + 2, Len(d) + 1) = <<>>
          BY <1>1, <3>1
        <4>3. SubSeq(g, 1, Len(d)) = d
          <5> DEFINE t == SubSeq(g, 1, Len(d))
          <5>1. t \in Seq(Segments) /\ Len(t) = Len(d)
            BY <1>1, <3>1
          <5>2. \A k \in 1..Len(d) : t[k] = g[k]
            BY <1>1, <3>1
          <5> HIDE DEF t
          <5>3. t = d
            BY <1>1, <3>1, <5>1, <5>2
          <5> QED BY <5>3 DEF t
        <4> QED BY <1>1, <4>1, <4>2, <4>3, JoinedToNothing
      <3>4. Len(d) = 0 => \A k \in 1..Len(d) : FALSE
        BY <1>1
      <3> QED BY <1>1, <3>1, <3>2, <3>3, <3>4
    <2> QED BY <2>1, <2>2 DEF d, new
  <1>4. g \in Files /\ Data(g) = g /\ at \in 1..Len(g)
    BY <1>1, <1>3, DataOfSeq
  <1>5. ASSUME NEW q \in Projects, NEW k \in Span(g, q)
        PROVE  /\ k \in 1..Len(g)
               /\ k = at => q = p
               /\ k # at => /\ (IF at = 1 THEN k - 1 ELSE k) \in Span(f, q)
                            /\ q # p
    <2>1. k \in 1..Len(g) /\ Owns(q, g[k])
      BY <1>3, <1>4, <1>5 DEF Span
    <2>2. k = at => q = p
      BY <1>1, <1>3, <2>1
    <2>3. ASSUME k # at PROVE (IF at = 1 THEN k - 1 ELSE k) \in Span(f, q)
      BY <1>1, <1>3, <2>1, <2>3 DEF Span, d
    <2> QED BY <2>1, <2>2, <2>3
  <1>6. Span(g, p) = {at}
    <2>1. at \in Span(g, p)
      BY <1>1, <1>3, <1>4 DEF Span
    <2> QED BY <1>5, <2>1
  <1>7. OneBlockEach(g)
    <2>1. ASSUME NEW q \in Projects, NEW k \in Span(g, q), NEW l \in Span(g, q)
          PROVE  k = l
      <3>1. CASE q = p
        BY <1>6, <2>1, <3>1
      <3>2. CASE q # p
        <4>1. k # at /\ l # at /\ k \in Int /\ l \in Int
          BY <1>3, <1>5, <2>1, <3>2
        <4>2. \A a, b \in Span(f, q) : a = b
          BY DEF OneBlockEach
        <4> QED BY <1>5, <2>1, <4>1, <4>2
      <3> QED BY <3>1, <3>2
    <2> QED BY <2>1 DEF OneBlockEach
  <1>8. ASSUME NEW q \in Projects \ {p}, NEW e \in Contents
        PROVE  Holds(g, q, e) <=> Holds(f, q, e)
    <2>1. ASSUME NEW k \in DOMAIN Data(g), Data(g)[k] = BlockOf(q, e)
          PROVE  Holds(f, q, e)
      <3>1. k \in 1..Len(g) /\ g[k] = BlockOf(q, e)
        BY <1>3, <1>4, <2>1
      <3>2. k # at
        BY <1>1, <1>3, <3>1, BlockShape
      <3>3. PICK l \in 1..Len(d) : g[k] = d[l]
        BY <1>3, <3>1, <3>2
      <3>4. l \in DOMAIN d /\ d[l] = BlockOf(q, e)
        BY <1>1, <3>1, <3>3
      <3> QED BY <3>4 DEF Holds, d
    <2>2. ASSUME NEW k \in DOMAIN d, d[k] = BlockOf(q, e)
          PROVE  Holds(g, q, e)
      <3>1. k \in 1..Len(d)
        BY <1>1
      <3>2. PICK l \in 1..Len(g) : g[l] = d[k]
        <4> DEFINE l == IF at = 1 THEN k + 1 ELSE k
        <4>1. g[l] = d[k]
          BY <1>3, <3>1
        <4>2. l \in 1..Len(g)
          BY <1>1, <1>3, <3>1
        <4> QED BY <4>1, <4>2
      <3>3. l \in DOMAIN Data(g) /\ Data(g)[l] = BlockOf(q, e)
        BY <1>3, <1>4, <2>2, <3>2
      <3> QED BY <3>3 DEF Holds
    <2> QED BY <2>1, <2>2 DEF Holds, d
  <1>9. \A q \in Projects \ {p} : Block(g, q) = Block(f, q)
    BY <1>4, <1>7, <1>8, SameBlock
  <1>10. Block(g, p) = c
    BY <1>3, <1>4, <1>6, BlockShape DEF Block, new
  <1>11. Without(g, p) = d
    BY <1>3, <1>4, <1>6 DEF Without
  <1> QED BY <1>2, <1>3, <1>4, <1>7, <1>9, <1>10, <1>11 DEF Replaced

\* A block that takes the place of the one before it.
LEMMA InPlace ==
  ASSUME NEW f \in Files, OneBlockEach(f), NEW p \in Projects, NEW c \in Contents,
         Span(f, p) # {}, NEW g,
         g = [i \in DOMAIN Data(f) |-> IF i \in Span(f, p) THEN BlockOf(p, c)
                                       ELSE Data(f)[i]]
  PROVE  Replaced(f, g, p, c)
  <1> DEFINE d == Data(f)
             new == BlockOf(p, c)
  <1>1. /\ d \in Seq(Segments) /\ new \in Segments /\ Owns(p, new)
        /\ \A q : Owns(q, new) => q = p
    BY DataTyped, BlockShape DEF Segments
  <1>2. PICK i : Span(f, p) = {i} /\ i \in 1..Len(d)
    BY DataTyped DEF OneBlockEach
  <1> HIDE DEF new, d
  <1>3. /\ g \in Seq(Segments) /\ Len(g) = Len(d) /\ g[i] = new
        /\ DOMAIN g = 1..Len(d) /\ DOMAIN d = 1..Len(d)
        /\ \A k \in 1..Len(d) : k # i => g[k] = d[k]
    <2>1. g = [k \in 1..Len(d) |-> IF k = i THEN new ELSE d[k]]
      BY <1>1, <1>2 DEF d, new
    <2> QED BY <1>1, <1>2, <2>1
  <1>4. g \in Files /\ Data(g) = g
    BY <1>3, DataOfSeq
  <1>5. ASSUME NEW q \in Projects PROVE Span(g, q) = Span(f, q)
    <2>1. Owns(p, d[i]) /\ i \in DOMAIN d
      BY <1>2 DEF Span, d
    <2>2. CASE q = p
      <3>1. ASSUME NEW k \in Span(g, p) PROVE k = i
        <4>1. k \in 1..Len(d) /\ Owns(p, g[k])
          BY <1>3, <1>4, <3>1 DEF Span
        <4>2. k # i => k \in Span(f, p)
          BY <1>3, <4>1 DEF Span, d
        <4> QED BY <1>2, <4>2
      <3>2. i \in Span(g, p)
        BY <1>1, <1>2, <1>3, <1>4 DEF Span
      <3> QED BY <1>2, <2>2, <3>1, <3>2
    <2>3. CASE q # p
      <3>1. ~Owns(q, g[i])
        BY <1>1, <1>3, <2>3
      <3>2. ~Owns(q, d[i])
        <4>1. d[i] \in Segments
          BY <1>1, <1>2
        <4>2. d[i] = BlockOf(p, d[i].text)
          BY <2>1, <4>1, OwnedShape
        <4> QED BY <2>3, <4>2, BlockShape
      <3>3. \A k \in 1..Len(d) : Owns(q, g[k]) <=> Owns(q, d[k])
        BY <1>3, <3>1, <3>2
      <3>4. Span(g, q) = {k \in 1..Len(d) : Owns(q, g[k])}
        BY <1>3, <1>4 DEF Span
      <3>5. Span(f, q) = {k \in 1..Len(d) : Owns(q, d[k])}
        BY <1>3 DEF Span, d
      <3> QED BY <3>3, <3>4, <3>5
    <2> QED BY <2>2, <2>3
  <1>6. OneBlockEach(g)
    BY <1>5 DEF OneBlockEach
  <1>7. ASSUME NEW q \in Projects \ {p} PROVE Block(g, q) = Block(f, q)
    <2>1. CASE Span(f, q) = {}
      BY <1>5, <2>1 DEF Block
    <2>2. CASE Span(f, q) # {}
      <3>1. PICK k : Span(f, q) = {k} /\ k \in 1..Len(d)
        BY <2>2, DataTyped DEF OneBlockEach, d
      <3>2. k # i
        <4>1. Owns(q, d[k]) /\ Owns(p, d[i]) /\ d[k] \in Segments /\ d[i] \in Segments
          BY <1>1, <1>2, <3>1 DEF Span, d
        <4>2. d[i] = BlockOf(p, d[i].text)
          BY <4>1, OwnedShape
        <4> QED BY <4>1, <4>2, BlockShape
      <3>3. g[k] = d[k]
        BY <1>3, <3>1, <3>2
      <3>4. Block(f, q) = d[k].text /\ Block(g, q) = g[k].text
        BY <1>4, <1>5, <3>1 DEF Block, d
      <3> QED BY <3>3, <3>4
    <2> QED BY <2>1, <2>2
  <1>8. Block(g, p) = c
    <2>1. Span(g, p) = {i}
      BY <1>2, <1>5
    <2>2. Block(g, p) = g[i].text
      BY <1>4, <2>1 DEF Block
    <2> QED BY <1>3, <2>2, BlockShape DEF new
  <1>9. Without(g, p) = Without(f, p)
    <2>1. /\ Without(g, p) \in Seq(Segments) /\ Len(Without(g, p)) = Len(g) - 1
          /\ \A k \in 1..(Len(g) - 1) :
               Without(g, p)[k] = IF k < i THEN g[k] ELSE g[k + 1]
      <3>1. i \in Span(g, p)
        BY <1>2, <1>5
      <3>2. /\ Without(g, p) \in Seq(Segments) /\ Len(Without(g, p)) = Len(g) - 1
            /\ \A k \in 1..Len(Without(g, p)) :
                 Without(g, p)[k] = IF k < i THEN Data(g)[k] ELSE Data(g)[k + 1]
        <4>1. g \in Files /\ Data(g) = g
          BY <1>4
        <4> HIDE <1>4
        <4>2. Len(Data(g)) = Len(g)
          BY <4>1
        <4> QED BY <1>6, <3>1, <4>1, <4>2, WithoutShape
      <3> QED BY <1>4, <3>2
    <2>2. /\ Without(f, p) \in Seq(Segments) /\ Len(Without(f, p)) = Len(d) - 1
          /\ \A k \in 1..(Len(d) - 1) :
               Without(f, p)[k] = IF k < i THEN d[k] ELSE d[k + 1]
      <3>1. i \in Span(f, p)
        BY <1>2
      <3> QED BY <3>1, WithoutShape DEF d
    <2> DEFINE r == Without(g, p)
               s == Without(f, p)
    <2>3. \A k \in 1..(Len(d) - 1) : r[k] = s[k]
      <3>1. ASSUME NEW k \in 1..(Len(d) - 1) PROVE r[k] = s[k]
        <4>1. k \in 1..Len(d) /\ k + 1 \in 1..Len(d) /\ k \in Int /\ i \in Int
          BY <1>1, <1>2
        <4>2. CASE k < i
          <5>1. g[k] = d[k]
            BY <1>3, <4>1, <4>2
          <5> QED BY <1>3, <2>1, <2>2, <4>2, <5>1
        <4>3. CASE ~(k < i)
          <5>1. g[k + 1] = d[k + 1]
            BY <1>3, <4>1, <4>3
          <5> QED BY <1>3, <2>1, <2>2, <4>3, <5>1
        <4> QED BY <4>2, <4>3
      <3> QED BY <3>1
    <2>4. r \in Seq(Segments) /\ s \in Seq(Segments) /\ Len(r) = Len(s) /\ Len(s) = Len(d) - 1
      BY <1>3, <2>1, <2>2
    <2> HIDE DEF r, s
    <2>5. r = s
      BY <2>3, <2>4
    <2> QED BY <2>5 DEF r, s
  <1> QED BY <1>3, <1>4, <1>6, <1>7, <1>8, <1>9 DEF Replaced

\* replace_project_block changes the one block, and nothing else.
LEMMA ReplaceShape ==
  ASSUME NEW f \in Files, OneBlockEach(f), NEW p \in Projects, NEW c \in Blocks
  PROVE  Replaced(f, Replace(f, p, c), p, c)
  <1>1. CASE c = NoBlock
    BY <1>1, Removed DEF Replace
  <1>2. CASE c # NoBlock
    <2>1. c \in Contents
      BY <1>2 DEF Blocks
    <2>2. CASE Span(f, p) # {}
      <3>1. Replace(f, p, c) =
              [i \in DOMAIN Data(f) |-> IF i \in Span(f, p) THEN BlockOf(p, c)
                                        ELSE Data(f)[i]]
        BY <1>2, <2>2 DEF Replace
      <3> QED BY <2>1, <2>2, <3>1, InPlace
    <2>3. CASE Span(f, p) = {}
      <3>1. \/ Replace(f, p, c) = <<BlockOf(p, c)>> \o Data(f)
            \/ Replace(f, p, c) = Data(f) \o <<BlockOf(p, c)>>
        BY <1>2, <2>3 DEF Replace
      <3> QED BY <2>1, <2>3, <3>1, PutIn
    <2> QED BY <2>2, <2>3
  <1> QED BY <1>1, <1>2

\* All that is asked of a file is asked of its data.
LEMMA SameData ==
  ASSUME NEW f \in Files, NEW g \in Files, OneBlockEach(f), Data(g) = Data(f)
  PROVE  /\ OneBlockEach(g)
         /\ \A q \in Projects : /\ Span(g, q) = Span(f, q)
                                /\ Block(g, q) = Block(f, q)
                                /\ Without(g, q) = Without(f, q)
         /\ \A q \in Projects : \A known : Foreign(g, q, known) = Foreign(f, q, known)
  <1>1. \A q : Span(g, q) = Span(f, q)
    BY DEF Span
  <1>2. OneBlockEach(g)
    BY <1>1 DEF OneBlockEach
  <1>3. ASSUME NEW q \in Projects
        PROVE  Block(g, q) = Block(f, q) /\ Without(g, q) = Without(f, q)
    <2>1. Span(g, q) = Span(f, q)
      BY <1>1
    <2>2. CASE Span(f, q) = {}
      BY <2>1, <2>2 DEF Block, Without
    <2>3. CASE Span(f, q) # {}
      <3>1. PICK i : Span(f, q) = {i}
        BY <2>3 DEF OneBlockEach
      <3>2. Block(g, q) = Block(f, q)
        BY <2>1, <3>1 DEF Block
      <3>3. Without(g, q) = RemoveAt(Data(g), i) /\ Without(f, q) = RemoveAt(Data(f), i)
        BY <2>1, <3>1 DEF Without
      <3> QED BY <3>2, <3>3
    <2> QED BY <2>2, <2>3
  <1>4. ASSUME NEW q \in Projects, NEW known
        PROVE  Foreign(g, q, known) = Foreign(f, q, known)
    BY <1>3 DEF Foreign
  <1> QED BY <1>1, <1>2, <1>3, <1>4

\* g is a file in which the block of p is c, and nothing that is foreign to p
\* is changed, if p knows c and the block it replaces, if there is one.
Rewritten(f, g, p, c) ==
  /\ g \in Files /\ OneBlockEach(g) /\ Block(g, p) = c
  /\ \A q \in Projects \ {p} : Block(g, q) = Block(f, q)
  /\ \A known : c \in known /\ Block(f, p) \in known \cup {NoBlock} =>
                  Foreign(g, p, known) = Foreign(f, p, known)

LEMMA ReplaceRewrites ==
  ASSUME NEW f \in Files, OneBlockEach(f), NEW p \in Projects, NEW c \in Blocks
  PROVE  Rewritten(f, Replace(f, p, c), p, c) /\ Replace(f, p, c) \in Seq(Segments)
  <1> DEFINE g == Replace(f, p, c)
  <1>1. Replaced(f, g, p, c)
    BY ReplaceShape
  <1> HIDE DEF g
  <1>2. ASSUME NEW known, c \in known, Block(f, p) \in known \cup {NoBlock}
        PROVE  Foreign(g, p, known) = Foreign(f, p, known)
    <2>1. Block(g, p) \in known /\ Without(g, p) = Without(f, p)
      BY <1>1, <1>2 DEF Replaced
    <2>2. Block(f, p) = NoBlock => Without(f, p) = Data(f)
      BY BlockIsHeld DEF Without
    <2> QED BY <1>2, <2>1, <2>2 DEF Foreign
  <1> QED BY <1>1, <1>2 DEF Replaced, Rewritten, g

\* f with or without a newline at its end.
WithEnd(f, e) == [f EXCEPT ![Len(f)].ended = e]

\* The newline of the last line belongs to no block and to no name.
LEMMA EndedShape ==
  ASSUME NEW f \in Seq(Segments), OneBlockEach(f), f # <<>>, Last(f) \in Lines,
         NEW e \in BOOLEAN, NEW g, g = WithEnd(f, e)
  PROVE  /\ g \in Seq(Segments) /\ OneBlockEach(g) /\ Len(g) = Len(f)
         /\ Last(g) \in Lines /\ Last(g).ended = e
         /\ \A q \in Projects : Span(g, q) = Span(f, q) /\ Block(g, q) = Block(f, q)
         /\ \A q \in Projects : \A known : Foreign(g, q, known) = Foreign(f, q, known)
  <1> DEFINE n == Len(f)
  <1>1. n \in Nat /\ n > 0 /\ n \in 1..n /\ DOMAIN f = 1..n
    OBVIOUS
  <1>2. Last(f) = f[n]
    BY DEF Last
  <1>3. /\ [f[n] EXCEPT !.ended = e] \in Lines
        /\ [f[n] EXCEPT !.ended = e].line = f[n].line
        /\ [f[n] EXCEPT !.ended = e].ended = e
        /\ \A s \in Lines : \A q : ~Owns(q, s)
    BY <1>2, LineShape DEF Owns
  <1>4. [f[n] EXCEPT !.ended = e] \in Segments
    BY <1>3 DEF Segments
  <1>5. g = [f EXCEPT ![n] = [f[n] EXCEPT !.ended = e]]
    BY DEF WithEnd
  <1> HIDE DEF n
  <1>6. /\ g \in Seq(Segments) /\ Len(g) = n /\ g[n] = [f[n] EXCEPT !.ended = e]
        /\ \A k \in 1..n : k # n => g[k] = f[k]
    <2>1. g \in [1..n -> Segments]
      <3>1. f \in [1..n -> Segments]
        BY <1>1
      <3> QED BY <1>1, <1>4, <1>5, <3>1
    <2>2. g \in Seq(Segments) /\ Len(g) = n
      BY <1>1, <2>1
    <2> QED BY <1>1, <1>5, <2>2
  <1>7. /\ f \in Files /\ g \in Files /\ Data(f) = f /\ Data(g) = g
        /\ DOMAIN g = 1..n
    <2>1. f \in Files /\ Data(f) = f
      BY DataOfSeq
    <2>2. g \in Files /\ Data(g) = g
      BY <1>6, DataOfSeq
    <2>3. DOMAIN g = 1..n
      BY <1>6
    <2> QED BY <2>1, <2>2, <2>3
  <1>8. ASSUME NEW q PROVE Span(g, q) = Span(f, q)
    <2>1. ~Owns(q, g[n]) /\ ~Owns(q, f[n])
      BY <1>2, <1>3, <1>6
    <2>2. \A k \in 1..n : Owns(q, g[k]) <=> Owns(q, f[k])
      BY <1>6, <2>1
    <2> QED BY <1>1, <1>7, <2>2 DEF Span
  <1>9. OneBlockEach(g)
    BY <1>8 DEF OneBlockEach
  <1>10. ASSUME NEW q \in Projects
         PROVE  /\ Block(g, q) = Block(f, q)
                /\ Span(f, q) # {} => \E i \in 1..(n - 1) : Span(f, q) = {i}
    <2>1. CASE Span(f, q) = {}
      BY <1>8, <2>1 DEF Block
    <2>2. CASE Span(f, q) # {}
      <3>0. \A i, j \in Span(f, q) : i = j
        BY DEF OneBlockEach
      <3>1. PICK i : Span(f, q) = {i}
        BY <2>2, <3>0
      <3>2. i \in 1..n /\ Owns(q, f[i])
        BY <1>1, <1>7, <3>1 DEF Span
      <3>3. i # n
        BY <1>2, <1>3, <3>2
      <3>4. Block(f, q) = f[i].text /\ Block(g, q) = g[i].text
        BY <1>7, <1>8, <3>1 DEF Block
      <3>5. i \in 1..(n - 1)
        BY <1>1, <3>2, <3>3
      <3> QED BY <1>6, <3>1, <3>2, <3>3, <3>4, <3>5
    <2> QED BY <2>1, <2>2
  <1> DEFINE Name(s) == IF s \in Lines THEN s.line ELSE s
  <1>11. \A k \in 1..n : Name(g[k]) = Name(f[k])
    <2>1. Name(g[n]) = Name(f[n])
      BY <1>2, <1>3, <1>6
    <2> QED BY <1>6, <2>1
  <1>12. ASSUME NEW q \in Projects, NEW known
         PROVE  Foreign(g, q, known) = Foreign(f, q, known)
    <2>1. CASE Block(f, q) \notin known \/ Span(f, q) = {}
      <3>1. /\ Foreign(g, q, known) = [k \in DOMAIN g |-> Name(g[k])]
            /\ Foreign(f, q, known) = [k \in DOMAIN f |-> Name(f[k])]
        <4>1. Block(g, q) = Block(f, q) /\ Span(g, q) = Span(f, q)
          BY <1>8, <1>10
        <4>2. Span(f, q) = {} => Without(g, q) = g /\ Without(f, q) = f
          BY <1>7, <4>1 DEF Without
        <4> QED BY <1>7, <2>1, <4>1, <4>2 DEF Foreign
      <3> HIDE DEF Name
      <3> QED BY <1>1, <1>7, <1>11, <3>1
    <2>2. CASE Block(f, q) \in known /\ Span(f, q) # {}
      <3> DEFINE r == Without(g, q)
                 s == Without(f, q)
      <3>1. /\ Foreign(g, q, known) = [k \in DOMAIN r |-> Name(r[k])]
            /\ Foreign(f, q, known) = [k \in DOMAIN s |-> Name(s[k])]
        BY <1>10, <2>2 DEF Foreign
      <3>2. PICK i \in 1..(n - 1) : Span(f, q) = {i}
        BY <1>10, <2>2
      <3>3. /\ s \in Seq(Segments) /\ Len(s) = n - 1
            /\ \A k \in 1..Len(s) : s[k] = IF k < i THEN f[k] ELSE f[k + 1]
        <4>1. f \in Files /\ i \in Span(f, q)
          BY <1>7, <3>2
        <4>2. /\ s \in Seq(Segments) /\ Len(s) = Len(Data(f)) - 1
              /\ \A k \in 1..Len(s) : s[k] = IF k < i THEN Data(f)[k] ELSE Data(f)[k + 1]
          BY <4>1, WithoutShape
        <4>3. Data(f) = f
          BY <1>7
        <4> HIDE DEF s
        <4> QED BY <4>2, <4>3 DEF n
      <3>4. /\ r \in Seq(Segments) /\ Len(r) = n - 1
            /\ \A k \in 1..Len(r) : r[k] = IF k < i THEN g[k] ELSE g[k + 1]
        <4>1. g \in Files /\ i \in Span(g, q)
          BY <1>7, <1>8, <3>2
        <4>2. /\ r \in Seq(Segments) /\ Len(r) = Len(Data(g)) - 1
              /\ \A k \in 1..Len(r) : r[k] = IF k < i THEN Data(g)[k] ELSE Data(g)[k + 1]
          BY <1>9, <4>1, WithoutShape
        <4>3. Data(g) = g /\ Len(g) = n
          BY <1>6, <1>7
        <4> HIDE DEF r
        <4> QED BY <4>2, <4>3
      <3> HIDE DEF r, s, Name
      <3>5. DOMAIN r = 1..(n - 1) /\ DOMAIN s = 1..(n - 1)
        BY <1>1, <3>3, <3>4
      <3>6. ASSUME NEW k \in 1..(n - 1) PROVE Name(r[k]) = Name(s[k])
        <4>1. k \in 1..n /\ k + 1 \in 1..n
          BY <1>1
        <4>2. CASE k < i
          BY <1>11, <3>3, <3>4, <4>1, <4>2
        <4>3. CASE ~(k < i)
          BY <1>11, <3>3, <3>4, <4>1, <4>3
        <4> QED BY <4>2, <4>3
      <3> QED BY <3>1, <3>5, <3>6
    <2> QED BY <2>1, <2>2
  <1>13. Last(g) \in Lines /\ Last(g).ended = e
    BY <1>3, <1>6 DEF Last
  <1> QED BY <1>6, <1>8, <1>9, <1>10, <1>12, <1>13 DEF n

\* _rollback_shared_block: so does the old block, with or without the newline
\* at the end of the file, and with or without the file if nothing is left.
LEMMA RestoreRewrites ==
  ASSUME NEW f \in Files, OneBlockEach(f), NEW p \in Projects, NEW j \in Journals
  PROVE  Rewritten(f, Restore(f, p, j), p, j.old)
  <1> DEFINE data == Replace(f, p, j.old)
             cut == IF data # <<>> /\ Last(data) \in Lines
                    THEN [data EXCEPT ![Len(data)].ended = FALSE] ELSE data
             kept == IF cut = j.original THEN cut ELSE data
  <1>1. j.old \in Blocks
    BY DEF Journals
  <1>2. Rewritten(f, data, p, j.old) /\ data \in Seq(Segments) /\ OneBlockEach(data)
    BY <1>1, ReplaceRewrites DEF Rewritten
  <1>3. Restore(f, p, j) = IF kept = <<>> /\ ~j.existed THEN NoFile ELSE kept
    BY DEF Restore
  <1> HIDE DEF data
  <1>4. /\ cut \in Seq(Segments) /\ OneBlockEach(cut)
        /\ \A q \in Projects : Block(cut, q) = Block(data, q)
        /\ \A q \in Projects : \A known : Foreign(cut, q, known) = Foreign(data, q, known)
    <2>1. CASE data # <<>> /\ Last(data) \in Lines
      <3>1. cut = WithEnd(data, FALSE)
        BY <2>1 DEF WithEnd
      <3> HIDE DEF cut
      <3>2. FALSE \in BOOLEAN
        OBVIOUS
      <3>3. data \in Seq(Segments) /\ OneBlockEach(data) /\ data # <<>> /\ Last(data) \in Lines
        BY <1>2, <2>1
      <3>4. ASSUME NEW e \in BOOLEAN, e = FALSE
            PROVE  /\ WithEnd(data, e) \in Seq(Segments) /\ OneBlockEach(WithEnd(data, e))
                   /\ \A q \in Projects : /\ Block(WithEnd(data, e), q) = Block(data, q)
                        /\ \A known : Foreign(WithEnd(data, e), q, known) = Foreign(data, q, known)
        BY <3>3, EndedShape
      <3> QED BY <3>1, <3>2, <3>4
    <2>2. CASE ~(data # <<>> /\ Last(data) \in Lines)
      <3>1. cut = data
        BY <2>2
      <3> QED BY <1>2, <3>1
    <2> QED BY <2>1, <2>2
  <1> HIDE DEF cut
  <1>5. /\ kept \in Seq(Segments) /\ OneBlockEach(kept)
        /\ \A q \in Projects : Block(kept, q) = Block(data, q)
        /\ \A q \in Projects : \A known : Foreign(kept, q, known) = Foreign(data, q, known)
    <2>1. kept = cut \/ kept = data
      OBVIOUS
    <2> QED BY <1>2, <1>4, <2>1
  <1> HIDE DEF kept
  <1>6. Rewritten(f, kept, p, j.old)
    <2>1. kept \in Files
      BY <1>5, DataOfSeq
    <2> QED BY <1>2, <1>5, <2>1 DEF Rewritten
  <1>7. CASE kept = <<>> /\ ~j.existed
    <2>1. NoFile \in Files /\ kept \in Files /\ Data(NoFile) = Data(kept)
      <3>1. kept \in Files /\ Data(kept) = kept
        BY <1>5, DataOfSeq
      <3> QED BY <1>7, <3>1 DEF Files, Data
    <2>2. /\ OneBlockEach(NoFile)
          /\ \A q \in Projects : Block(NoFile, q) = Block(kept, q)
          /\ \A q \in Projects : \A known : Foreign(NoFile, q, known) = Foreign(kept, q, known)
      BY <1>5, <2>1, SameData
    <2>3. Rewritten(f, NoFile, p, j.old)
      BY <1>6, <2>1, <2>2 DEF Rewritten
    <2> QED BY <1>3, <1>7, <2>3
  <1>8. CASE ~(kept = <<>> /\ ~j.existed)
    BY <1>3, <1>6, <1>8
  <1> QED BY <1>7, <1>8

\* The user's edits: a line at the end, the end of the last line, or a block
\* less.  None of them adds a block.
LEMMA AppendedShape ==
  ASSUME NEW f \in Seq(Segments), OneBlockEach(f), NEW l \in Lines, NEW g,
         g = f \o <<l>>
  PROVE  /\ g \in Seq(Segments) /\ OneBlockEach(g) /\ Len(g) = Len(f) + 1
         /\ \A q \in Projects : Span(g, q) = Span(f, q) /\ Block(g, q) = Block(f, q)
  <1>1. l \in Segments
    BY DEF Segments
  <1>2. /\ g \in Seq(Segments) /\ Len(g) = Len(f) + 1 /\ g[Len(f) + 1] = l
        /\ \A k \in 1..Len(f) : g[k] = f[k]
    BY <1>1
  <1>3. f \in Files /\ Data(f) = f
    BY DataOfSeq
  <1>4. g \in Files /\ Data(g) = g
    BY <1>2, DataOfSeq
  <1>5. ASSUME NEW q PROVE Span(g, q) = Span(f, q)
    <2>1. ~Owns(q, g[Len(f) + 1])
      BY <1>2 DEF Owns
    <2>2. Span(g, q) = {k \in 1..(Len(f) + 1) : Owns(q, g[k])}
      BY <1>2, <1>4 DEF Span
    <2>3. Span(f, q) = {k \in 1..Len(f) : Owns(q, f[k])}
      BY <1>3 DEF Span
    <2>4. \A k \in 1..Len(f) : Owns(q, g[k]) <=> Owns(q, f[k])
      BY <1>2
    <2>5. 1..(Len(f) + 1) = 1..Len(f) \cup {Len(f) + 1}
      <3>1. Len(f) \in Nat
        OBVIOUS
      <3> QED BY <3>1
    <2> QED BY <2>1, <2>2, <2>3, <2>4, <2>5
  <1>6. OneBlockEach(g)
    BY <1>5 DEF OneBlockEach
  <1>7. ASSUME NEW q \in Projects PROVE Block(g, q) = Block(f, q)
    <2>1. CASE Span(f, q) = {}
      BY <1>5, <2>1 DEF Block
    <2>2. CASE Span(f, q) # {}
      <3>1. \A i, k \in Span(f, q) : i = k
        BY DEF OneBlockEach
      <3>2. PICK i : Span(f, q) = {i}
        BY <2>2, <3>1
      <3>3. i \in 1..Len(f)
        <4>1. Span(f, q) \subseteq 1..Len(Data(f))
          BY <1>3, DataTyped
        <4> QED BY <1>3, <3>2, <4>1
      <3>4. Block(f, q) = f[i].text
        BY <1>3, <3>2 DEF Block
      <3>5. Span(g, q) = {i} /\ Data(g) = g
        BY <1>4, <1>5, <3>2
      <3>6. Block(g, q) = g[i].text
        BY <3>5 DEF Block
      <3> QED BY <1>2, <3>3, <3>4, <3>6
    <2> QED BY <2>1, <2>2
  <1> QED BY <1>2, <1>5, <1>6, <1>7

\* An editor that ends the last line changes nothing else.
LEMMA LastEnded ==
  ASSUME NEW f \in Seq(Segments), OneBlockEach(f)
  PROVE  /\ Ended(f) \in Seq(Segments) /\ OneBlockEach(Ended(f)) /\ ~Unended(Ended(f))
         /\ Len(Ended(f)) = Len(f)
         /\ \A q \in Projects : /\ Span(Ended(f), q) = Span(f, q)
                                /\ Block(Ended(f), q) = Block(f, q)
  <1>1. CASE Unended(f)
    <2> DEFINE g == WithEnd(f, TRUE)
    <2>1. Ended(f) = g /\ f # <<>> /\ Last(f) \in Lines
      BY <1>1 DEF Ended, Unended, WithEnd
    <2>2. /\ g \in Seq(Segments) /\ OneBlockEach(g) /\ Len(g) = Len(f)
          /\ Last(g) \in Lines /\ Last(g).ended = TRUE
          /\ \A q \in Projects : Span(g, q) = Span(f, q) /\ Block(g, q) = Block(f, q)
      BY <2>1, EndedShape
    <2> HIDE DEF g
    <2>3. ~Unended(g)
      BY <2>2 DEF Unended
    <2> QED BY <2>1, <2>2, <2>3
  <1>2. CASE ~Unended(f)
    BY <1>2 DEF Ended
  <1> QED BY <1>1, <1>2

\* g is f, or what the users' edits have made of it: they remove blocks, append
\* lines and end the last one, and take none of it back.
Follows(f, g) ==
  /\ \A p \in Projects : Span(g, p) # {} => Span(f, p) # {}
  /\ \/ Data(g) = Data(f)
     \/ \E p \in Projects : Span(f, p) # {} /\ Span(g, p) = {}
     \/ Len(Data(g)) > Len(Data(f))
     \/ /\ Len(Data(g)) = Len(Data(f))
        /\ Unended(Data(f)) /\ ~Unended(Data(g))

\* A partial order of what the file holds.
LEMMA FollowsItself ==
  ASSUME NEW f, NEW g, Data(f) = Data(g)
  PROVE  Follows(f, g)
  BY DEF Follows, Span

LEMMA FollowsTransitive ==
  ASSUME NEW f \in Files, NEW g \in Files, NEW h \in Files, Follows(f, g), Follows(g, h)
  PROVE  Follows(f, h)
  <1>1. Len(Data(f)) \in Nat /\ Len(Data(g)) \in Nat /\ Len(Data(h)) \in Nat
    BY DataTyped
  <1>2. \A p \in Projects : Span(h, p) # {} => Span(g, p) # {} /\ Span(f, p) # {}
    BY DEF Follows
  <1>3. CASE \E p \in Projects : Span(f, p) # {} /\ Span(h, p) = {}
    BY <1>2, <1>3 DEF Follows
  <1>4. CASE \A p \in Projects : Span(f, p) # {} => Span(h, p) # {}
    <2>1. /\ ~\E p \in Projects : Span(f, p) # {} /\ Span(g, p) = {}
          /\ ~\E p \in Projects : Span(g, p) # {} /\ Span(h, p) = {}
      BY <1>2, <1>4 DEF Follows
    <2>2. \/ Data(g) = Data(f) \/ Len(Data(g)) > Len(Data(f))
          \/ Len(Data(g)) = Len(Data(f)) /\ Unended(Data(f)) /\ ~Unended(Data(g))
      BY <2>1 DEF Follows
    <2>3. \/ Data(h) = Data(g) \/ Len(Data(h)) > Len(Data(g))
          \/ Len(Data(h)) = Len(Data(g)) /\ Unended(Data(g)) /\ ~Unended(Data(h))
      BY <2>1 DEF Follows
    <2>4. \/ Data(h) = Data(f) \/ Len(Data(h)) > Len(Data(f))
          \/ Len(Data(h)) = Len(Data(f)) /\ Unended(Data(f)) /\ ~Unended(Data(h))
      BY <1>1, <2>2, <2>3
    <2> QED BY <1>2, <2>4 DEF Follows
  <1> QED BY <1>3, <1>4

LEMMA FollowsBothWays ==
  ASSUME NEW f \in Files, NEW g \in Files, Follows(f, g), Follows(g, f)
  PROVE  Data(f) = Data(g)
  <1>1. Len(Data(f)) \in Nat /\ Len(Data(g)) \in Nat
    BY DataTyped
  <1>2. \A p \in Projects : Span(f, p) # {} <=> Span(g, p) # {}
    BY DEF Follows
  <1>3. \/ Data(g) = Data(f) \/ Len(Data(g)) > Len(Data(f))
        \/ Len(Data(g)) = Len(Data(f)) /\ Unended(Data(f)) /\ ~Unended(Data(g))
    BY <1>2 DEF Follows
  <1>4. \/ Data(g) = Data(f) \/ Len(Data(f)) > Len(Data(g))
        \/ Len(Data(g)) = Len(Data(f)) /\ Unended(Data(g)) /\ ~Unended(Data(f))
    BY <1>2 DEF Follows
  <1> QED BY <1>1, <1>3, <1>4

-----------------------------------------------------------------------------
(* What the journals, the processes and csk init know of the blocks.       *)

\* Past its lock a process has a plan or a journal.
Journaled == {"recover", "prepared", "apply", "install", "installed", "others",
              "undo", "restore", "restored", "finish"}

\* What a holder has read holds no block twice, and csk init works for a project.
HoldersTyped ==
  /\ \A h \in Projects \cup {Initializer} : OneBlockEach(read[h])
  /\ init.pc # "idle" => init.project \in Projects /\ init.text = InitPatterns

\* How far a journal j is, by the place of the process that works on it.
Fits(place, j) ==
  /\ place \in Journaled => j # NoJournal
  /\ place = "prepared" => j.phase = "preparing"
  /\ place = "apply" => j.phase \in {"prepared", "committing"}
  /\ place \in {"install", "installed"} => j.phase = "committing" /\ j.state = "backed_up"
  /\ place = "others" => j.phase = "committing" /\ j.state = "committed"
  /\ place \in {"undo", "restore", "restored"} => j.phase = "rolling_back"
  /\ place \in {"restore", "restored"} => ~Untouched(j)
  /\ place = "finish" => j.phase = "cleanup" \/ Untouched(j)
  /\ j # NoJournal /\ j.phase \in {"preparing", "prepared"} => j.state = "pending"

Typed == TypeOK /\ HoldersTyped /\ \A p \in Projects : Fits(pc[p], journal[p])

\* What csk init has seen, read and will write back is older and older.
InitFollows ==
  /\ init.pc = "plan" => Follows(init.seen, file)
  /\ init.pc = "check" =>
       Follows(init.seen, read[Initializer]) /\ Follows(read[Initializer], file)
  /\ init.pc = "write" => overrun \/ Data(read[Initializer]) = Data(file)

\* What is known of p's block b: what a process is about to replace is what its
\* journal says, and what an open journal says holds if nobody else has changed
\* the block; without one, it is what the last operation left.
BlockKnown(place, j, b, changed, left) ==
  /\ place = "install" => b = j.old
  /\ place = "restore" => b = j.new
  /\ j = NoJournal => b = left
  /\ j # NoJournal /\ ~changed =>
       /\ b \in {j.old, j.new}
       /\ Untouched(j) \/ place = "restored" => b = j.old
       /\ j.phase = "cleanup" \/ place = "others" => b = j.new

BlocksKnown ==
  overrun \/ \A p \in Projects :
               BlockKnown(pc[p], journal[p], Block(file, p), touched[p], settled[p])

Places == {"idle", "home", "recover", "plan", "prepare", "prepared", "apply",
           "install", "installed", "others", "undo", "restore", "restored", "finish"}
Phases == {"preparing", "prepared", "committing", "cleanup", "rolling_back"}
States == {"pending", "backed_up", "committed", "rolled_back"}
Budgets == [runs : 0..MaxRuns, edits : 0..MaxEdits, troubles : 0..MaxTroubles]

Spent == budget' = budget \/ \E b \in {"runs", "edits", "troubles"} : Spend(b)

LEMMA BudgetTyped ==
  ASSUME budget \in Budgets, Spent
  PROVE  budget' \in Budgets
  <1>1. CASE budget' = budget
    BY <1>1
  <1>2. ASSUME NEW b \in {"runs", "edits", "troubles"}, Spend(b)
        PROVE  budget' \in Budgets
    <2>1. budget[b] > 0 /\ budget' = [budget EXCEPT ![b] = budget[b] - 1]
      BY <1>2 DEF Spend
    <2>2. budget.runs \in 0..MaxRuns /\ budget.edits \in 0..MaxEdits
          /\ budget.troubles \in 0..MaxTroubles
      BY DEF Budgets
    <2>3. MaxRuns \in Nat /\ MaxEdits \in Nat /\ MaxTroubles \in Nat
      BY ExcludeBounds
    <2>4. CASE b = "runs"
      BY <2>1, <2>2, <2>3, <2>4 DEF Budgets
    <2>5. CASE b = "edits"
      BY <2>1, <2>2, <2>3, <2>5 DEF Budgets
    <2>6. CASE b = "troubles"
      BY <2>1, <2>2, <2>3, <2>6 DEF Budgets
    <2> QED BY <1>2, <2>4, <2>5, <2>6
  <1> QED BY <1>1, <1>2 DEF Spent

\* The journal of p with another phase and state.
Saves(j, phase, state) == [j EXCEPT !.phase = phase, !.state = state]

LEMMA SavesShape ==
  ASSUME NEW j \in Journals, NEW phase \in Phases, NEW state \in States
  PROVE  /\ Saves(j, phase, state) \in Journals /\ Saves(j, phase, state) # NoJournal
         /\ Saves(j, phase, state).phase = phase /\ Saves(j, phase, state).state = state
         /\ Saves(j, phase, state).old = j.old /\ Saves(j, phase, state).new = j.new
  <1>1. Saves(j, phase, state) \in Journals
    BY DEF Saves, Journals, Phases, States
  <1>2. Saves(j, phase, state) # NoJournal
    BY <1>1, FilesAssumption
  <1>3. /\ Saves(j, phase, state).phase = phase /\ Saves(j, phase, state).state = state
        /\ Saves(j, phase, state).old = j.old /\ Saves(j, phase, state).new = j.new
    BY DEF Saves, Journals
  <1> QED BY <1>1, <1>2, <1>3

\* p's process comes to a place, and leaves j in its home.
Moved(p, place, j) ==
  /\ pc' = [pc EXCEPT ![p] = place] /\ journal' = [journal EXCEPT ![p] = j]
  /\ init' = init /\ overrun' = overrun

LEMMA MovedShape ==
  ASSUME Typed, NEW p \in Projects, NEW place \in Places,
         NEW j \in Journals \cup {NoJournal}, Moved(p, place, j)
  PROVE  /\ pc' \in [Projects -> Places] /\ pc'[p] = place
         /\ journal' \in [Projects -> Journals \cup {NoJournal}] /\ journal'[p] = j
         /\ \A q \in Projects : q # p => pc'[q] = pc[q] /\ journal'[q] = journal[q]
  <1>1. pc \in [Projects -> Places] /\ journal \in [Projects -> Journals \cup {NoJournal}]
    BY DEF Typed, TypeOK, Places
  <1> QED BY <1>1 DEF Moved

\* The types after a step of p's process.
LEMMA MovedTyped ==
  ASSUME Typed, NEW p \in Projects, NEW place \in Places,
         NEW j \in Journals \cup {NoJournal}, Moved(p, place, j), Fits(place, j),
         file' \in Files, OneBlockEach(file'),
         elock' \in {elock, p, Nobody},
         kind' \in [Projects -> {"install", "switch", "rollback"}],
         plan' \in [Projects -> [old : Blocks, new : Blocks]],
         NEW f \in Files, OneBlockEach(f), read' = [read EXCEPT ![p] = f],
         Spent, settled' \in [Projects -> Blocks], touched' \in [Projects -> BOOLEAN]
  PROVE  Typed'
  <1>1. /\ pc' \in [Projects -> Places] /\ pc'[p] = place
        /\ journal' \in [Projects -> Journals \cup {NoJournal}] /\ journal'[p] = j
        /\ \A q \in Projects : q # p => pc'[q] = pc[q] /\ journal'[q] = journal[q]
    BY MovedShape
  <1>2. read \in [Projects \cup {Initializer} -> Files]
    BY DEF Typed, TypeOK
  <1>3. /\ read' \in [Projects \cup {Initializer} -> Files]
        /\ \A h \in Projects \cup {Initializer} : read'[h] = IF h = p THEN f ELSE read[h]
    BY <1>2
  <1>4. budget' \in Budgets
    <2>1. budget \in Budgets
      BY DEF Typed, TypeOK, Budgets
    <2> QED BY <2>1, BudgetTyped
  <1>5. init' = init /\ overrun' = overrun
    BY DEF Moved
  <1>6. elock' \in Projects \cup {Initializer, Nobody}
    BY DEF Typed, TypeOK
  <1>7. TypeOK'
    <2>1. /\ init' \in [pc : {"idle", "plan", "check", "write"},
                        project : Projects \cup {Nobody}, text : Blocks, seen : Files]
          /\ overrun' \in BOOLEAN
      BY <1>5 DEF Typed, TypeOK
    <2> QED BY <1>1, <1>3, <1>4, <1>6, <2>1 DEF TypeOK, Places, Budgets
  <1>8. HoldersTyped'
    <2>1. /\ \A h \in Projects \cup {Initializer} : OneBlockEach(read[h])
          /\ init.pc # "idle" => init.project \in Projects /\ init.text = InitPatterns
      BY DEF Typed, HoldersTyped
    <2>2. \A h \in Projects \cup {Initializer} : OneBlockEach(read'[h])
      BY <1>3, <2>1
    <2> QED BY <1>5, <2>1, <2>2 DEF HoldersTyped
  <1>9. \A q \in Projects : Fits(pc'[q], journal'[q])
    <2>1. \A q \in Projects : Fits(pc[q], journal[q])
      BY DEF Typed
    <2> QED BY <1>1, <2>1
  <1> QED BY <1>7, <1>8, <1>9 DEF Typed

\* What is known of the blocks after such a step, if the others' are as before.
LEMMA MovedKnown ==
  ASSUME Typed, BlocksKnown, NEW p \in Projects, NEW place \in Places,
         NEW j \in Journals \cup {NoJournal}, Moved(p, place, j),
         overrun \/ \A q \in Projects : q # p =>
                      /\ Block(file', q) = Block(file, q)
                      /\ touched'[q] = touched[q] /\ settled'[q] = settled[q],
         overrun \/ BlockKnown(place, j, Block(file', p), touched'[p], settled'[p])
  PROVE  BlocksKnown'
  <1>1. /\ pc'[p] = place /\ journal'[p] = j
        /\ \A q \in Projects : q # p => pc'[q] = pc[q] /\ journal'[q] = journal[q]
    BY MovedShape
  <1>2. overrun' = overrun
    BY DEF Moved
  <1>3. ASSUME ~overrun, NEW q \in Projects
        PROVE  BlockKnown(pc'[q], journal'[q], Block(file', q), touched'[q], settled'[q])
    <2>1. CASE q = p
      BY <1>1, <1>3, <2>1
    <2>2. CASE q # p
      <3>1. BlockKnown(pc[q], journal[q], Block(file, q), touched[q], settled[q])
        BY <1>3 DEF BlocksKnown
      <3>2. /\ pc'[q] = pc[q] /\ journal'[q] = journal[q] /\ Block(file', q) = Block(file, q)
            /\ touched'[q] = touched[q] /\ settled'[q] = settled[q]
        BY <1>1, <1>3, <2>2
      <3> QED BY <3>1, <3>2
    <2> QED BY <2>1, <2>2
  <1> QED BY <1>2, <1>3 DEF BlocksKnown

\* A step of p's process that leaves the file as it is.
Stepped(p, place, j) ==
  /\ place \in Places /\ j \in Journals \cup {NoJournal} /\ Moved(p, place, j)
  /\ Fits(place, j)
  /\ overrun \/ BlockKnown(place, j, Block(file, p), touched[p], settled[p])
  /\ UNCHANGED <<file, settled, touched>>

LEMMA SteppedOn ==
  ASSUME Typed, BlocksKnown, NEW p \in Projects, NEW place, NEW j, Stepped(p, place, j),
         elock' \in {elock, p, Nobody},
         kind' = kind \/ \E k \in {"install", "switch", "rollback"} :
                           kind' = [kind EXCEPT ![p] = k],
         plan' = plan \/ \E new \in [old : Blocks, new : Blocks] :
                           plan' = [plan EXCEPT ![p] = new],
         read' = read \/ \E f \in {file, NoFile} : read' = [read EXCEPT ![p] = f],
         Spent
  PROVE  Typed' /\ BlocksKnown'
  <1>1. /\ place \in Places /\ j \in Journals \cup {NoJournal} /\ Moved(p, place, j)
        /\ Fits(place, j) /\ file' = file /\ settled' = settled /\ touched' = touched
        /\ overrun \/ BlockKnown(place, j, Block(file, p), touched[p], settled[p])
    BY DEF Stepped
  <1>2. /\ file' \in Files /\ OneBlockEach(file')
        /\ settled' \in [Projects -> Blocks] /\ touched' \in [Projects -> BOOLEAN]
    BY <1>1 DEF Typed, TypeOK
  <1>3. /\ kind' \in [Projects -> {"install", "switch", "rollback"}]
        /\ plan' \in [Projects -> [old : Blocks, new : Blocks]]
    <2>1. /\ kind \in [Projects -> {"install", "switch", "rollback"}]
          /\ plan \in [Projects -> [old : Blocks, new : Blocks]]
      BY DEF Typed, TypeOK
    <2> QED BY <2>1
  <1>4. PICK f \in Files : OneBlockEach(f) /\ read' = [read EXCEPT ![p] = f]
    <2>1. read \in [Projects \cup {Initializer} -> Files] /\ OneBlockEach(read[p])
      BY DEF Typed, TypeOK, HoldersTyped
    <2>2. NoFile \in Files /\ OneBlockEach(NoFile)
      BY DEF Files, OneBlockEach, Span, Data
    <2>3. CASE read' = read
      <3>1. read' = [read EXCEPT ![p] = read[p]] /\ read[p] \in Files
        BY <2>1, <2>3
      <3> QED BY <2>1, <3>1
    <2>4. CASE read' # read
      <3>1. file \in Files /\ OneBlockEach(file)
        BY DEF Typed, TypeOK
      <3> QED BY <2>2, <2>4, <3>1
    <2> QED BY <2>3, <2>4
  <1>5. Typed'
    BY <1>1, <1>2, <1>3, <1>4, MovedTyped
  <1>6. BlocksKnown'
    BY <1>1, MovedKnown
  <1> QED BY <1>5, <1>6

\* What p's process goes by.
LEMMA AtPlace ==
  ASSUME Typed, BlocksKnown, NEW p \in Projects
  PROVE  /\ pc[p] \in Places /\ journal[p] \in Journals \cup {NoJournal}
         /\ Fits(pc[p], journal[p])
         /\ overrun \/ BlockKnown(pc[p], journal[p], Block(file, p), touched[p], settled[p])
         /\ \A place : Goto(p, place) => pc' = [pc EXCEPT ![p] = place]
         /\ journal' = journal => journal' = [journal EXCEPT ![p] = journal[p]]
         /\ \A phase, state : Save(p, phase, state) =>
                journal' = [journal EXCEPT ![p] = Saves(journal[p], phase, state)]
  <1>1. /\ pc[p] \in Places /\ journal \in [Projects -> Journals \cup {NoJournal}]
        /\ Fits(pc[p], journal[p])
    BY DEF Typed, TypeOK, Places
  <1>2. overrun \/ BlockKnown(pc[p], journal[p], Block(file, p), touched[p], settled[p])
    BY DEF BlocksKnown
  <1>3. /\ \A place : Goto(p, place) => pc' = [pc EXCEPT ![p] = place]
        /\ journal' = journal => journal' = [journal EXCEPT ![p] = journal[p]]
    BY <1>1 DEF Goto
  <1>4. ASSUME NEW phase, NEW state, Save(p, phase, state)
        PROVE  journal' = [journal EXCEPT ![p] = Saves(journal[p], phase, state)]
    BY <1>1, <1>4 DEF Save, Saves
  <1> QED BY <1>1, <1>2, <1>3, <1>4

\* p's process ends, and its journal stays as it is.
LEMMA EndOn ==
  ASSUME Typed, BlocksKnown, NEW p \in Projects, End(p), Spent,
         UNCHANGED <<file, journal, init, ghosts>>
  PROVE  Typed' /\ BlocksKnown'
  <1>1. Stepped(p, "idle", journal[p])
    <2>1. Fits("idle", journal[p])
      BY AtPlace DEF Fits, Journaled
    <2>2. overrun \/ BlockKnown("idle", journal[p], Block(file, p), touched[p], settled[p])
      BY AtPlace DEF BlockKnown
    <2>3. Moved(p, "idle", journal[p])
      BY AtPlace DEF Moved, End, ghosts
    <2>4. "idle" \in Places
      BY DEF Places
    <2> QED BY AtPlace, <2>1, <2>2, <2>3, <2>4 DEF Stepped, ghosts
  <1>2. /\ elock' \in {elock, p, Nobody}
        /\ kind' = [kind EXCEPT ![p] = "install"] /\ plan' = [plan EXCEPT ![p] = NoPlan]
        /\ read' = [read EXCEPT ![p] = NoFile]
    BY DEF End
  <1>3. NoPlan \in [old : Blocks, new : Blocks]
    BY DEF NoPlan, Blocks
  <1> QED BY <1>1, <1>2, <1>3, SteppedOn

\* A command is begun, or takes the lock.
LEMMA StartOn ==
  ASSUME Typed, BlocksKnown, NEW p \in Projects,
         Begin(p) \/ LockToRecover(p) \/ LockToPlan(p)
  PROVE  Typed' /\ BlocksKnown'
  <1>1. CASE Begin(p)
    <2>1. Stepped(p, "home", journal[p])
      <3>1. Fits("home", journal[p])
        BY AtPlace DEF Fits, Journaled
      <3>2. overrun \/ BlockKnown("home", journal[p], Block(file, p), touched[p], settled[p])
        BY AtPlace DEF BlockKnown
      <3>3. Moved(p, "home", journal[p])
        BY <1>1, AtPlace DEF Moved, Begin, ghosts
      <3>4. "home" \in Places
        BY DEF Places
      <3> QED BY <1>1, AtPlace, <3>1, <3>2, <3>3, <3>4 DEF Stepped, Begin, ghosts
    <2>2. Spent
      BY <1>1 DEF Begin, Spent
    <2> QED BY <1>1, <2>1, <2>2, SteppedOn DEF Begin
  <1>2. CASE LockToRecover(p)
    <2>1. Stepped(p, "recover", journal[p])
      <3>1. Fits("recover", journal[p])
        BY <1>2, AtPlace DEF Fits, Journaled, LockToRecover
      <3>2. overrun \/ BlockKnown("recover", journal[p], Block(file, p), touched[p], settled[p])
        BY AtPlace DEF BlockKnown
      <3>3. Moved(p, "recover", journal[p])
        BY <1>2, AtPlace DEF Moved, LockToRecover, ghosts
      <3>4. "recover" \in Places
        BY DEF Places
      <3> QED BY <1>2, AtPlace, <3>1, <3>2, <3>3, <3>4 DEF Stepped, LockToRecover, ghosts
    <2> QED BY <1>2, <2>1, SteppedOn DEF LockToRecover, Spent
  <1>3. CASE LockToPlan(p)
    <2>1. Stepped(p, "plan", journal[p])
      <3>1. Fits("plan", journal[p])
        BY <1>3, AtPlace DEF Fits, Journaled, LockToPlan
      <3>2. overrun \/ BlockKnown("plan", journal[p], Block(file, p), touched[p], settled[p])
        BY AtPlace DEF BlockKnown
      <3>3. Moved(p, "plan", journal[p])
        BY <1>3, AtPlace DEF Moved, LockToPlan, ghosts
      <3>4. "plan" \in Places
        BY DEF Places
      <3> QED BY <1>3, AtPlace, <3>1, <3>2, <3>3, <3>4 DEF Stepped, LockToPlan, ghosts
    <2> QED BY <1>3, <2>1, SteppedOn DEF LockToPlan, Spent
  <1> QED BY <1>1, <1>2, <1>3

\* p's process goes on under the lock, and the plan is as it was.
Continues(p) ==
  /\ UNCHANGED <<file, elock, kind, plan, init, budget, ghosts>>
  /\ read' = read \/ read' = [read EXCEPT ![p] = file]

LEMMA ContinueOn ==
  ASSUME Typed, BlocksKnown, NEW p \in Projects, Continues(p), NEW place \in Places,
         NEW j \in Journals \cup {NoJournal}, Goto(p, place),
         journal' = [journal EXCEPT ![p] = j], Fits(place, j),
         overrun \/ BlockKnown(place, j, Block(file, p), touched[p], settled[p])
  PROVE  Typed' /\ BlocksKnown'
  <1>1. Moved(p, place, j)
    BY DEF Moved, Continues, Goto, ghosts
  <1>2. Stepped(p, place, j)
    BY <1>1 DEF Stepped, Continues, ghosts
  <1>3. Spent /\ elock' = elock /\ kind' = kind /\ plan' = plan
        /\ (read' = read \/ read' = [read EXCEPT ![p] = file])
    BY DEF Continues, Spent
  <1> QED BY <1>2, <1>3, SteppedOn

\* The journal is abandoned: what it says of the block is as true as before.
LEMMA GiveUpOn ==
  ASSUME Typed, BlocksKnown, NEW p \in Projects, Continues(p), GiveUp(p),
         journal[p] # NoJournal, pc[p] \in {"recover", "apply", "others"}
  PROVE  Typed' /\ BlocksKnown'
  <1> DEFINE j == journal[p]
             new == Saves(j, "rolling_back", j.state)
  <1>1. j \in Journals
    BY AtPlace
  <1>2. j.state \in States /\ "rolling_back" \in Phases /\ "undo" \in Places
    BY <1>1 DEF Journals, States, Phases, Places
  <1>3. /\ new \in Journals /\ new # NoJournal
        /\ new.phase = "rolling_back" /\ new.state = j.state
        /\ new.old = j.old /\ new.new = j.new
    BY <1>1, <1>2, SavesShape
  <1>4. Goto(p, "undo") /\ journal' = [journal EXCEPT ![p] = new]
    BY AtPlace DEF GiveUp
  <1> HIDE DEF new
  <1>5. Fits("undo", new)
    BY <1>3 DEF Fits, Journaled
  <1>6. overrun \/ BlockKnown("undo", new, Block(file, p), touched[p], settled[p])
    BY <1>3, AtPlace DEF BlockKnown, Untouched
  <1> QED BY <1>2, <1>3, <1>4, <1>5, <1>6, ContinueOn

LEMMA RecoverOn ==
  ASSUME Typed, BlocksKnown, NEW p \in Projects, Recover(p)
  PROVE  Typed' /\ BlocksKnown'
  <1> DEFINE j == journal[p]
  <1>1. pc[p] = "recover" /\ Continues(p) /\ j # NoJournal /\ j \in Journals \cup {NoJournal}
    BY AtPlace DEF Recover, Continues, Fits, Journaled
  <1>2. CASE GiveUp(p)
    BY <1>1, <1>2, GiveUpOn
  <1>3. CASE Goto(p, "finish") /\ journal' = journal /\ j.phase \in {"preparing", "cleanup"}
    <2>1. Fits("finish", j)
      BY <1>1, <1>3, AtPlace DEF Fits, Untouched, Journaled
    <2>2. overrun \/ BlockKnown("finish", j, Block(file, p), touched[p], settled[p])
      BY AtPlace DEF BlockKnown
    <2> QED BY <1>1, <1>3, <2>1, <2>2, AtPlace, ContinueOn DEF Places
  <1>4. CASE /\ Goto(p, "apply") /\ journal' = journal
             /\ j.phase \in {"prepared", "committing"}
    <2>1. Fits("apply", j)
      BY <1>1, <1>4, AtPlace DEF Fits, Journaled
    <2>2. overrun \/ BlockKnown("apply", j, Block(file, p), touched[p], settled[p])
      BY AtPlace DEF BlockKnown
    <2> QED BY <1>1, <1>4, <2>1, <2>2, AtPlace, ContinueOn DEF Places
  <1> QED BY <1>2, <1>3, <1>4 DEF Recover

LEMMA PlanOn ==
  ASSUME Typed, BlocksKnown, NEW p \in Projects, Plan(p)
  PROVE  Typed' /\ BlocksKnown'
  <1> DEFINE b == Block(file, p)
  <1>1. file \in Files /\ OneBlockEach(file) /\ b \in Blocks
    <2>1. file \in Files /\ OneBlockEach(file)
      BY DEF Typed, TypeOK
    <2> QED BY <2>1, BlockIsHeld
  <1>2. UNCHANGED <<file, journal, init, ghosts>> /\ Spent
    BY DEF Plan, Spent
  <1>3. PICK c \in Blocks :
          \/ End(p)
          \/ /\ plan' = [plan EXCEPT ![p] = [old |-> b, new |-> c]]
             /\ Goto(p, "prepare") /\ UNCHANGED <<kind, elock, read>>
    <2>1. {SwitchPatterns, NoBlock} \subseteq Blocks /\ Contents \subseteq Blocks
      BY BlocksAssumption DEF Blocks
    <2> QED BY <2>1 DEF Plan
  <1>4. CASE End(p)
    BY <1>2, <1>4, EndOn
  <1>5. CASE /\ plan' = [plan EXCEPT ![p] = [old |-> b, new |-> c]]
             /\ Goto(p, "prepare") /\ UNCHANGED <<kind, elock, read>>
    <2>1. Fits("prepare", journal[p])
      BY AtPlace DEF Fits, Journaled
    <2>2. overrun \/ BlockKnown("prepare", journal[p], b, touched[p], settled[p])
      BY AtPlace DEF BlockKnown
    <2>3. Moved(p, "prepare", journal[p])
      BY <1>2, <1>5, AtPlace DEF Moved, ghosts
    <2>4. Stepped(p, "prepare", journal[p])
      BY <1>2, <2>1, <2>2, <2>3, AtPlace DEF Stepped, Places, ghosts
    <2>5. [old |-> b, new |-> c] \in [old : Blocks, new : Blocks]
      BY <1>1
    <2> HIDE DEF b
    <2> QED BY <1>2, <1>5, <2>4, <2>5, SteppedOn
  <1> QED BY <1>3, <1>4, <1>5

LEMMA PrepareOn ==
  ASSUME Typed, BlocksKnown, NEW p \in Projects, Prepare(p)
  PROVE  Typed' /\ BlocksKnown'
  <1> DEFINE b == Block(file, p)
  <1>1. UNCHANGED <<file, init, budget, ghosts>> /\ Spent
    BY DEF Prepare, Spent
  <1>2. CASE b = plan[p].old
    <2> DEFINE j == Journal("preparing", "pending", plan[p].old, plan[p].new, file,
                            kind[p] = "switch")
    <2>1. /\ journal' = [journal EXCEPT ![p] = j] /\ Goto(p, "prepared")
          /\ plan' = [plan EXCEPT ![p] = NoPlan] /\ UNCHANGED <<kind, elock, read>>
      BY <1>2 DEF Prepare
    <2>2. plan[p].old \in Blocks /\ plan[p].new \in Blocks /\ file \in Files
      BY DEF Typed, TypeOK
    <2>3. j \in Journals
      <3>1. Data(file) \in Seq(Segments)
        BY <2>2, DataTyped
      <3> QED BY <2>2, <3>1 DEF Journal, Journals
    <2>4. /\ j # NoJournal /\ j.phase = "preparing" /\ j.state = "pending"
          /\ j.old = plan[p].old
      BY <2>3, FilesAssumption DEF Journal
    <2> HIDE DEF j
    <2>5. Fits("prepared", j)
      BY <2>4 DEF Fits
    <2>6. BlockKnown("prepared", j, b, touched[p], settled[p])
      BY <1>2, <2>4 DEF BlockKnown
    <2>7. Moved(p, "prepared", j)
      BY <1>1, <2>1, AtPlace DEF Moved, ghosts
    <2>8. Stepped(p, "prepared", j)
      BY <1>1, <2>3, <2>5, <2>6, <2>7 DEF Stepped, Places, ghosts
    <2>9. NoPlan \in [old : Blocks, new : Blocks]
      BY DEF NoPlan, Blocks
    <2> QED BY <1>1, <2>1, <2>8, <2>9, SteppedOn
  <1>3. CASE b # plan[p].old
    <2>1. End(p) /\ journal' = journal
      BY <1>3 DEF Prepare
    <2> QED BY <1>1, <2>1, EndOn
  <1> QED BY <1>2, <1>3

LEMMA PreparedOn ==
  ASSUME Typed, BlocksKnown, NEW p \in Projects, Prepared(p)
  PROVE  Typed' /\ BlocksKnown'
  <1> DEFINE j == journal[p]
             new == Saves(j, "prepared", "pending")
  <1>1. /\ pc[p] = "prepared" /\ Continues(p) /\ Goto(p, "apply")
        /\ journal' = [journal EXCEPT ![p] = new]
    BY AtPlace DEF Prepared, Continues
  <1>2. j \in Journals /\ j.state = "pending" /\ j # NoJournal
    BY <1>1, AtPlace DEF Fits, Journaled
  <1>3. /\ new \in Journals /\ new # NoJournal
        /\ new.phase = "prepared" /\ new.state = "pending"
        /\ new.old = j.old /\ new.new = j.new
    <2>1. "prepared" \in Phases /\ "pending" \in States
      BY DEF Phases, States
    <2> QED BY <1>2, <2>1, SavesShape
  <1> HIDE DEF new
  <1>4. Fits("apply", new)
    BY <1>3 DEF Fits
  <1>5. overrun \/ BlockKnown("apply", new, Block(file, p), touched[p], settled[p])
    BY <1>2, <1>3, AtPlace DEF BlockKnown, Untouched
  <1> QED BY <1>1, <1>3, <1>4, <1>5, ContinueOn DEF Places

LEMMA BackUpOn ==
  ASSUME Typed, BlocksKnown, NEW p \in Projects, BackUp(p)
  PROVE  Typed' /\ BlocksKnown'
  <1> DEFINE j == journal[p]
             new == Saves(j, "committing", "backed_up")
  <1>1. pc[p] = "apply" /\ Continues(p) /\ j.state = "pending"
    BY DEF BackUp, Continues
  <1>2. j \in Journals /\ j # NoJournal
    BY <1>1, AtPlace DEF Fits, Journaled
  <1>3. CASE Block(file, p) = j.old
    <2>1. journal' = [journal EXCEPT ![p] = new] /\ pc' = pc
      BY <1>3, AtPlace DEF BackUp
    <2>2. Goto(p, "apply")
      BY <1>1, <2>1 DEF Goto, Typed, TypeOK
    <2>3. /\ new \in Journals /\ new # NoJournal
          /\ new.phase = "committing" /\ new.state = "backed_up"
          /\ new.old = j.old /\ new.new = j.new
      <3>1. "committing" \in Phases /\ "backed_up" \in States
        BY DEF Phases, States
      <3> QED BY <1>2, <3>1, SavesShape
    <2> HIDE DEF new
    <2>4. Fits("apply", new)
      BY <2>3 DEF Fits
    <2>5. BlockKnown("apply", new, Block(file, p), touched[p], settled[p])
      BY <1>3, <2>3 DEF BlockKnown, Untouched
    <2> QED BY <1>1, <2>1, <2>2, <2>3, <2>4, <2>5, ContinueOn DEF Places
  <1>4. CASE Block(file, p) # j.old
    <2>1. GiveUp(p)
      BY <1>4 DEF BackUp
    <2> QED BY <1>1, <1>2, <2>1, GiveUpOn
  <1> QED BY <1>3, <1>4

LEMMA ReadToInstallOn ==
  ASSUME Typed, BlocksKnown, NEW p \in Projects, ReadToInstall(p)
  PROVE  Typed' /\ BlocksKnown'
  <1> DEFINE j == journal[p]
             b == Block(file, p)
  <1>1. pc[p] = "apply" /\ j.state = "backed_up" /\ Continues(p)
    <2>1. read' = read \/ read' = [read EXCEPT ![p] = file]
      BY DEF ReadToInstall
    <2> QED BY <2>1 DEF ReadToInstall, Continues
  <1>2. j \in Journals \cup {NoJournal} /\ j # NoJournal /\ j.phase = "committing"
    <2>1. j \in Journals \cup {NoJournal} /\ Fits("apply", j)
      BY <1>1, AtPlace
    <2> QED BY <1>1, <2>1 DEF Fits, Journaled
  <1>3. CASE b = j.new
    <2>1. Goto(p, "installed") /\ journal' = [journal EXCEPT ![p] = j]
      BY <1>3, AtPlace DEF ReadToInstall
    <2>2. Fits("installed", j)
      BY <1>1, <1>2 DEF Fits
    <2>3. overrun \/ BlockKnown("installed", j, b, touched[p], settled[p])
      BY AtPlace DEF BlockKnown
    <2> QED BY <1>1, <1>2, <2>1, <2>2, <2>3, ContinueOn DEF Places
  <1>4. CASE b # j.new /\ b = j.old
    <2>1. Goto(p, "install") /\ journal' = [journal EXCEPT ![p] = j]
      BY <1>4, AtPlace DEF ReadToInstall
    <2>2. Fits("install", j)
      BY <1>1, <1>2 DEF Fits
    <2>3. overrun \/ BlockKnown("install", j, b, touched[p], settled[p])
      BY <1>4, AtPlace DEF BlockKnown
    <2> QED BY <1>1, <1>2, <2>1, <2>2, <2>3, ContinueOn DEF Places
  <1>5. CASE b # j.new /\ b # j.old
    <2>1. GiveUp(p)
      BY <1>5 DEF ReadToInstall
    <2> QED BY <1>1, <1>2, <2>1, GiveUpOn
  <1> QED BY <1>3, <1>4, <1>5

LEMMA SaveInstalledOn ==
  ASSUME Typed, BlocksKnown, NEW p \in Projects, SaveInstalled(p)
  PROVE  Typed' /\ BlocksKnown'
  <1> DEFINE j == journal[p]
             b == Block(file, p)
             done == Saves(j, "committing", "committed")
             undone == Saves(j, "rolling_back", "committed")
  <1>1. Continues(p) /\ pc[p] \in {"apply", "installed"}
    BY DEF SaveInstalled, Continues
  <1>2. j \in Journals /\ j # NoJournal
    BY <1>1, AtPlace DEF Fits, Journaled
  <1>3. CASE b = j.new
    <2>1. Goto(p, "others") /\ journal' = [journal EXCEPT ![p] = done]
      BY <1>3, AtPlace DEF SaveInstalled
    <2>2. /\ done \in Journals /\ done # NoJournal
          /\ done.phase = "committing" /\ done.state = "committed"
          /\ done.old = j.old /\ done.new = j.new
      BY <1>2, SavesShape DEF Phases, States
    <2> HIDE DEF done
    <2>3. Fits("others", done)
      BY <2>2 DEF Fits
    <2>4. BlockKnown("others", done, b, touched[p], settled[p])
      BY <1>3, <2>2 DEF BlockKnown, Untouched
    <2> QED BY <1>1, <2>1, <2>2, <2>3, <2>4, ContinueOn DEF Places
  <1>4. CASE b # j.new
    <2>1. Goto(p, "undo") /\ journal' = [journal EXCEPT ![p] = undone]
      BY <1>4, AtPlace DEF SaveInstalled
    <2>2. /\ undone \in Journals /\ undone # NoJournal
          /\ undone.phase = "rolling_back" /\ undone.state = "committed"
          /\ undone.old = j.old /\ undone.new = j.new
      BY <1>2, SavesShape DEF Phases, States
    <2> HIDE DEF undone
    <2>3. Fits("undo", undone)
      BY <2>2 DEF Fits
    <2>4. overrun \/ BlockKnown("undo", undone, b, touched[p], settled[p])
      BY <1>2, <2>2, AtPlace DEF BlockKnown, Untouched
    <2> QED BY <1>1, <2>1, <2>2, <2>3, <2>4, ContinueOn DEF Places
  <1> QED BY <1>3, <1>4

LEMMA OthersOn ==
  ASSUME Typed, BlocksKnown, NEW p \in Projects, CommitOthers(p) \/ OthersFail(p)
  PROVE  Typed' /\ BlocksKnown'
  <1> DEFINE j == journal[p]
             new == Saves(j, "cleanup", j.state)
  <1>1. Continues(p) /\ pc[p] \in {"apply", "others"}
    BY DEF CommitOthers, OthersFail, Continues
  <1>2. j \in Journals /\ j # NoJournal
    BY <1>1, AtPlace DEF Fits, Journaled
  <1>3. CASE OthersFail(p)
    BY <1>1, <1>2, <1>3, GiveUpOn DEF OthersFail
  <1>4. CASE CommitOthers(p)
    <2>1. /\ pc[p] = "others" /\ Goto(p, "finish")
          /\ journal' = [journal EXCEPT ![p] = new]
      BY <1>4, AtPlace DEF CommitOthers
    <2>2. j.state = "committed"
      BY <2>1, AtPlace DEF Fits
    <2>3. /\ new \in Journals /\ new # NoJournal
          /\ new.phase = "cleanup" /\ new.state = "committed"
          /\ new.old = j.old /\ new.new = j.new
      BY <1>2, <2>2, SavesShape DEF Phases, States
    <2> HIDE DEF new
    <2>4. Fits("finish", new)
      BY <2>3 DEF Fits
    <2>5. overrun \/ BlockKnown("finish", new, Block(file, p), touched[p], settled[p])
      BY <1>2, <2>1, <2>3, AtPlace DEF BlockKnown, Untouched
    <2> QED BY <1>1, <2>1, <2>3, <2>4, <2>5, ContinueOn DEF Places
  <1> QED BY <1>3, <1>4

LEMMA ReadToRestoreOn ==
  ASSUME Typed, BlocksKnown, NEW p \in Projects, ReadToRestore(p)
  PROVE  Typed' /\ BlocksKnown'
  <1> DEFINE j == journal[p]
             b == Block(file, p)
             new == Saves(j, "rolling_back", "rolled_back")
  <1>1. pc[p] = "undo" /\ Continues(p)
    BY DEF ReadToRestore, Continues
  <1>2. j \in Journals /\ j # NoJournal /\ j.phase = "rolling_back"
    BY <1>1, AtPlace DEF Fits, Journaled
  <1>3. CASE Untouched(j) /\ Goto(p, "finish") /\ journal' = journal
    <2>1. Fits("finish", j)
      BY <1>2, <1>3 DEF Fits
    <2>2. overrun \/ BlockKnown("finish", j, b, touched[p], settled[p])
      BY AtPlace DEF BlockKnown
    <2> QED BY <1>1, <1>2, <1>3, <2>1, <2>2, AtPlace, ContinueOn DEF Places
  <1>4. CASE b = j.old /\ Save(p, "rolling_back", "rolled_back") /\ pc' = pc
    <2>1. journal' = [journal EXCEPT ![p] = new]
      BY <1>4, AtPlace
    <2>2. Goto(p, "undo")
      BY <1>1, <1>4 DEF Goto, Typed, TypeOK
    <2>3. /\ new \in Journals /\ new # NoJournal
          /\ new.phase = "rolling_back" /\ new.state = "rolled_back"
          /\ new.old = j.old /\ new.new = j.new
      BY <1>2, SavesShape DEF Phases, States
    <2> HIDE DEF new
    <2>4. Fits("undo", new)
      BY <2>3 DEF Fits
    <2>5. BlockKnown("undo", new, b, touched[p], settled[p])
      BY <1>4, <2>3 DEF BlockKnown
    <2> QED BY <1>1, <2>1, <2>2, <2>3, <2>4, <2>5, ContinueOn DEF Places
  <1>5. CASE /\ ~Untouched(j) /\ b \in Recognized(j) /\ b # j.old
             /\ Goto(p, "restore") /\ journal' = journal
    <2>1. Fits("restore", j)
      BY <1>2, <1>5 DEF Fits
    <2>2. overrun \/ BlockKnown("restore", j, b, touched[p], settled[p])
      BY <1>5, AtPlace DEF BlockKnown, Recognized
    <2> QED BY <1>1, <1>2, <1>5, <2>1, <2>2, AtPlace, ContinueOn DEF Places
  <1> QED BY <1>3, <1>4, <1>5 DEF ReadToRestore

LEMMA SaveRestoredOn ==
  ASSUME Typed, BlocksKnown, NEW p \in Projects, SaveRestored(p)
  PROVE  Typed' /\ BlocksKnown'
  <1> DEFINE j == journal[p]
             new == Saves(j, "rolling_back", "rolled_back")
  <1>1. pc[p] = "restored" /\ Continues(p) /\ Goto(p, "undo")
    BY DEF SaveRestored, Continues
  <1>2. j \in Journals /\ j # NoJournal
    BY <1>1, AtPlace DEF Fits, Journaled
  <1>3. journal' = [journal EXCEPT ![p] = new]
    BY AtPlace DEF SaveRestored
  <1>4. /\ new \in Journals /\ new # NoJournal
        /\ new.phase = "rolling_back" /\ new.state = "rolled_back"
        /\ new.old = j.old /\ new.new = j.new
    BY <1>2, SavesShape DEF Phases, States
  <1> HIDE DEF new
  <1>5. Fits("undo", new)
    BY <1>4 DEF Fits
  <1>6. overrun \/ BlockKnown("undo", new, Block(file, p), touched[p], settled[p])
    BY <1>1, <1>2, <1>4, AtPlace DEF BlockKnown
  <1> QED BY <1>1, <1>3, <1>4, <1>5, <1>6, ContinueOn DEF Places

LEMMA FinishOn ==
  ASSUME Typed, BlocksKnown, NEW p \in Projects, Finish(p)
  PROVE  Typed' /\ BlocksKnown'
  <1> DEFINE j == journal[p]
             b == Block(file, p)
             left == IF touched[p] THEN b ELSE IF j.phase = "cleanup" THEN j.new ELSE j.old
             changed == j.phase = "cleanup" /\ b # j.new
  <1>0. CASE changed
    <2>1. End(p) /\ UNCHANGED <<file, journal, init, budget, ghosts>>
      BY <1>0 DEF Finish, ghosts
    <2> QED BY <2>1, EndOn DEF Spent
  <1> SUFFICES ASSUME ~changed PROVE Typed' /\ BlocksKnown'
    BY <1>0
  <1>1. /\ pc[p] = "finish" /\ End(p) /\ UNCHANGED <<file, init, budget, overrun>>
        /\ journal' = [journal EXCEPT ![p] = NoJournal]
        /\ settled' = [settled EXCEPT ![p] = left]
        /\ touched' = [touched EXCEPT ![p] = FALSE]
    BY DEF Finish
  <1>2. j \in Journals /\ j # NoJournal /\ (j.phase = "cleanup" \/ Untouched(j))
    <2>1. Fits("finish", j) /\ j \in Journals \cup {NoJournal}
      BY <1>1, AtPlace
    <2> QED BY <2>1 DEF Fits, Journaled
  <1>3. file \in Files /\ OneBlockEach(file) /\ b \in Blocks
    <2>1. file \in Files /\ OneBlockEach(file)
      BY DEF Typed, TypeOK
    <2> QED BY <2>1, BlockIsHeld
  <1>4. left \in Blocks
    BY <1>2, <1>3 DEF Journals
  <1>5. overrun \/ b = left
    <2>1. overrun \/ BlockKnown(pc[p], j, b, touched[p], settled[p])
      BY AtPlace
    <2> QED BY <1>2, <2>1 DEF BlockKnown
  <1> HIDE DEF left
  <1>6. Moved(p, "idle", NoJournal)
    BY <1>1 DEF Moved, End, Goto
  <1>7. Fits("idle", NoJournal)
    BY DEF Fits, Journaled
  <1>8. /\ settled' \in [Projects -> Blocks] /\ settled'[p] = left
        /\ \A q \in Projects : q # p => settled'[q] = settled[q]
    <2>1. settled \in [Projects -> Blocks]
      BY DEF Typed, TypeOK
    <2> QED BY <1>1, <1>4, <2>1
  <1>9. /\ touched' \in [Projects -> BOOLEAN]
        /\ \A q \in Projects : q # p => touched'[q] = touched[q]
    <2>1. touched \in [Projects -> BOOLEAN]
      BY DEF Typed, TypeOK
    <2> QED BY <1>1, <2>1
  <1>10. Typed'
    <2>1. /\ kind' \in [Projects -> {"install", "switch", "rollback"}]
          /\ plan' \in [Projects -> [old : Blocks, new : Blocks]]
      <3>1. /\ kind \in [Projects -> {"install", "switch", "rollback"}]
            /\ plan \in [Projects -> [old : Blocks, new : Blocks]]
        BY DEF Typed, TypeOK
      <3>2. NoPlan \in [old : Blocks, new : Blocks]
        BY DEF NoPlan, Blocks
      <3> QED BY <1>1, <3>1, <3>2 DEF End
    <2>2. NoFile \in Files /\ OneBlockEach(NoFile) /\ read' = [read EXCEPT ![p] = NoFile]
      BY <1>1 DEF Files, OneBlockEach, Span, Data, End
    <2>3. elock' \in {elock, p, Nobody} /\ Spent /\ "idle" \in Places
      BY <1>1 DEF End, Spent, Places
    <2>4. file' \in Files /\ OneBlockEach(file')
      BY <1>1, <1>3
    <2> QED BY <1>6, <1>7, <1>8, <1>9, <2>1, <2>2, <2>3, <2>4, MovedTyped
  <1>11. BlocksKnown'
    <2>1. overrun \/ BlockKnown("idle", NoJournal, Block(file', p), touched'[p], settled'[p])
      BY <1>1, <1>5, <1>8 DEF BlockKnown
    <2>2. "idle" \in Places /\ file' = file
      BY <1>1 DEF Places
    <2> QED BY <1>6, <1>8, <1>9, <2>1, <2>2, MovedKnown
  <1> QED BY <1>10, <1>11

\* p's process writes the file: it holds the lock, and the file is what it read.
LEMMA WriteOn ==
  ASSUME Typed, BlocksKnown, ExcludeInvariant, NEW p \in Projects,
         WriteInstalled(p) \/ WriteRestored(p)
  PROVE  Typed' /\ BlocksKnown'
  <1> DEFINE j == journal[p]
             f == read[p]
  <1>1. /\ UNCHANGED <<journal, elock, kind, plan, init, budget, ghosts>>
        /\ read' = [read EXCEPT ![p] = NoFile]
        /\ pc[p] \in Rewriting
    BY DEF WriteInstalled, WriteRestored, Rewriting
  <1>2. f \in Files /\ OneBlockEach(f)
    BY DEF Typed, TypeOK, HoldersTyped
  <1>3. overrun \/ f = file
    BY <1>1 DEF ExcludeInvariant, ReadIsCurrent
  <1>4. Fits(pc[p], j) /\ j \in Journals \cup {NoJournal}
    BY AtPlace
  <1>5. j \in Journals /\ j # NoJournal /\ j.old \in Blocks /\ j.new \in Blocks
    <2>1. j # NoJournal
      BY <1>1, <1>4 DEF Fits, Journaled, Rewriting
    <2> QED BY <1>4, <2>1 DEF Journals
  <1>6. PICK place \in {"installed", "restored"}, c \in Blocks :
          /\ Goto(p, place) /\ Rewritten(f, file', p, c)
          /\ Fits(place, j)
          /\ overrun \/ BlockKnown(place, j, c, touched[p], settled[p])
    <2>1. CASE WriteInstalled(p)
      <3>1. pc[p] = "install" /\ Goto(p, "installed") /\ file' = Replace(f, p, j.new)
        BY <2>1 DEF WriteInstalled
      <3>2. Rewritten(f, file', p, j.new)
        BY <1>2, <1>5, <3>1, ReplaceRewrites
      <3>3. Fits("installed", j) /\ j.phase = "committing" /\ j.state = "backed_up"
        BY <1>4, <3>1 DEF Fits, Journaled
      <3>4. BlockKnown("installed", j, j.new, touched[p], settled[p])
        BY <1>5, <3>3 DEF BlockKnown, Untouched
      <3> QED BY <1>5, <3>1, <3>2, <3>3, <3>4
    <2>2. CASE WriteRestored(p)
      <3>1. pc[p] = "restore" /\ Goto(p, "restored") /\ file' = Restore(f, p, j)
        BY <2>2 DEF WriteRestored
      <3>2. Rewritten(f, file', p, j.old)
        BY <1>2, <1>5, <3>1, RestoreRewrites
      <3>3. Fits("restored", j) /\ j.phase = "rolling_back"
        BY <1>4, <3>1 DEF Fits, Journaled
      <3>4. BlockKnown("restored", j, j.old, touched[p], settled[p])
        BY <1>5, <3>3 DEF BlockKnown
      <3> QED BY <1>5, <3>1, <3>2, <3>3, <3>4
    <2> QED BY <2>1, <2>2
  <1>7. /\ file' \in Files /\ OneBlockEach(file') /\ Block(file', p) = c
        /\ overrun \/ \A q \in Projects : q # p => Block(file', q) = Block(file, q)
    BY <1>3, <1>6 DEF Rewritten
  <1>8. Moved(p, place, j)
    BY <1>1, <1>6, AtPlace DEF Moved, ghosts
  <1>9. place \in Places
    BY DEF Places
  <1>10. Typed'
    <2>1. NoFile \in Files /\ OneBlockEach(NoFile)
      BY DEF Files, OneBlockEach, Span, Data
    <2>2. /\ kind' \in [Projects -> {"install", "switch", "rollback"}]
          /\ plan' \in [Projects -> [old : Blocks, new : Blocks]]
          /\ settled' \in [Projects -> Blocks] /\ touched' \in [Projects -> BOOLEAN]
      BY <1>1 DEF Typed, TypeOK, ghosts
    <2>3. elock' = elock /\ Spent
      BY <1>1 DEF Spent
    <2> QED BY <1>1, <1>4, <1>6, <1>7, <1>8, <1>9, <2>1, <2>2, <2>3, MovedTyped
  <1>11. BlocksKnown'
    <2>1. touched' = touched /\ settled' = settled
      BY <1>1 DEF ghosts
    <2> QED BY <1>4, <1>6, <1>7, <1>8, <1>9, <2>1, MovedKnown
  <1> QED BY <1>10, <1>11

\* No step of a home's process breaks what is known.
LEMMA RunOn ==
  ASSUME Typed, BlocksKnown, ExcludeInvariant, NEW p \in Projects,
         Begin(p) \/ Run(p) \/ Crash(p)
  PROVE  Typed' /\ BlocksKnown'
  <1>1. CASE LockTimeout(p) \/ RecoverRefused(p) \/ RestoreRefused(p) \/ Crash(p)
    <2>1. End(p) /\ UNCHANGED <<file, journal, init, ghosts>> /\ Spent
      BY <1>1 DEF LockTimeout, RecoverRefused, RestoreRefused, Crash, Spent
    <2> QED BY <2>1, EndOn
  <1>2. CASE Begin(p) \/ LockToRecover(p) \/ LockToPlan(p)
    BY <1>2, StartOn
  <1>3. CASE Recover(p)
    BY <1>3, RecoverOn
  <1>4. CASE Plan(p)
    BY <1>4, PlanOn
  <1>5. CASE Prepare(p)
    BY <1>5, PrepareOn
  <1>6. CASE Prepared(p)
    BY <1>6, PreparedOn
  <1>7. CASE BackUp(p)
    BY <1>7, BackUpOn
  <1>8. CASE ReadToInstall(p)
    BY <1>8, ReadToInstallOn
  <1>9. CASE WriteInstalled(p) \/ WriteRestored(p)
    BY <1>9, WriteOn
  <1>10. CASE SaveInstalled(p)
    BY <1>10, SaveInstalledOn
  <1>11. CASE CommitOthers(p) \/ OthersFail(p)
    BY <1>11, OthersOn
  <1>12. CASE ReadToRestore(p)
    BY <1>12, ReadToRestoreOn
  <1>13. CASE SaveRestored(p)
    BY <1>13, SaveRestoredOn
  <1>14. CASE Finish(p)
    BY <1>14, FinishOn
  <1> QED
    BY <1>1, <1>2, <1>3, <1>4, <1>5, <1>6, <1>7, <1>8, <1>9, <1>10, <1>11, <1>12,
       <1>13, <1>14 DEF Run

\* The processes of the homes leave csk init alone: who writes holds the lock.
LEMMA RunFollows ==
  ASSUME InitFollows, ExcludeInvariant, NEW p \in Projects,
         Begin(p) \/ Run(p) \/ Crash(p)
  PROVE  InitFollows'
  <1>1. init' = init /\ overrun' = overrun
    BY DEF Begin, Run, Crash, LockTimeout, LockToRecover, RecoverRefused, Recover,
           LockToPlan, Plan, Prepare, Prepared, BackUp, ReadToInstall, WriteInstalled,
           SaveInstalled, CommitOthers, OthersFail, RestoreRefused, ReadToRestore,
           WriteRestored, SaveRestored, Finish, ghosts
  <1>2. read'[Initializer] = read[Initializer]
    <2>1. read' = read \/ \E f : read' = [read EXCEPT ![p] = f]
      BY DEF Begin, Run, Crash, LockTimeout, LockToRecover, RecoverRefused, Recover,
             LockToPlan, Plan, Prepare, Prepared, BackUp, ReadToInstall, WriteInstalled,
             SaveInstalled, CommitOthers, OthersFail, RestoreRefused, ReadToRestore,
             WriteRestored, SaveRestored, Finish, End
    <2>2. p # Initializer
      BY HoldersAssumption
    <2> QED BY <2>1, <2>2 DEF ExcludeInvariant, Placed
  <1>3. CASE WriteInstalled(p) \/ WriteRestored(p)
    <2>1. pc[p] \notin Unlocked
      BY <1>3 DEF WriteInstalled, WriteRestored, Unlocked
    <2>2. init.pc = "idle"
      BY <2>1, HoldersAssumption DEF ExcludeInvariant, LockHeld
    <2> QED BY <1>1, <2>2 DEF InitFollows
  <1>4. CASE ~(WriteInstalled(p) \/ WriteRestored(p))
    <2>1. file' = file
      BY <1>4 DEF Begin, Run, Crash, LockTimeout, LockToRecover, RecoverRefused, Recover,
                  LockToPlan, Plan, Prepare, Prepared, BackUp, ReadToInstall,
                  SaveInstalled, CommitOthers, OthersFail, RestoreRefused, ReadToRestore,
                  SaveRestored, Finish
    <2> QED BY <1>1, <1>2, <2>1 DEF InitFollows
  <1> QED BY <1>3, <1>4

Inits == [pc : {"idle", "plan", "check", "write"}, project : Projects \cup {Nobody},
          text : Blocks, seen : Files]

\* The types after a step of csk init or of the user.
LEMMA ApartTyped ==
  ASSUME Typed, UNCHANGED <<pc, journal, kind, plan>>,
         file' \in Files, OneBlockEach(file'),
         elock' \in {elock, Initializer, Nobody},
         init' \in Inits,
         init'.pc # "idle" => init'.project \in Projects /\ init'.text = InitPatterns,
         NEW f \in Files, OneBlockEach(f), read' = [read EXCEPT ![Initializer] = f],
         Spent, settled' \in [Projects -> Blocks], touched' \in [Projects -> BOOLEAN],
         overrun' \in BOOLEAN
  PROVE  Typed'
  <1>1. /\ read' \in [Projects \cup {Initializer} -> Files]
        /\ \A h \in Projects \cup {Initializer} : OneBlockEach(read'[h])
    <2>1. /\ read \in [Projects \cup {Initializer} -> Files]
          /\ \A h \in Projects \cup {Initializer} : OneBlockEach(read[h])
      BY DEF Typed, TypeOK, HoldersTyped
    <2>2. \A h \in Projects \cup {Initializer} :
            read'[h] = IF h = Initializer THEN f ELSE read[h]
      BY <2>1
    <2>3. read' \in [Projects \cup {Initializer} -> Files]
      BY <2>1
    <2> QED BY <2>1, <2>2, <2>3
  <1>2. budget' \in Budgets
    <2>1. budget \in Budgets
      BY DEF Typed, TypeOK, Budgets
    <2> QED BY <2>1, BudgetTyped
  <1>3. elock' \in Projects \cup {Initializer, Nobody}
    BY DEF Typed, TypeOK
  <1>4. TypeOK'
    <2>1. /\ journal \in [Projects -> Journals \cup {NoJournal}]
          /\ pc \in [Projects -> Places]
          /\ kind \in [Projects -> {"install", "switch", "rollback"}]
          /\ plan \in [Projects -> [old : Blocks, new : Blocks]]
      BY DEF Typed, TypeOK, Places
    <2> QED BY <1>1, <1>2, <1>3, <2>1 DEF TypeOK, Places, Budgets, Inits
  <1>5. HoldersTyped'
    BY <1>1 DEF HoldersTyped
  <1>6. \A q \in Projects : Fits(pc'[q], journal'[q])
    BY DEF Typed
  <1> QED BY <1>4, <1>5, <1>6 DEF Typed

\* What is known of the blocks after a step that changes none.
LEMMA ApartKnown ==
  ASSUME BlocksKnown, UNCHANGED <<pc, journal, settled, touched, overrun, file>>
  PROVE  BlocksKnown'
  BY DEF BlocksKnown

LEMMA NothingRead ==
  /\ NoFile \in Files /\ OneBlockEach(NoFile) /\ NotRunning \in Inits
  /\ NotRunning.pc = "idle"
  <1>1. NoFile \in Files /\ OneBlockEach(NoFile)
    BY DEF Files, OneBlockEach, Span, Data
  <1> QED BY <1>1 DEF NotRunning, Inits, Blocks

\* csk init stops without a write: it has found its block, it has found the
\* file changed, or it dies.
LEMMA InitEndsOn ==
  ASSUME Typed, BlocksKnown, InitEnds, Spent,
         UNCHANGED <<file, journal, pc, kind, plan, ghosts>>
  PROVE  Typed' /\ BlocksKnown' /\ InitFollows'
  <1>1. /\ elock' = Nobody /\ init' = NotRunning
        /\ read' = [read EXCEPT ![Initializer] = NoFile]
    BY DEF InitEnds
  <1>2. Typed'
    <2>1. /\ file' \in Files /\ OneBlockEach(file') /\ settled' \in [Projects -> Blocks]
          /\ touched' \in [Projects -> BOOLEAN] /\ overrun' \in BOOLEAN
      BY DEF Typed, TypeOK, ghosts
    <2> QED BY <1>1, <2>1, NothingRead, ApartTyped
  <1>3. BlocksKnown'
    BY ApartKnown DEF ghosts
  <1>4. InitFollows'
    BY <1>1, NothingRead DEF InitFollows
  <1> QED BY <1>2, <1>3, <1>4

\* csk init sees the file, reads it again, and compares.
LEMMA EnsureReads ==
  ASSUME Typed, BlocksKnown, InitFollows, EnsureLock \/ EnsurePlan \/ EnsureCheck
  PROVE  Typed' /\ BlocksKnown' /\ InitFollows'
  <1>1. /\ file \in Files /\ OneBlockEach(file) /\ settled \in [Projects -> Blocks]
        /\ touched \in [Projects -> BOOLEAN] /\ overrun \in BOOLEAN /\ init \in Inits
        /\ read \in [Projects \cup {Initializer} -> Files] /\ OneBlockEach(read[Initializer])
        /\ init.pc # "idle" => init.project \in Projects /\ init.text = InitPatterns
    BY DEF Typed, TypeOK, HoldersTyped, Inits
  <1>2. /\ UNCHANGED <<file, journal, pc, kind, plan, ghosts>> /\ Spent
    BY DEF EnsureLock, EnsurePlan, EnsureCheck, Spent, ghosts
  <1>3. CASE InitEnds
    BY <1>2, <1>3, InitEndsOn
  <1>4. CASE EnsureLock
    <2>1. PICK p \in Projects :
            init' = [pc |-> "plan", project |-> p, text |-> InitPatterns, seen |-> file]
      BY <1>4 DEF EnsureLock
    <2>2. elock' = Initializer /\ read' = [read EXCEPT ![Initializer] = read[Initializer]]
      BY <1>1, <1>4 DEF EnsureLock
    <2>3. init' \in Inits /\ init'.project = p /\ init'.text = InitPatterns
          /\ init'.pc = "plan" /\ init'.seen = file
      BY <1>1, <2>1, BlocksAssumption DEF Inits, Blocks
    <2>4. Typed'
      <3>1. read[Initializer] \in Files
        BY <1>1
      <3> QED BY <1>1, <1>2, <2>2, <2>3, <3>1, ApartTyped DEF ghosts
    <2>5. BlocksKnown'
      BY <1>2, ApartKnown DEF ghosts
    <2>6. InitFollows'
      BY <1>2, <2>3, FollowsItself DEF InitFollows
    <2> QED BY <2>4, <2>5, <2>6
  <1>5. CASE /\ init.pc = "plan" /\ init' = [init EXCEPT !.pc = "check"]
             /\ read' = [read EXCEPT ![Initializer] = file] /\ elock' = elock
    <2>1. init' \in Inits /\ init'.project = init.project /\ init'.text = init.text
          /\ init'.pc = "check" /\ init'.seen = init.seen
      BY <1>1, <1>5 DEF Inits
    <2>2. Typed'
      BY <1>1, <1>2, <1>5, <2>1, ApartTyped DEF ghosts
    <2>3. BlocksKnown'
      BY <1>2, ApartKnown DEF ghosts
    <2>4. read'[Initializer] = file
      BY <1>1, <1>5
    <2>5. InitFollows'
      BY <1>2, <1>5, <2>1, <2>4, FollowsItself DEF InitFollows
    <2> QED BY <2>2, <2>3, <2>5
  <1>6. CASE /\ init.pc = "check" /\ Data(file) = Data(init.seen)
             /\ init' = [init EXCEPT !.pc = "write"] /\ UNCHANGED <<elock, read>>
    <2>1. init' \in Inits /\ init'.project = init.project /\ init'.text = init.text
          /\ init'.pc = "write" /\ init'.seen = init.seen
      BY <1>1, <1>6 DEF Inits
    <2>2. Typed'
      <3>1. read' = [read EXCEPT ![Initializer] = read[Initializer]]
            /\ read[Initializer] \in Files
        BY <1>1, <1>6
      <3> QED BY <1>1, <1>2, <1>6, <2>1, <3>1, ApartTyped DEF ghosts
    <2>3. BlocksKnown'
      BY <1>2, ApartKnown DEF ghosts
    <2> DEFINE f == read[Initializer]
    <2>4. f \in Files /\ init.seen \in Files
      BY <1>1 DEF Inits
    <2>5. Follows(init.seen, f) /\ Follows(f, file)
      BY <1>6 DEF InitFollows
    <2>6. Follows(file, f)
      <3>1. Follows(file, init.seen)
        BY <1>6, FollowsItself
      <3> QED BY <1>1, <2>4, <2>5, <3>1, FollowsTransitive
    <2>7. Data(f) = Data(file)
      BY <1>1, <2>4, <2>5, <2>6, FollowsBothWays
    <2>8. InitFollows'
      BY <1>2, <1>6, <2>1, <2>7 DEF InitFollows
    <2> QED BY <2>2, <2>3, <2>8
  <1> QED BY <1>3, <1>4, <1>5, <1>6 DEF EnsurePlan, EnsureCheck

\* A block that somebody else than its journal's process has changed.
LEMMA TouchShape ==
  ASSUME Typed, NEW p \in Projects, NEW c \in Blocks, Touch(p, c)
  PROVE  /\ settled' \in [Projects -> Blocks] /\ touched' \in [Projects -> BOOLEAN]
         /\ \A q \in Projects : q # p => settled'[q] = settled[q] /\ touched'[q] = touched[q]
         /\ journal[p] = NoJournal => settled'[p] = c
         /\ journal[p] # NoJournal => touched'[p]
  <1>1. settled \in [Projects -> Blocks] /\ touched \in [Projects -> BOOLEAN]
    BY DEF Typed, TypeOK
  <1>2. CASE journal[p] = NoJournal
    <2>1. settled' = [settled EXCEPT ![p] = c] /\ touched' = touched
      BY <1>2 DEF Touch
    <2> QED BY <1>1, <1>2, <2>1
  <1>3. CASE journal[p] # NoJournal
    <2>1. touched' = [touched EXCEPT ![p] = TRUE] /\ settled' = settled
      BY <1>3 DEF Touch
    <2> QED BY <1>1, <1>3, <2>1
  <1> QED BY <1>2, <1>3

\* It is known again, unless a process is about to replace it.
LEMMA TouchKnown ==
  ASSUME Typed, BlocksKnown, NEW p \in Projects, NEW c \in Blocks, Touch(p, c),
         UNCHANGED <<pc, journal>>, overrun => overrun',
         overrun' \/ /\ \A q \in Projects : pc[q] \notin Rewriting
                     /\ Block(file', p) = c
                     /\ \A q \in Projects : q # p => Block(file', q) = Block(file, q)
  PROVE  BlocksKnown'
  <1>1. ASSUME ~overrun', NEW q \in Projects
        PROVE  BlockKnown(pc[q], journal[q], Block(file', q), touched'[q], settled'[q])
    <2>1. BlockKnown(pc[q], journal[q], Block(file, q), touched[q], settled[q])
      BY <1>1 DEF BlocksKnown
    <2>2. CASE q = p
      <3>1. pc[p] \notin Rewriting /\ Block(file', p) = c
        BY <1>1
      <3> QED BY <2>2, <3>1, TouchShape DEF BlockKnown, Rewriting
    <2>3. CASE q # p
      <3>1. /\ Block(file', q) = Block(file, q) /\ settled'[q] = settled[q]
            /\ touched'[q] = touched[q]
        BY <1>1, <2>3, TouchShape
      <3> QED BY <2>1, <3>1
    <2> QED BY <2>2, <2>3
  <1> QED BY <1>1 DEF BlocksKnown

\* csk init writes under the lock, what it has read.
LEMMA EnsureWrites ==
  ASSUME Typed, BlocksKnown, InitFollows, ExcludeInvariant, EnsureWrite
  PROVE  Typed' /\ BlocksKnown' /\ InitFollows'
  <1> DEFINE f == read[Initializer]
             p == init.project
             c == init.text
  <1>1. /\ init.pc = "write" /\ file' = Replace(f, p, c) /\ Touch(p, c)
        /\ elock' = Nobody /\ init' = NotRunning
        /\ read' = [read EXCEPT ![Initializer] = NoFile]
        /\ UNCHANGED <<journal, pc, kind, plan, budget, overrun>>
    BY DEF EnsureWrite, InitEnds
  <1>2. /\ f \in Files /\ OneBlockEach(f) /\ file \in Files /\ p \in Projects
        /\ OneBlockEach(file) /\ c = InitPatterns /\ c \in Blocks /\ overrun \in BOOLEAN
    BY <1>1, BlocksAssumption DEF Typed, TypeOK, HoldersTyped, Blocks
  <1> HIDE DEF f, p, c
  <1>3. Rewritten(f, file', p, c)
    BY <1>1, <1>2, ReplaceRewrites
  <1>4. overrun \/ \A q \in Projects : Block(f, q) = Block(file, q)
    <2>1. overrun \/ Data(f) = Data(file)
      BY <1>1 DEF InitFollows, f
    <2>2. CASE Data(f) = Data(file)
      BY <1>2, <2>2, SameData
    <2> QED BY <2>1, <2>2
  <1>5. \A q \in Projects : pc[q] \notin Rewriting
    <2>1. elock = Initializer
      BY <1>1 DEF ExcludeInvariant, LockHeld
    <2> QED BY <2>1, HoldersAssumption DEF ExcludeInvariant, LockHeld, Unlocked, Rewriting
  <1>6. Typed'
    <2>1. file' \in Files /\ OneBlockEach(file')
      BY <1>3 DEF Rewritten
    <2>2. settled' \in [Projects -> Blocks] /\ touched' \in [Projects -> BOOLEAN]
      BY <1>1, <1>2, TouchShape
    <2> QED BY <1>1, <1>2, <2>1, <2>2, NothingRead, ApartTyped DEF Spent
  <1>7. BlocksKnown'
    <2>1. overrun' \/ /\ Block(file', p) = c
                      /\ \A q \in Projects : q # p => Block(file', q) = Block(file, q)
      BY <1>1, <1>3, <1>4 DEF Rewritten
    <2> QED BY <1>1, <1>2, <1>5, <2>1, TouchKnown
  <1>8. InitFollows'
    BY <1>1, NothingRead DEF InitFollows
  <1> QED BY <1>6, <1>7, <1>8

\* What the user leaves follows what was there.
LEMMA EditShape ==
  ASSUME Typed, Edit
  PROVE  /\ file' \in Files /\ OneBlockEach(file') /\ Follows(file, file')
         /\ \/ /\ UNCHANGED <<settled, touched>>
               /\ \A q \in Projects : Block(file', q) = Block(file, q)
            \/ \E p \in Projects :
                 /\ Touch(p, NoBlock) /\ Block(file', p) = NoBlock
                 /\ \A q \in Projects : q # p => Block(file', q) = Block(file, q)
  <1> DEFINE d == Data(file)
  <1>1. file \in Files /\ OneBlockEach(file)
    BY DEF Typed, TypeOK
  <1>2. d \in Seq(Segments) /\ Data(d) = d /\ d \in Files
    <2>1. d \in Seq(Segments) /\ Data(d) = d
      BY <1>1, DataTyped
    <2> QED BY <2>1, DataOfSeq
  <1>3. /\ OneBlockEach(d)
        /\ \A q \in Projects : Span(d, q) = Span(file, q) /\ Block(d, q) = Block(file, q)
    BY <1>1, <1>2, SameData
  <1> HIDE DEF d
  <1>4. /\ Ended(d) \in Seq(Segments) /\ OneBlockEach(Ended(d)) /\ ~Unended(Ended(d))
        /\ Len(Ended(d)) = Len(d)
        /\ \A q \in Projects : /\ Span(Ended(d), q) = Span(d, q)
                               /\ Block(Ended(d), q) = Block(d, q)
    BY <1>2, <1>3, LastEnded
  <1>5. CASE file' = Ended(d) \o <<LineOf(NewLine, TRUE)>> /\ UNCHANGED <<settled, touched>>
    <2>1. LineOf(NewLine, TRUE) \in Lines
      <3>1. NewLine \in {OwnLine, NewLine} /\ TRUE \in BOOLEAN
        OBVIOUS
      <3>2. \A l \in {OwnLine, NewLine} : \A e \in BOOLEAN : LineOf(l, e) \in Lines
        BY DEF Lines
      <3> QED BY <3>1, <3>2
    <2>2. /\ file' \in Seq(Segments) /\ OneBlockEach(file') /\ Len(file') = Len(d) + 1
          /\ \A q \in Projects : /\ Span(file', q) = Span(file, q)
                                 /\ Block(file', q) = Block(file, q)
      BY <1>3, <1>4, <1>5, <2>1, AppendedShape
    <2>3. file' \in Files /\ Data(file') = file'
      BY <2>2, DataOfSeq
    <2>4. Len(Data(file')) > Len(Data(file))
      <3>1. Len(d) \in Nat
        BY <1>2
      <3> QED BY <2>2, <2>3, <3>1 DEF d
    <2>5. Follows(file, file')
      BY <2>2, <2>4 DEF Follows
    <2> QED BY <1>5, <2>2, <2>3, <2>5
  <1>6. CASE Unended(d) /\ file' = Ended(file) /\ UNCHANGED <<settled, touched>>
    <2>1. file = d
      BY <1>6 DEF d, Data, Unended
    <2>2. file' \in Files /\ Data(file') = file' /\ file' = Ended(d)
      <3>1. file' = Ended(d)
        BY <1>6, <2>1
      <3> QED BY <1>4, <3>1, DataOfSeq
    <2>3. /\ \A q \in Projects : /\ Span(file', q) = Span(file, q)
                                 /\ Block(file', q) = Block(file, q)
          /\ OneBlockEach(file') /\ ~Unended(Data(file')) /\ Len(Data(file')) = Len(d)
      BY <1>3, <1>4, <2>2
    <2>4. Follows(file, file')
      BY <1>6, <2>3 DEF Follows, d
    <2> QED BY <1>6, <2>2, <2>3, <2>4
  <1>7. ASSUME NEW p \in Projects, Block(file, p) # NoBlock,
               file' = Replace(file, p, NoBlock), Touch(p, NoBlock)
        PROVE  /\ file' \in Files /\ OneBlockEach(file') /\ Follows(file, file')
               /\ Block(file', p) = NoBlock
               /\ \A q \in Projects : q # p => Block(file', q) = Block(file, q)
    <2>1. NoBlock \in Blocks
      BY DEF Blocks
    <2>2. Rewritten(file, file', p, NoBlock)
      BY <1>1, <1>7, <2>1, ReplaceRewrites
    <2>3. /\ file' \in Files /\ OneBlockEach(file') /\ Block(file', p) = NoBlock
          /\ \A q \in Projects : q # p => Block(file', q) = Block(file, q)
      BY <2>2 DEF Rewritten
    <2>4. \A q \in Projects : /\ Span(file', q) = {} <=> Block(file', q) = NoBlock
                              /\ Span(file, q) = {} <=> Block(file, q) = NoBlock
      BY <1>1, <2>3, BlockIsHeld
    <2>5. Follows(file, file')
      BY <1>7, <2>3, <2>4 DEF Follows
    <2> QED BY <2>3, <2>5
  <1>8. \/ /\ \/ file' = Ended(d) \o <<LineOf(NewLine, TRUE)>>
              \/ Unended(d) /\ file' = Ended(file)
           /\ UNCHANGED <<settled, touched>>
        \/ \E p \in Projects : /\ Block(file, p) # NoBlock
                               /\ file' = Replace(file, p, NoBlock) /\ Touch(p, NoBlock)
    BY DEF Edit, d
  <1> QED BY <1>5, <1>6, <1>7, <1>8

LEMMA EditOn ==
  ASSUME Typed, BlocksKnown, InitFollows, Edit
  PROVE  Typed' /\ BlocksKnown' /\ InitFollows'
  <1>1. /\ UNCHANGED <<journal, elock, pc, kind, plan, read, init>> /\ Spent
        /\ overrun \in BOOLEAN /\ overrun' \in BOOLEAN /\ (overrun => overrun')
        /\ overrun' \/ /\ \A p \in Projects : pc[p] \notin Rewriting
                       /\ init.pc # "write"
    <2>1. UNCHANGED <<journal, elock, pc, kind, plan, read, init>> /\ Spent
      BY DEF Edit, Spent
    <2>2. overrun' = (\/ overrun \/ init.pc = "write"
                      \/ \E p \in Projects : pc[p] \in Rewriting)
      BY DEF Edit, Rewriting
    <2>3. overrun \in BOOLEAN
      BY DEF Typed, TypeOK
    <2> QED BY <2>1, <2>2, <2>3
  <1>2. /\ settled \in [Projects -> Blocks] /\ touched \in [Projects -> BOOLEAN]
        /\ file \in Files /\ read \in [Projects \cup {Initializer} -> Files]
        /\ init \in Inits /\ OneBlockEach(read[Initializer])
        /\ init.pc # "idle" => init.project \in Projects /\ init.text = InitPatterns
    BY DEF Typed, TypeOK, HoldersTyped, Inits
  <1>3. NoBlock \in Blocks
    BY DEF Blocks
  <1>4. settled' \in [Projects -> Blocks] /\ touched' \in [Projects -> BOOLEAN]
    <2>1. CASE UNCHANGED <<settled, touched>>
      BY <1>2, <2>1
    <2>2. ASSUME NEW p \in Projects, Touch(p, NoBlock)
          PROVE  settled' \in [Projects -> Blocks] /\ touched' \in [Projects -> BOOLEAN]
      BY <1>3, <2>2, TouchShape
    <2> QED BY <2>1, <2>2, EditShape
  <1>5. Typed'
    <2>1. read' = [read EXCEPT ![Initializer] = read[Initializer]]
          /\ read[Initializer] \in Files
      BY <1>1, <1>2
    <2> QED BY <1>1, <1>2, <1>4, <2>1, EditShape, ApartTyped
  <1>6. BlocksKnown'
    <2>1. CASE /\ UNCHANGED <<settled, touched>>
               /\ \A q \in Projects : Block(file', q) = Block(file, q)
      BY <1>1, <2>1 DEF BlocksKnown
    <2>2. ASSUME NEW p \in Projects, Touch(p, NoBlock), Block(file', p) = NoBlock,
                 \A q \in Projects : q # p => Block(file', q) = Block(file, q)
          PROVE  BlocksKnown'
      BY <1>1, <1>3, <2>2, TouchKnown
    <2> QED BY <2>1, <2>2, EditShape
  <1>7. InitFollows'
    <2>1. file' \in Files /\ Follows(file, file')
      BY EditShape
    <2>2. ASSUME NEW f \in Files, Follows(f, file) PROVE Follows(f, file')
      BY <1>2, <2>1, <2>2, FollowsTransitive
    <2>3. init.seen \in Files /\ read[Initializer] \in Files
      BY <1>2 DEF Inits
    <2> QED BY <1>1, <2>2, <2>3 DEF InitFollows
  <1> QED BY <1>5, <1>6, <1>7

LEMMA AtFirst == Init => Typed /\ BlocksKnown /\ InitFollows
  <1> SUFFICES ASSUME Init PROVE Typed /\ BlocksKnown /\ InitFollows
    OBVIOUS
  <1>1. file \in Files /\ OneBlockEach(file)
    BY FilesAssumption DEF Init
  <1>2. \A p \in Projects : Block(file, p) \in Blocks
    BY <1>1, BlockIsHeld
  <1>3. /\ journal = [p \in Projects |-> NoJournal] /\ pc = [p \in Projects |-> "idle"]
        /\ read = [h \in Projects \cup {Initializer} |-> NoFile] /\ init = NotRunning
        /\ settled = [p \in Projects |-> Block(file, p)]
    BY DEF Init
  <1>4. TypeOK
    <2>1. NoPlan \in [old : Blocks, new : Blocks]
      BY DEF NoPlan, Blocks
    <2>2. budget \in Budgets
      <3>1. /\ MaxRuns \in 0..MaxRuns /\ MaxEdits \in 0..MaxEdits
            /\ MaxTroubles \in 0..MaxTroubles
        BY ExcludeBounds
      <3> QED BY <3>1 DEF Init, Budgets
    <2>3. /\ journal \in [Projects -> Journals \cup {NoJournal}] /\ pc \in [Projects -> Places]
          /\ read \in [Projects \cup {Initializer} -> Files] /\ init \in Inits
          /\ settled \in [Projects -> Blocks]
      BY <1>2, <1>3, NothingRead DEF Places
    <2>4. /\ kind \in [Projects -> {"install", "switch", "rollback"}]
          /\ plan \in [Projects -> [old : Blocks, new : Blocks]]
          /\ touched \in [Projects -> BOOLEAN] /\ overrun \in BOOLEAN
          /\ elock \in Projects \cup {Initializer, Nobody}
      BY <2>1 DEF Init
    <2> QED BY <1>1, <2>2, <2>3, <2>4 DEF TypeOK, Places, Budgets, Inits
  <1>5. HoldersTyped
    BY <1>3, NothingRead DEF HoldersTyped
  <1>6. \A p \in Projects : Fits(pc[p], journal[p])
    BY <1>3 DEF Fits, Journaled
  <1>7. BlocksKnown
    BY <1>3 DEF BlocksKnown, BlockKnown
  <1>8. InitFollows
    BY <1>3, NothingRead DEF InitFollows
  <1> QED BY <1>4, <1>5, <1>6, <1>7, <1>8 DEF Typed

Agreed == ExcludeInvariant /\ Typed /\ BlocksKnown /\ InitFollows

LEMMA AgreedStep == Agreed /\ [Next]_vars => Agreed'
  <1> SUFFICES ASSUME Agreed, [Next]_vars PROVE Agreed'
    OBVIOUS
  <1>1. ExcludeInvariant'
    BY ExcludeStep DEF Agreed
  <1>2. CASE \E p \in Projects : Begin(p) \/ Run(p) \/ Crash(p)
    BY <1>2, RunOn, RunFollows, <1>1 DEF Agreed
  <1>3. CASE EnsureLock \/ EnsurePlan \/ EnsureCheck
    BY <1>3, EnsureReads, <1>1 DEF Agreed
  <1>4. CASE EnsureWrite
    BY <1>4, EnsureWrites, <1>1 DEF Agreed
  <1>5. CASE Edit
    BY <1>5, EditOn, <1>1 DEF Agreed
  <1>6. CASE InitDies
    <2>1. InitEnds /\ Spent /\ UNCHANGED <<file, journal, pc, kind, plan, ghosts>>
      BY <1>6 DEF InitDies, Spent
    <2> QED BY <2>1, InitEndsOn, <1>1 DEF Agreed
  <1>7. CASE UNCHANGED vars
    <2>1. /\ UNCHANGED <<file, journal, elock, pc, kind, plan, read, init, budget>>
          /\ UNCHANGED <<settled, touched, overrun>>
      BY <1>7 DEF vars
    <2>2. TypeOK' /\ HoldersTyped' /\ \A p \in Projects : Fits(pc'[p], journal'[p])
      BY <2>1 DEF Agreed, Typed, TypeOK, HoldersTyped
    <2>3. BlocksKnown'
      BY <2>1 DEF Agreed, BlocksKnown
    <2>4. InitFollows'
      BY <2>1 DEF Agreed, InitFollows
    <2> QED BY <1>1, <2>2, <2>3, <2>4 DEF Agreed, Typed
  <1> QED BY <1>2, <1>3, <1>4, <1>5, <1>6, <1>7 DEF Next, Ensure

LEMMA AgreedHolds == Spec => []Agreed
  <1>1. Init => Agreed
    BY ExcludeInit, AtFirst DEF Agreed
  <1> QED BY <1>1, AgreedStep, PTL DEF Spec

\* The file never holds two blocks of one project, whatever lines and blocks it
\* began with and whoever wrote it since: _block_range finds the one block, and
\* never has to refuse the file.
THEOREM OneBlockOfEach == Spec => []TypeOK
  <1>1. Agreed => TypeOK
    BY DEF Agreed, Typed
  <1> QED BY <1>1, AgreedHolds, PTL

\* A finished operation leaves the block it planned if it committed, or the one
\* it found if it rolled back, whoever finished it - itself, a replay, a rollback -
\* and whatever neighbours and csk init wrote in between, until somebody changes
\* it; only an edit that is saved between a read and its write is excepted.
THEOREM OutcomeStays == Spec => []BlockFollowsOutcome
  <1>1. Agreed => BlockFollowsOutcome
    BY DEF Agreed, BlocksKnown, BlockKnown, BlockFollowsOutcome
  <1> QED BY <1>1, AgreedHolds, PTL

\* The bytes that are not a project's own.
ForeignStep ==
  overrun \/ \A p \in Projects :
    /\ Writes(p) => Foreign(file', p, Known(p)) = Foreign(file, p, Known(p))
    /\ Ensures(p) => Foreign(file', p, Contents) = Foreign(file, p, Contents)

\* A commit or a rollback: what it replaces is one of the blocks it knows.
LEMMA WritesOwn ==
  ASSUME Agreed, [Next]_vars, ~overrun, NEW p \in Projects, Writes(p)
  PROVE  Foreign(file', p, Known(p)) = Foreign(file, p, Known(p))
  <1> DEFINE j == journal[p]
  <1>1. pc[p] \in Rewriting /\ pc'[p] # pc[p] /\ file' # file
    BY DEF Writes, Rewriting
  <1>2. WriteInstalled(p) \/ WriteRestored(p)
    <2>1. pc \in [Projects -> Places]
      BY DEF Agreed, Typed, TypeOK, Places
    <2>2. pc' # pc
      BY <1>1
    <2>3. PICK q \in Projects : Begin(q) \/ Run(q) \/ Crash(q)
      BY <2>2 DEF Next, Ensure, EnsureLock, EnsurePlan, EnsureCheck, EnsureWrite, Edit,
                  InitDies, vars
    <2>4. WriteInstalled(q) \/ WriteRestored(q)
      BY <1>1, <2>3 DEF Begin, Run, Crash, LockTimeout, LockToRecover, RecoverRefused,
            Recover, LockToPlan, Plan, Prepare, Prepared, BackUp, ReadToInstall,
            SaveInstalled, CommitOthers, OthersFail, RestoreRefused, ReadToRestore,
            SaveRestored, Finish
    <2>5. PICK place : pc' = [pc EXCEPT ![q] = place]
      BY <2>4 DEF WriteInstalled, WriteRestored, Goto
    <2>6. q = p
      BY <1>1, <2>1, <2>5
    <2> QED BY <2>4, <2>6
  <1>3. /\ file \in Files /\ OneBlockEach(file) /\ read[p] = file
        /\ pc[p] \in {"install", "restore"}
    BY <1>1 DEF Agreed, Typed, TypeOK, ExcludeInvariant, ReadIsCurrent, Rewriting
  <1>4. BlockKnown(pc[p], j, Block(file, p), touched[p], settled[p])
    BY DEF Agreed, BlocksKnown
  <1>5. j \in Journals /\ j.old \in Blocks /\ j.new \in Blocks
    <2>1. j # NoJournal /\ j \in Journals \cup {NoJournal}
      BY <1>1, AtPlace DEF Agreed, Fits, Journaled, Rewriting
    <2> QED BY <2>1 DEF Journals
  <1>6. CASE WriteInstalled(p)
    <2>1. pc[p] = "install" /\ file' = Replace(file, p, j.new)
      BY <1>3, <1>6 DEF WriteInstalled
    <2>2. Block(file, p) = j.old
      BY <1>4, <2>1 DEF BlockKnown
    <2>3. Rewritten(file, file', p, j.new)
      BY <1>3, <1>5, <2>1, ReplaceRewrites
    <2> QED BY <2>2, <2>3 DEF Rewritten, Known
  <1>7. CASE WriteRestored(p)
    <2>1. pc[p] = "restore" /\ file' = Restore(file, p, j)
      BY <1>3, <1>7 DEF WriteRestored
    <2>2. Block(file, p) = j.new
      BY <1>4, <2>1 DEF BlockKnown
    <2>3. Rewritten(file, file', p, j.old)
      BY <1>3, <1>5, <2>1, RestoreRewrites
    <2> QED BY <2>2, <2>3 DEF Rewritten, Known
  <1> QED BY <1>2, <1>6, <1>7

LEMMA EnsuresOwn ==
  ASSUME Agreed, [Next]_vars, ~overrun, NEW p \in Projects, Ensures(p)
  PROVE  Foreign(file', p, Contents) = Foreign(file, p, Contents)
  <1> DEFINE f == read[Initializer]
  <1>1. file' # file /\ init.pc = "write" /\ init' # init /\ init.project = p
    BY DEF Ensures
  <1>2. EnsureWrite
    BY <1>1 DEF Next, Ensure, EnsureLock, EnsurePlan, EnsureCheck, Edit, InitDies, vars,
            Begin, Run, Crash, LockTimeout, LockToRecover, RecoverRefused,
            Recover, LockToPlan, Plan, Prepare, Prepared, BackUp, ReadToInstall,
            WriteInstalled, WriteRestored, SaveInstalled, CommitOthers, OthersFail,
            RestoreRefused, ReadToRestore, SaveRestored, Finish
  <1>3. file' = Replace(f, p, InitPatterns)
    BY <1>1, <1>2 DEF EnsureWrite, Agreed, Typed, HoldersTyped
  <1>4. /\ file \in Files /\ OneBlockEach(file) /\ f \in Files /\ OneBlockEach(f)
        /\ Data(f) = Data(file)
    BY <1>1 DEF Agreed, Typed, TypeOK, HoldersTyped, InitFollows
  <1>5. InitPatterns \in Blocks /\ InitPatterns \in Contents
    BY BlocksAssumption DEF Blocks
  <1>6. Rewritten(f, file', p, InitPatterns)
    BY <1>3, <1>4, <1>5, ReplaceRewrites
  <1>7. Block(f, p) \in Contents \cup {NoBlock}
    BY <1>4, BlockIsHeld DEF Blocks
  <1>8. Foreign(file', p, Contents) = Foreign(f, p, Contents)
    BY <1>5, <1>6, <1>7 DEF Rewritten
  <1>9. Foreign(f, p, Contents) = Foreign(file, p, Contents)
    BY <1>4, SameData
  <1> QED BY <1>8, <1>9

\* No line of the user, no block of a neighbour and no block that somebody else
\* changed is lost by a commit, a replay, a rollback or csk init, for any number
\* of homes, any contents of the file and any crashes.
THEOREM ForeignBytes == Spec => ForeignBytesKept
  <1>1. Agreed /\ [Next]_vars => [ForeignStep]_vars
    BY WritesOwn, EnsuresOwn DEF ForeignStep
  <1>2. Spec => [][ForeignStep]_vars
    BY <1>1, AgreedHolds, PTL DEF Spec
  <1> QED BY <1>2 DEF ForeignBytesKept, ForeignStep
=============================================================================
