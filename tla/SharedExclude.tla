--------------------------- MODULE SharedExclude ---------------------------
(***************************************************************************)
(* The projects of one Git repository - its linked worktrees, its nested   *)
(* directories - share the file $GIT_COMMON_DIR/info/exclude.  Each keeps  *)
(* a block of patterns in it, between two marker lines that carry its key. *)
(* Four kinds of writer change the file: an installation, whose journal    *)
(* holds the block and never the file; a switch of the ignore mode, whose  *)
(* journal recovery always undoes; csk init, which holds the exclude lock  *)
(* and no home lock; and the user, who holds nothing.  The projects are    *)
(* installed from different homes, so no home lock orders their commits,   *)
(* replays and rollbacks: only the exclude lock does.                      *)
(*                                                                         *)
(* The file is a sequence of segments: lines of the user and whole blocks. *)
(* A write replaces the file atomically, with what the writer read before. *)
(***************************************************************************)
EXTENDS Integers, SequencesExt

CONSTANTS Projects,      \* each with a home of its own
          Contents,      \* what the patterns of a block may be
          InitPatterns,  \* those csk init wants: every agent's
          SwitchPatterns,\* those a switch to mode exclude wants: and every MCP file
          NoBlock,       \* the project has no block in the file
          NoFile,        \* info/exclude does not exist
          NoJournal,     \* the home holds no journal
          Nobody,        \* nobody holds the exclude lock
          Initializer,   \* the process that runs csk init
          OwnLine,       \* a line the user wrote before
          NewLine,       \* a line the user may add
          FirstFiles,    \* what info/exclude may be at first
          MaxRuns,       \* bound: operations that find no journal
          MaxEdits,      \* bound: edits of the user
          MaxTroubles    \* bound: processes that die, waits that run out

ASSUME BlocksAssumption == {InitPatterns, SwitchPatterns} \subseteq Contents /\ NoBlock \notin Contents
ASSUME HoldersAssumption == Nobody \notin Projects /\ Initializer \notin Projects
                            /\ Nobody # Initializer
ASSUME ExcludeBounds == {MaxRuns, MaxEdits, MaxTroubles} \subseteq Nat

VARIABLES file,      \* the segments of info/exclude
          journal,   \* per project: the journal its home holds
          elock,     \* who holds csk-exclude.lock
          pc, kind,  \* per project: where its home's process is, and its command
          plan,      \* per project: the block read, and the block wanted
          read,      \* per holder: the file it has read and will replace
          init,      \* csk init: where it is, for whom, with which patterns
          budget,    \* what is left of the bounds
          settled,   \* per project: the block its last finished operation left
          touched,   \* per project: others changed its block under its journal
          overrun    \* an edit of the user fell between a read and its write

vars == <<file, journal, elock, pc, kind, plan, read, init, budget, settled,
          touched, overrun>>
ghosts == <<settled, touched, overrun>>

Blocks == Contents \cup {NoBlock}
BlockOf(p, c) == [owner |-> p, text |-> c]
LineOf(l, ended) == [line |-> l, ended |-> ended]
Lines == {LineOf(l, e) : l \in {OwnLine, NewLine}, e \in BOOLEAN}
Segments == Lines \cup {BlockOf(p, c) : p \in Projects, c \in Contents}

Files == {NoFile} \cup Seq(Segments)
Data(f) == IF f = NoFile THEN <<>> ELSE f
Owns(p, s) == s \notin Lines /\ s.owner = p

\* _block_range: where p's block is, if there is one.
Span(f, p) == {i \in DOMAIN Data(f) : Owns(p, Data(f)[i])}
Block(f, p) == IF Span(f, p) = {} THEN NoBlock
               ELSE Data(f)[CHOOSE i \in Span(f, p) : TRUE].text
OneBlockEach(f) == \A p \in Projects : \A i, j \in Span(f, p) : i = j
Without(f, p) == IF Span(f, p) = {} THEN Data(f)
                 ELSE RemoveAt(Data(f), CHOOSE i \in Span(f, p) : TRUE)
Unended(f) == f # <<>> /\ Last(f) \in Lines /\ ~Last(f).ended

\* Fault: the block is appended without looking for an earlier one.
ReplaceAppends(f, p, c) ==
  IF c = NoBlock THEN Without(f, p) ELSE Data(f) \o <<BlockOf(p, c)>>

\* replace_project_block: in place where there is a block, else at the end -
\* at the front when the last line of the file has no newline.
Replace(f, p, c) ==
  LET new == BlockOf(p, c)
      d == Data(f)
  IN  CASE c = NoBlock -> Without(f, p)
        [] c # NoBlock /\ Span(f, p) # {} ->
             [i \in DOMAIN d |-> IF i \in Span(f, p) THEN new ELSE d[i]]
        [] c # NoBlock /\ Span(f, p) = {} /\ Unended(d) -> <<new>> \o d
        [] OTHER -> d \o <<new>>

\* What a rollback writes: the old block in the file as it is now, without a
\* last newline the original did not have, or no file where there was none.
Restore(f, p, j) ==
  LET data == Replace(f, p, j.old)
      cut == IF data # <<>> /\ Last(data) \in Lines
             THEN [data EXCEPT ![Len(data)].ended = FALSE] ELSE data
      kept == IF cut = j.original THEN cut ELSE data
  IN  IF kept = <<>> /\ ~j.existed THEN NoFile ELSE kept

Journals == [phase : {"preparing", "prepared", "committing", "cleanup", "rolling_back"},
             state : {"pending", "backed_up", "committed", "rolled_back"},
             old : Blocks, new : Blocks, original : Seq(Segments),
             existed : BOOLEAN, switch : BOOLEAN]

ASSUME FilesAssumption ==
  /\ NoFile \notin Seq(Segments) /\ NoJournal \notin Journals
  /\ FirstFiles \subseteq Files /\ \A f \in FirstFiles : OneBlockEach(f)

NoPlan == [old |-> NoBlock, new |-> NoBlock]
NotRunning == [pc |-> "idle", project |-> Nobody, text |-> NoBlock, seen |-> NoFile]

Journal(phase, state, old, new, f, switch) ==
  [phase |-> phase, state |-> state, old |-> old, new |-> new,
   original |-> Data(f), existed |-> f # NoFile, switch |-> switch]

Init ==
  /\ file \in FirstFiles
  /\ journal = [p \in Projects |-> NoJournal]
  /\ elock = Nobody
  /\ pc = [p \in Projects |-> "idle"]
  /\ kind = [p \in Projects |-> "install"]
  /\ plan = [p \in Projects |-> NoPlan]
  /\ read = [h \in Projects \cup {Initializer} |-> NoFile]
  /\ init = NotRunning
  /\ budget = [runs |-> MaxRuns, edits |-> MaxEdits, troubles |-> MaxTroubles]
  /\ settled = [p \in Projects |-> Block(file, p)]
  /\ touched = [p \in Projects |-> FALSE]
  /\ overrun = FALSE

Spend(b) == budget[b] > 0 /\ budget' = [budget EXCEPT ![b] = @ - 1]
Goto(p, to) == pc' = [pc EXCEPT ![p] = to]

\* The process ends, or dies: the operating system frees what it holds.
End(p) ==
  /\ Goto(p, "idle")
  /\ kind' = [kind EXCEPT ![p] = "install"]
  /\ plan' = [plan EXCEPT ![p] = NoPlan]
  /\ elock' = IF elock = p THEN Nobody ELSE elock
  /\ read' = [read EXCEPT ![p] = NoFile]

Save(p, phase, state) ==
  journal' = [journal EXCEPT ![p].phase = phase, ![p].state = state]

GiveUp(p) == Goto(p, "undo") /\ Save(p, "rolling_back", journal[p].state)

----------------------------------------------------------------------------
(* Starting a command, and recovery, which comes first in each. *)

\* Of the commands that recover first, only those that find a journal are
\* unbounded; csk recover --rollback refuses a journal that is committed.
Begin(p) ==
  /\ pc[p] = "idle"
  /\ \E k \in {"install", "switch", "rollback"} :
       /\ kind' = [kind EXCEPT ![p] = k]
       /\ \/ journal[p] # NoJournal /\ k # "rollback" /\ UNCHANGED budget
          \/ journal[p] = NoJournal /\ k # "rollback" /\ Spend("runs")
          \/ journal[p] # NoJournal /\ k = "rollback" /\ Spend("runs")
  /\ Goto(p, "home")
  /\ UNCHANGED <<file, journal, elock, plan, read, init, ghosts>>

\* The exclude lock did not become free in time.
LockTimeout(p) ==
  /\ pc[p] = "home" /\ elock # Nobody
  /\ Spend("troubles")
  /\ End(p)
  /\ UNCHANGED <<file, journal, init, ghosts>>

\* Fault: recovery trusts the home lock alone.
LockToRecoverUnlocked(p) ==
  /\ pc[p] = "home" /\ journal[p] # NoJournal
  /\ Goto(p, "recover")
  /\ UNCHANGED <<file, journal, elock, kind, plan, read, init, budget, ghosts>>

\* Recovery of a journal takes the exclude lock before it looks at its phase.
LockToRecover(p) ==
  /\ pc[p] = "home" /\ elock = Nobody /\ journal[p] # NoJournal
  /\ elock' = p
  /\ Goto(p, "recover")
  /\ UNCHANGED <<file, journal, kind, plan, read, init, budget, ghosts>>

\* csk recover --rollback does not undo what is committed.
RecoverRefused(p) ==
  /\ pc[p] = "recover" /\ kind[p] = "rollback" /\ journal[p].phase = "cleanup"
  /\ End(p)
  /\ UNCHANGED <<file, journal, init, budget, ghosts>>

\* Where a journal of each phase leads: an unfinished ignore mode switch is
\* undone, and so is all that csk recover --rollback is asked to abandon.
Recover(p) ==
  LET j == journal[p]
      undo == j.switch \/ kind[p] = "rollback"
  IN  /\ pc[p] = "recover"
      /\ \/ /\ \/ j.phase = "preparing"
               \/ j.phase = "cleanup" /\ kind[p] # "rollback"
            /\ Goto(p, "finish") /\ UNCHANGED journal
         \/ /\ j.phase \in {"prepared", "committing"} /\ ~undo
            /\ Goto(p, "apply") /\ UNCHANGED journal
         \/ /\ \/ j.phase \in {"prepared", "committing"} /\ undo
               \/ j.phase = "rolling_back"
            /\ GiveUp(p)
      /\ UNCHANGED <<file, elock, kind, plan, read, init, budget, ghosts>>

----------------------------------------------------------------------------
(* An operation of its own: plan and prepare under the exclude lock. *)

LockToPlan(p) ==
  /\ pc[p] = "home" /\ elock = Nobody /\ journal[p] = NoJournal
  /\ elock' = p
  /\ Goto(p, "plan")
  /\ UNCHANGED <<file, journal, kind, plan, read, init, budget, ghosts>>

\* An installation wants a block; a switch wants one, or to remove it.  An
\* installation that finds its block leaves the file out of its transaction.
Plan(p) ==
  /\ pc[p] = "plan"
  /\ \E c \in IF kind[p] = "switch" THEN {SwitchPatterns, NoBlock} ELSE Contents :
       IF kind[p] = "install" /\ c = Block(file, p) THEN End(p)
       ELSE /\ plan' = [plan EXCEPT ![p] = [old |-> Block(file, p), new |-> c]]
            /\ Goto(p, "prepare")
            /\ UNCHANGED <<kind, elock, read>>
  /\ UNCHANGED <<file, journal, init, budget, ghosts>>

\* The journal is written, if the block is still the one the plan was made on.
Prepare(p) ==
  /\ pc[p] = "prepare"
  /\ IF Block(file, p) = plan[p].old
     THEN /\ journal' = [journal EXCEPT ![p] = Journal("preparing", "pending",
                           plan[p].old, plan[p].new, file, kind[p] = "switch")]
          /\ Goto(p, "prepared")
          /\ plan' = [plan EXCEPT ![p] = NoPlan]
          /\ UNCHANGED <<kind, elock, read>>
     ELSE End(p) /\ UNCHANGED journal
  /\ UNCHANGED <<file, init, budget, ghosts>>

Prepared(p) ==
  /\ pc[p] = "prepared"
  /\ Save(p, "prepared", "pending")
  /\ Goto(p, "apply")
  /\ UNCHANGED <<file, elock, kind, plan, read, init, budget, ghosts>>

----------------------------------------------------------------------------
(* _commit_shared_block, by the operation or by the replay of its journal. *)

\* A block that is not the recorded one stops the commit before any write.
BackUp(p) ==
  /\ pc[p] = "apply" /\ journal[p].state = "pending"
  /\ IF Block(file, p) = journal[p].old
     THEN Save(p, "committing", "backed_up") /\ UNCHANGED pc
     ELSE GiveUp(p)
  /\ UNCHANGED <<file, elock, kind, plan, read, init, budget, ghosts>>

\* The project's slice is compared; then the file is read to be rewritten.
ReadToInstall(p) ==
  /\ pc[p] = "apply" /\ journal[p].state = "backed_up"
  /\ CASE Block(file, p) = journal[p].new ->
            Goto(p, "installed") /\ UNCHANGED <<journal, read>>
       [] Block(file, p) # journal[p].new /\ Block(file, p) = journal[p].old ->
            /\ Goto(p, "install")
            /\ read' = [read EXCEPT ![p] = file]
            /\ UNCHANGED journal
       [] OTHER -> GiveUp(p) /\ UNCHANGED read
  /\ UNCHANGED <<file, elock, kind, plan, init, budget, ghosts>>

WriteInstalled(p) ==
  /\ pc[p] = "install"
  /\ file' = Replace(read[p], p, journal[p].new)
  /\ read' = [read EXCEPT ![p] = NoFile]
  /\ Goto(p, "installed")
  /\ UNCHANGED <<journal, elock, kind, plan, init, budget, ghosts>>

\* The state is saved, then the block is compared a last time; a replay that
\* finds the target committed comes straight here.
SaveInstalled(p) ==
  /\ \/ pc[p] = "installed"
     \/ pc[p] = "apply" /\ journal[p].state = "committed"
  /\ IF Block(file, p) = journal[p].new
     THEN Goto(p, "others") /\ Save(p, "committing", "committed")
     ELSE Goto(p, "undo") /\ Save(p, "rolling_back", "committed")
  /\ UNCHANGED <<file, elock, kind, plan, read, init, budget, ghosts>>

\* The targets after the block: all committed, or one of them refused.  A
\* target before the block may refuse as well.
CommitOthers(p) ==
  /\ pc[p] = "others"
  /\ Goto(p, "finish")
  /\ Save(p, "cleanup", journal[p].state)
  /\ UNCHANGED <<file, elock, kind, plan, read, init, budget, ghosts>>

OthersFail(p) ==
  /\ pc[p] \in {"apply", "others"}
  /\ GiveUp(p)
  /\ UNCHANGED <<file, elock, kind, plan, read, init, budget, ghosts>>

----------------------------------------------------------------------------
(* _rollback_shared_block, and the end of a transaction. *)

\* Fault: a block whose write was not saved as committed needs no undoing.
UntouchedUntilSaved(j) == j.state \in {"pending", "backed_up", "rolled_back"}

Untouched(j) == j.state \in {"pending", "rolled_back"}

\* Fault: only the new block is recognized, a restored one is not.
RecognizedNew(j) == {j.new}

Recognized(j) == {j.old, j.new}

\* A block that is neither the old nor the new one is not overwritten: the
\* journal stays, and the next recovery tries again.
RestoreRefused(p) ==
  /\ pc[p] = "undo"
  /\ ~Untouched(journal[p]) /\ Block(file, p) \notin Recognized(journal[p])
  /\ End(p)
  /\ UNCHANGED <<file, journal, init, budget, ghosts>>

ReadToRestore(p) ==
  LET j == journal[p] IN
  /\ pc[p] = "undo"
  /\ \/ Untouched(j) /\ Goto(p, "finish") /\ UNCHANGED <<journal, read>>
     \/ /\ ~Untouched(j) /\ Block(file, p) \in Recognized(j)
        /\ IF Block(file, p) = j.old
           THEN Save(p, "rolling_back", "rolled_back") /\ UNCHANGED <<pc, read>>
           ELSE /\ Goto(p, "restore")
                /\ read' = [read EXCEPT ![p] = file]
                /\ UNCHANGED journal
  /\ UNCHANGED <<file, elock, kind, plan, init, budget, ghosts>>

WriteRestored(p) ==
  /\ pc[p] = "restore"
  /\ file' = Restore(read[p], p, journal[p])
  /\ read' = [read EXCEPT ![p] = NoFile]
  /\ Goto(p, "restored")
  /\ UNCHANGED <<journal, elock, kind, plan, init, budget, ghosts>>

SaveRestored(p) ==
  /\ pc[p] = "restored"
  /\ Save(p, "rolling_back", "rolled_back")
  /\ Goto(p, "undo")
  /\ UNCHANGED <<file, elock, kind, plan, read, init, budget, ghosts>>

\* A cleanup compares the block again and keeps the journal of one that has
\* changed.  The journal is removed and the exclude lock freed; a command that
\* began with a recovery goes on to its own work: here, it begins again.
Finish(p) ==
  LET j == journal[p]
      left == IF j.phase = "cleanup" THEN j.new ELSE j.old
  IN  /\ pc[p] = "finish"
      /\ IF j.phase = "cleanup" /\ Block(file, p) # j.new
         THEN UNCHANGED <<journal, settled, touched>>
         ELSE /\ journal' = [journal EXCEPT ![p] = NoJournal]
              /\ settled' = [settled EXCEPT
                   ![p] = IF touched[p] THEN Block(file, p) ELSE left]
              /\ touched' = [touched EXCEPT ![p] = FALSE]
      /\ End(p)
      /\ UNCHANGED <<file, init, budget, overrun>>

----------------------------------------------------------------------------
(* ensure_ignored: csk init, and an installation of schema 1. *)

InitEnds ==
  /\ elock' = Nobody
  /\ init' = NotRunning
  /\ read' = [read EXCEPT ![Initializer] = NoFile]

EnsureLock ==
  /\ init.pc = "idle" /\ elock = Nobody
  /\ Spend("runs")
  /\ elock' = Initializer
  /\ \E p \in Projects :
       init' = [pc |-> "plan", project |-> p, text |-> InitPatterns, seen |-> file]
  /\ UNCHANGED <<file, journal, pc, kind, plan, read, settled, touched, overrun>>

\* The plan reads the file again; a block that is right already stays.
EnsurePlan ==
  /\ init.pc = "plan"
  /\ IF Block(file, init.project) = init.text THEN InitEnds
     ELSE /\ init' = [init EXCEPT !.pc = "check"]
          /\ read' = [read EXCEPT ![Initializer] = file]
          /\ UNCHANGED elock
  /\ UNCHANGED <<file, journal, pc, kind, plan, budget, ghosts>>

EnsureCheck ==
  /\ init.pc = "check"
  /\ IF Data(file) = Data(init.seen)
     THEN init' = [init EXCEPT !.pc = "write"] /\ UNCHANGED <<elock, read>>
     ELSE InitEnds
  /\ UNCHANGED <<file, journal, pc, kind, plan, budget, ghosts>>

\* Somebody else than p's journal gave p's block these patterns.
Touch(p, c) ==
  IF journal[p] = NoJournal
  THEN settled' = [settled EXCEPT ![p] = c] /\ UNCHANGED touched
  ELSE touched' = [touched EXCEPT ![p] = TRUE] /\ UNCHANGED settled

EnsureWrite ==
  /\ init.pc = "write"
  /\ file' = Replace(read[Initializer], init.project, init.text)
  /\ InitEnds
  /\ Touch(init.project, init.text)
  /\ UNCHANGED <<journal, pc, kind, plan, budget, overrun>>

----------------------------------------------------------------------------
(* The user's edits, and crashes. *)

\* An editor that adds a line ends the one before it; or it only ends that.
Ended(f) == IF Unended(f) THEN [f EXCEPT ![Len(f)].ended = TRUE] ELSE f

Edit ==
  /\ Spend("edits")
  /\ \/ /\ \/ file' = Ended(Data(file)) \o <<LineOf(NewLine, TRUE)>>
           \/ Unended(Data(file)) /\ file' = Ended(file)
        /\ UNCHANGED <<settled, touched>>
     \/ \E p \in Projects : /\ Block(file, p) # NoBlock
                            /\ file' = Replace(file, p, NoBlock)
                            /\ Touch(p, NoBlock)
  /\ overrun' = (\/ overrun \/ init.pc = "write"
                 \/ \E p \in Projects : pc[p] \in {"install", "restore"})
  /\ UNCHANGED <<journal, elock, pc, kind, plan, read, init>>

Crash(p) ==
  /\ pc[p] # "idle"
  /\ Spend("troubles")
  /\ End(p)
  /\ UNCHANGED <<file, journal, init, ghosts>>

InitDies ==
  /\ init.pc # "idle"
  /\ Spend("troubles")
  /\ InitEnds
  /\ UNCHANGED <<file, journal, pc, kind, plan, ghosts>>

Ensure == EnsureLock \/ EnsurePlan \/ EnsureCheck \/ EnsureWrite

Run(p) == \/ LockTimeout(p) \/ LockToRecover(p) \/ RecoverRefused(p) \/ Recover(p)
          \/ LockToPlan(p) \/ Plan(p) \/ Prepare(p) \/ Prepared(p)
          \/ BackUp(p) \/ ReadToInstall(p) \/ WriteInstalled(p) \/ SaveInstalled(p)
          \/ CommitOthers(p) \/ OthersFail(p)
          \/ RestoreRefused(p) \/ ReadToRestore(p) \/ WriteRestored(p) \/ SaveRestored(p) \/ Finish(p)

Next == \/ \E p \in Projects : Begin(p) \/ Run(p) \/ Crash(p)
        \/ Ensure \/ Edit \/ InitDies

\* Every process that runs goes on, and every home that holds a journal has
\* another command run in it.  A process that waits for the exclude lock tries
\* it every 50 ms: it gets it, if it is free again and again.
Fairness ==
  /\ \A p \in Projects : /\ WF_vars(Run(p))
                         /\ SF_vars(LockToRecover(p))
                         /\ WF_vars(journal[p] # NoJournal /\ Begin(p) /\ kind'[p] # "rollback")
  /\ WF_vars(EnsurePlan \/ EnsureCheck \/ EnsureWrite)

Spec == Init /\ [][Next]_vars /\ Fairness

----------------------------------------------------------------------------
\* The types of the variables; a file never holds two blocks of one project
\* (_block_range refuses such a file, for good).
TypeOK ==
  /\ file \in Files /\ OneBlockEach(file)
  /\ journal \in [Projects -> Journals \cup {NoJournal}]
  /\ elock \in Projects \cup {Initializer, Nobody}
  /\ pc \in [Projects -> {"idle", "home", "recover", "plan", "prepare", "prepared", "apply",
                          "install", "installed", "others", "undo", "restore", "restored",
                          "finish"}]
  /\ kind \in [Projects -> {"install", "switch", "rollback"}]
  /\ plan \in [Projects -> [old : Blocks, new : Blocks]]
  /\ read \in [Projects \cup {Initializer} -> Files]
  /\ init \in [pc : {"idle", "plan", "check", "write"}, project : Projects \cup {Nobody},
               text : Blocks, seen : Files]
  /\ budget \in [runs : 0..MaxRuns, edits : 0..MaxEdits, troubles : 0..MaxTroubles]
  /\ settled \in [Projects -> Blocks]
  /\ touched \in [Projects -> BOOLEAN]
  /\ overrun \in BOOLEAN

\* What of the file is not p's to change: the lines of the user, the blocks of
\* the other projects, and a block of p itself with patterns p does not know.
\* The newline of the last line is not part of it: a rollback removes one that
\* the user added to the file as it was before.
Foreign(f, p, known) ==
  LET kept == IF Block(f, p) \in known THEN Without(f, p) ELSE Data(f)
      Name(s) == IF s \in Lines THEN s.line ELSE s
  IN  [i \in DOMAIN kept |-> Name(kept[i])]

\* p's journal, or csk init for p, changes the file.
Writes(p) == file' # file /\ pc[p] \in {"install", "restore"} /\ pc'[p] # pc[p]
Known(p) == {journal[p].old, journal[p].new}
Ensures(p) == file' # file /\ init.pc = "write" /\ init'.pc = "idle" /\ init.project = p

\* No commit, replay, rollback or csk init changes a line of the user, a block
\* of another project, or a block of its own that somebody changed since it was
\* recorded - in whatever order the homes crash, recover and write.  The users
\* hold no lock: what they save between a writer's read and its write is lost.
ForeignBytesKept ==
  [][overrun \/ \A p \in Projects :
       /\ Writes(p) => Foreign(file', p, Known(p)) = Foreign(file, p, Known(p))
       /\ Ensures(p) => Foreign(file', p, Contents) = Foreign(file, p, Contents)]_vars

\* When no journal of a project is open, its block is the one its last finished
\* operation left: the new one if it committed, the one before it if it rolled
\* back, whoever finished it and whatever the neighbours wrote meanwhile.
BlockFollowsOutcome ==
  \A p \in Projects : journal[p] = NoJournal /\ ~overrun => Block(file, p) = settled[p]

\* A journal is finished, forward or back, if its home keeps being used, unless
\* somebody else changed the project's own block: the blocks of the neighbours,
\* their crashes and the user's other edits never leave a recovery stuck.
RecoveryCompletes ==
  \A p \in Projects :
    journal[p] # NoJournal ~> journal[p] = NoJournal \/ touched[p]

=============================================================================
