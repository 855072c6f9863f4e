--------------------------- MODULE SnapshotCache ---------------------------
(***************************************************************************)
(* The snapshot of one commit in the schema-1 cache, fetched by several    *)
(* installs at once (src/csk/snapshot.py, git_ops.archive).                *)
(*                                                                         *)
(* get_snapshot takes no lock, and its staging name carries the commit but *)
(* not the process, so all fetchers of a commit share one staging          *)
(* directory.  A directory has an identity here, because rmtree works on   *)
(* the directory it opened, whatever name that one has by now.             *)
(***************************************************************************)
EXTENDS Naturals

CONSTANTS
  Fetchers,     \* processes that need the snapshot
  Files,        \* the files of the commit
  Directories,  \* a bound on the directories ever made
  MaxDeaths     \* a bound on the fetchers that die half way

VARIABLES
  made,     \* how many directories were made so far
  content,  \* the files in each of them
  tmp,      \* the directory under the staging name, or 0
  target,   \* the directory under the final name, or 0
  pc,
  opened,   \* the directory a fetcher's rmtree walks, or 0
  listed,   \* the names it found there and has still to unlink
  left,     \* the files a fetcher has still to extract
  deaths

vars == <<made, content, tmp, target, pc, opened, listed, left, deaths>>
walk == <<opened, listed>>

Running == {"start", "look", "clear", "mkdir", "extract", "publish", "discard"}

Init ==
  /\ made = 0 /\ content = [d \in 1..Directories |-> {}]
  /\ tmp = 0 /\ target = 0
  /\ pc = [p \in Fetchers |-> "start"]
  /\ opened = [p \in Fetchers |-> 0]
  /\ listed = [p \in Fetchers |-> {}]
  /\ left = [p \in Fetchers |-> Files]
  /\ deaths = 0

Goto(p, place) == pc' = [pc EXCEPT ![p] = place]

\* rmtree opens the staging directory and lists it.
OpenStaging(p) ==
  /\ opened' = [opened EXCEPT ![p] = tmp]
  /\ listed' = [listed EXCEPT ![p] = content[tmp]]

-----------------------------------------------------------------------------
\* A snapshot that is there is served as it is.
Serve(p) ==
  /\ pc[p] = "start"
  /\ Goto(p, IF target # 0 THEN "served" ELSE "look")
  /\ UNCHANGED <<made, content, tmp, target, walk, left, deaths>>

\* A staging directory that is there was left by a fetcher that died, or so
\* get_snapshot takes it.
LookForLeftover(p) ==
  /\ pc[p] = "look"
  /\ IF tmp # 0
       THEN Goto(p, "clear") /\ OpenStaging(p)
       ELSE Goto(p, "mkdir") /\ UNCHANGED walk
  /\ UNCHANGED <<made, content, tmp, target, left, deaths>>

\* One unlink of rmtree; a name that is gone fails the fetch.
Unlink(p) ==
  /\ pc[p] \in {"clear", "discard"}
  /\ \E f \in listed[p] :
       /\ listed' = [listed EXCEPT ![p] = @ \ {f}]
       /\ IF f \in content[opened[p]]
            THEN /\ content' = [content EXCEPT ![opened[p]] = @ \ {f}]
                 /\ UNCHANGED pc
            ELSE Goto(p, "failed") /\ UNCHANGED content
  /\ UNCHANGED <<made, tmp, target, opened, left, deaths>>

\* The last step of rmtree removes the name, which by now may be gone, or
\* name a directory that holds files again.
RemoveStaging(p) ==
  /\ pc[p] \in {"clear", "discard"} /\ listed[p] = {}
  /\ IF tmp # 0 /\ content[tmp] = {}
       THEN /\ tmp' = 0
            /\ Goto(p, IF pc[p] = "clear" THEN "mkdir" ELSE "served")
       ELSE /\ Goto(p, "failed") /\ UNCHANGED tmp
  /\ opened' = [opened EXCEPT ![p] = 0]
  /\ UNCHANGED <<made, content, target, listed, left, deaths>>

\* mkdir(exist_ok=True), and the parents tarfile makes: the directory under
\* the staging name, a new one when there is none.
Staging == IF tmp # 0 THEN tmp ELSE made + 1

MakeStaging(p) ==
  /\ pc[p] = "mkdir" /\ Staging <= Directories
  /\ tmp' = Staging
  /\ made' = IF tmp # 0 THEN made ELSE made + 1
  /\ Goto(p, "extract")
  /\ UNCHANGED <<content, target, walk, left, deaths>>

\* extractall writes the members one by one, each at its path.
Extract(p) ==
  /\ pc[p] = "extract" /\ left[p] # {} /\ Staging <= Directories
  /\ \E f \in left[p] :
       /\ content' = [content EXCEPT ![Staging] = @ \union {f}]
       /\ left' = [left EXCEPT ![p] = @ \ {f}]
  /\ tmp' = Staging
  /\ made' = IF tmp # 0 THEN made ELSE made + 1
  /\ UNCHANGED <<target, pc, walk, deaths>>

Extracted(p) ==
  /\ pc[p] = "extract" /\ left[p] = {}
  /\ \/ target # 0 /\ tmp # 0 /\ Goto(p, "discard") /\ OpenStaging(p)
     \/ target # 0 /\ tmp = 0 /\ Goto(p, "failed") /\ UNCHANGED walk
     \/ target = 0 /\ Goto(p, "publish") /\ UNCHANGED walk
  /\ UNCHANGED <<made, content, tmp, target, left, deaths>>

\* rename replaces no directory that has files in it, and needs its source.
Publish(p) ==
  /\ pc[p] = "publish"
  /\ IF tmp # 0 /\ (target = 0 \/ content[target] = {})
       THEN target' = tmp /\ tmp' = 0 /\ Goto(p, "served")
       ELSE Goto(p, "failed") /\ UNCHANGED <<tmp, target>>
  /\ UNCHANGED <<made, content, walk, left, deaths>>

Die(p) ==
  /\ pc[p] \in Running /\ deaths < MaxDeaths
  /\ deaths' = deaths + 1
  /\ Goto(p, "failed")
  /\ UNCHANGED <<made, content, tmp, target, walk, left>>

Next == \E p \in Fetchers :
  \/ Serve(p) \/ LookForLeftover(p) \/ Unlink(p) \/ RemoveStaging(p)
  \/ MakeStaging(p) \/ Extract(p) \/ Extracted(p) \/ Publish(p) \/ Die(p)

Spec == Init /\ [][Next]_vars

-----------------------------------------------------------------------------
\* The cache is "content addressed, immutable" (closure.py:316): what stands
\* under the name of a commit is the whole of that commit.  get_snapshot
\* does not hold it when two installs fetch a commit: the second takes the
\* staging directory of the first for a leftover and empties it while the
\* first fills it, and what is left is published and served from then on.
SnapshotIsTheCommit == target # 0 => content[target] = Files
=============================================================================
