--------------------------- MODULE AtomicInstall ---------------------------
(***************************************************************************)
(* What a csk publication promises, without journal, crash or recovery:    *)
(* every target's original entry is displaced, its replacement is put in   *)
(* place, and one decision makes the whole set final.  An abandoned        *)
(* publication puts everything back before it throws anything away.        *)
(* TransactionEngine is shown to implement this module.                    *)
(***************************************************************************)
CONSTANT Targets   \* the entries one publication replaces

VARIABLES
  present,      \* the targets that have an entry to begin with
  wanted,       \* the targets that shall have one afterwards
  decision,     \* "open", "commit" or "abort"
  original,     \* where the original entry is: "live", "aside", "absent"
  replacement   \* where the new entry is: "staged", "live", "withdrawn", "absent"

plan == <<present, wanted>>
vars == <<present, wanted, decision, original, replacement>>

Init ==
  /\ present \in SUBSET Targets /\ wanted \in SUBSET Targets
  /\ decision = "open"
  /\ original = [t \in Targets |-> IF t \in present THEN "live" ELSE "absent"]
  /\ replacement = [t \in Targets |-> "absent"]

Stage(t) ==
  /\ decision = "open" /\ t \in wanted /\ replacement[t] = "absent"
  /\ replacement' = [replacement EXCEPT ![t] = "staged"]
  /\ UNCHANGED <<plan, decision, original>>

\* Fault: originals move before the staging is complete.
DisplaceEarly(t) ==
  /\ decision = "open" /\ original[t] = "live"
  /\ original' = [original EXCEPT ![t] = "aside"]
  /\ UNCHANGED <<plan, decision, replacement>>

\* Nothing live is touched before every replacement is complete.
Displace(t) ==
  /\ decision = "open" /\ original[t] = "live"
  /\ \A u \in wanted : replacement[u] # "absent"
  /\ original' = [original EXCEPT ![t] = "aside"]
  /\ UNCHANGED <<plan, decision, replacement>>

Place(t) ==
  /\ decision = "open" /\ replacement[t] = "staged" /\ original[t] # "live"
  /\ \A u \in wanted : replacement[u] # "absent"
  /\ replacement' = [replacement EXCEPT ![t] = "live"]
  /\ UNCHANGED <<plan, decision, original>>

\* Fault: the decision does not wait for the removals.
CommitEarly ==
  /\ decision = "open"
  /\ \A t \in wanted : replacement[t] = "live"
  /\ decision' = "commit"
  /\ UNCHANGED <<plan, original, replacement>>

Commit ==
  /\ decision = "open"
  /\ \A t \in Targets : original[t] # "live"
  /\ \A t \in wanted : replacement[t] = "live"
  /\ decision' = "commit"
  /\ UNCHANGED <<plan, original, replacement>>

Abort ==
  /\ decision = "open"
  /\ decision' = "abort"
  /\ UNCHANGED <<plan, original, replacement>>

Withdraw(t) ==
  /\ decision = "abort" /\ replacement[t] = "live"
  /\ replacement' = [replacement EXCEPT ![t] = "withdrawn"]
  /\ UNCHANGED <<plan, decision, original>>

\* Fault: the original returns beside the replacement.
RestoreBeside(t) ==
  /\ decision = "abort" /\ original[t] = "aside"
  /\ original' = [original EXCEPT ![t] = "live"]
  /\ UNCHANGED <<plan, decision, replacement>>

Restore(t) ==
  /\ decision = "abort" /\ original[t] = "aside" /\ replacement[t] # "live"
  /\ original' = [original EXCEPT ![t] = "live"]
  /\ UNCHANGED <<plan, decision, replacement>>

\* After the commit the displaced originals go.
DisposeOriginal(t) ==
  /\ decision = "commit" /\ original[t] = "aside"
  /\ original' = [original EXCEPT ![t] = "absent"]
  /\ UNCHANGED <<plan, decision, replacement>>

\* After an abandoned publication the replacements go, once all is restored.
DisposeReplacement(t) ==
  /\ decision = "abort" /\ replacement[t] \in {"staged", "withdrawn"}
  /\ \A u \in Targets : original[u] # "aside" /\ replacement[u] # "live"
  /\ replacement' = [replacement EXCEPT ![t] = "absent"]
  /\ UNCHANGED <<plan, decision, original>>

Next ==
  \/ Commit \/ Abort
  \/ \E t \in Targets :
       \/ Stage(t) \/ Displace(t) \/ Place(t) \/ Withdraw(t) \/ Restore(t)
       \/ DisposeOriginal(t) \/ DisposeReplacement(t)

Spec == Init /\ [][Next]_vars
-----------------------------------------------------------------------------
\* Each entry is in one of the places the publication may put it.
TypeOK ==
  /\ present \subseteq Targets /\ wanted \subseteq Targets
  /\ decision \in {"open", "commit", "abort"}
  /\ original \in [Targets -> {"live", "aside", "absent"}]
  /\ replacement \in [Targets -> {"staged", "live", "withdrawn", "absent"}]

\* No target ever shows two entries, and until the decision to commit no
\* original is lost.
NothingLost ==
  \A t \in Targets :
    /\ ~(original[t] = "live" /\ replacement[t] = "live")
    /\ decision # "commit" /\ t \in present => original[t] # "absent"

\* A committed publication shows exactly the wanted entries.
CommitShowsAll ==
  decision = "commit" =>
    \A t \in Targets :
      /\ original[t] # "live"
      /\ t \in wanted <=> replacement[t] = "live"

\* While a replacement is missing, not yet staged or already thrown away, an
\* uncommitted publication shows every original and no replacement.
AbortShowsNothing ==
  decision # "commit" /\ (\E u \in wanted : replacement[u] = "absent") =>
    \A t \in Targets :
      /\ replacement[t] # "live"
      /\ t \in present => original[t] = "live"
=============================================================================
