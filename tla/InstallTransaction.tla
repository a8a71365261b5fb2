------------------------- MODULE InstallTransaction -------------------------
(***************************************************************************)
(* apply_transaction: a change of the managed files of a repository is     *)
(* prepared in a shadow copy, promoted file by file, and rolled back when  *)
(* a check or a write fails.  Nothing is journaled: a killed process       *)
(* leaves what it wrote, and only running the transaction again repairs it.*)
(*                                                                         *)
(* A file is replaced or unlinked in one step.  Nobody else writes to the  *)
(* managed files meanwhile; paths and symlink refusals are left out.       *)
(***************************************************************************)
EXTENDS Integers, FiniteSets

CONSTANTS FileCount,      \* managed files, in the sorted order of promotion
          MaxInterrupts,  \* interruptions such as KeyboardInterrupt
          MaxKills,       \* process deaths that run no handler
          MaxRuns         \* runs of the same transaction

ASSUME InstallAssumption ==
  /\ FileCount \in Nat /\ MaxInterrupts \in Nat
  /\ MaxKills \in Nat /\ MaxRuns \in Nat \ {0}

VARIABLES repo,       \* content and mode of each managed file
          desired,    \* what mutate_shadow makes of it
          before,     \* the repository when the current run planned its changes
          changed,    \* the files the current run will promote
          applied,    \* the files it recorded as promoted
          phase, interrupts, kills, attempts

bounds == <<interrupts, kills, attempts>>
vars == <<repo, desired, before, changed, applied, phase,
          interrupts, kills, attempts>>

Files == 1 .. FileCount
Absent == "absent"
Contents == {Absent, "old", "new"}

Phases == {"idle", "promoting", "written", "recorded", "rolling_back",
           "done", "failed", "killed"}

\* The phases inside the try block.
Guarded == {"promoting", "written", "recorded"}

Init ==
  /\ repo \in [Files -> {Absent, "old"}]
  /\ desired \in [Files -> Contents]
  /\ before = repo
  /\ changed = {} /\ applied = {}
  /\ phase = "idle"
  /\ interrupts = 0 /\ kills = 0 /\ attempts = 1

Pending == changed \ applied

\* The file of `changed` at hand: they are promoted in their sorted order.
Current(f) == f \in Pending /\ \A g \in Pending : f <= g

Go(p) == phase' = p

-----------------------------------------------------------------------------
(* Planning: the shadow, the changed files and their snapshots.            *)

\* Mutant: what an earlier run recorded is not forgotten.
PlanKeepsApplied ==
  /\ phase = "idle"
  /\ before' = repo
  /\ changed' = {f \in Files : repo[f] # desired[f]}
  /\ Go("promoting")
  /\ UNCHANGED <<repo, desired, applied, bounds>>

Plan ==
  /\ phase = "idle"
  /\ before' = repo
  /\ changed' = {f \in Files : repo[f] # desired[f]}
  /\ applied' = {}
  /\ Go("promoting")
  /\ UNCHANGED <<repo, desired, bounds>>

\* The shadow cannot be built or mutated: nothing has been promoted.
PlanFails ==
  /\ phase = "idle"
  /\ before' = repo
  /\ changed' = {} /\ applied' = {}
  /\ Go("failed")
  /\ UNCHANGED <<repo, desired, bounds>>

-----------------------------------------------------------------------------
(* Promotion.                                                              *)

PromoteFile(f) ==
  /\ phase = "promoting"
  /\ Current(f)
  /\ repo' = [repo EXCEPT ![f] = desired[f]]
  /\ Go("written")
  /\ UNCHANGED <<desired, before, changed, applied, bounds>>

RecordFile(f) ==
  /\ phase = "written"
  /\ Current(f)
  /\ applied' = applied \cup {f}
  /\ Go("recorded")
  /\ UNCHANGED <<repo, desired, before, changed, bounds>>

\* validate_promotion accepts the file just recorded.
ValidatePromotion ==
  /\ phase = "recorded"
  /\ Go("promoting")
  /\ UNCHANGED <<repo, desired, before, changed, applied, bounds>>

\* validate_final accepts the promoted repository.
Finish ==
  /\ phase = "promoting"
  /\ Pending = {}
  /\ Go("done")
  /\ UNCHANGED <<repo, desired, before, changed, applied, bounds>>

\* A validation raises, or the write of the current file does.
FailGuarded ==
  /\ phase \in {"promoting", "recorded"}
  /\ Go("rolling_back")
  /\ UNCHANGED <<repo, desired, before, changed, applied, bounds>>

\* The interpreter raises an interruption between any two operations, or a
\* write of the rollback fails: the handler is not itself protected.
Interrupt ==
  /\ interrupts < MaxInterrupts
  /\ interrupts' = interrupts + 1
  /\ \/ phase \in Guarded /\ Go("rolling_back")
     \/ phase = "rolling_back" /\ Go("failed")
  /\ UNCHANGED <<repo, desired, before, changed, applied, kills, attempts>>

-----------------------------------------------------------------------------
(* Rollback.                                                               *)

\* Mutant: a file the transaction created is left behind.
RollbackKeepsCreated(f) ==
  /\ phase = "rolling_back"
  /\ f \in applied /\ \A g \in applied : g <= f
  /\ applied' = applied \ {f}
  /\ repo' = IF before[f] = Absent THEN repo
             ELSE [repo EXCEPT ![f] = before[f]]
  /\ UNCHANGED <<desired, before, changed, phase, bounds>>

\* Newest first, from the snapshot; a file that did not exist is unlinked.
RollbackFile(f) ==
  /\ phase = "rolling_back"
  /\ f \in applied /\ \A g \in applied : g <= f
  /\ applied' = applied \ {f}
  /\ repo' = [repo EXCEPT ![f] = before[f]]
  /\ UNCHANGED <<desired, before, changed, phase, bounds>>

RolledBack ==
  /\ phase = "rolling_back"
  /\ applied = {}
  /\ Go("failed")
  /\ UNCHANGED <<repo, desired, before, changed, applied, bounds>>

-----------------------------------------------------------------------------
(* The environment.                                                        *)

Kill ==
  /\ kills < MaxKills
  /\ phase \in Guarded \cup {"rolling_back"}
  /\ kills' = kills + 1
  /\ Go("killed")
  /\ UNCHANGED <<repo, desired, before, changed, applied, interrupts, attempts>>

RunAgain ==
  /\ attempts < MaxRuns
  /\ phase \in {"failed", "killed"}
  /\ attempts' = attempts + 1
  /\ Go("idle")
  /\ UNCHANGED <<repo, desired, before, changed, applied, interrupts, kills>>

Next ==
  \/ Plan \/ PlanFails
  \/ \E f \in Files : PromoteFile(f) \/ RecordFile(f) \/ RollbackFile(f)
  \/ ValidatePromotion \/ Finish \/ FailGuarded \/ Interrupt
  \/ RolledBack \/ Kill \/ RunAgain

Spec == Init /\ [][Next]_vars

-----------------------------------------------------------------------------
(* Properties.                                                             *)

\* Every variable keeps its shape, and a run records only what it promoted.
TypeOK ==
  /\ repo \in [Files -> Contents] /\ before \in [Files -> Contents]
  /\ desired \in [Files -> Contents]
  /\ changed \subseteq Files /\ applied \subseteq changed
  /\ phase \in Phases
  /\ interrupts \in Nat /\ kills \in Nat /\ attempts \in Nat

\* A file is replaced before it is recorded, so an interruption between the two
\* leaves it promoted; but it is the only one, wherever the run breaks off: any
\* other file that differs from its snapshot is on the list of the rollback.
OneFileAstray ==
  phase \in Guarded \cup {"rolling_back", "failed"} =>
    \A f, g \in Files \ applied :
      repo[f] # before[f] /\ repo[g] # before[g] => f = g

\* A run that reports success has promoted every managed file, also after runs
\* that were killed or interrupted; and while nothing interrupts, a run that
\* fails at any check or write restores what it found.
AtomicUnlessInterrupted ==
  /\ phase = "done" => repo = desired
  /\ interrupts = 0 /\ phase = "failed" => repo = before
=============================================================================
